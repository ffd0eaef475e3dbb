SPECIFICATION Spec
CONSTANTS
  Requests = {r1, r2}
  Keys = {key1}
  Contents <- MCContents
  NoContent = NoContent
  MaxSubmits = 3
  MaxEdits = 1
  MaxCrashes = 1
INVARIANT NeverTwice
\* The system may stop: every request answered and the bounds reached.
CHECK_DEADLOCK FALSE
