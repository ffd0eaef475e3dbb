SPECIFICATION FairSpec
CONSTANTS
  Requests = {r1, r2}
  Keys = {key1, key2}
  Contents <- MCContents
  NoContent = NoContent
  MaxSubmits = 3
  MaxEdits = 1
  MaxCrashes = 2
INVARIANTS TypeOK DuplicatesNeedCrashes RowStandsForPost AnswersAgree AttemptsOnRecord
PROPERTY RequestsEnd
\* The system may stop: every request answered and the bounds reached.
CHECK_DEADLOCK FALSE
