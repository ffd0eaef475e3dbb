SPECIFICATION FairSpec
CONSTANTS
  Tools <- MCTools
  Rpm = 1
  Minute = 2
  MaxTime = 2
  Callers = {k1, k2}
  Registered <- MCTools
  Gated <- MCGated
  Composite <- MCComposite
  SubTools <- MCSubTools
  MaxSubCalls = 1
INVARIANTS TypeOK WindowBound EffortBounded
PROPERTY CallsEnd
\* The system may stop: no caller has to make another call.
CHECK_DEADLOCK FALSE
