SPECIFICATION Spec
CONSTANTS
  Tools <- MCTools
  Rpm = 1
  Minute = 2
  MaxTime = 2
  Callers = {k1}
  Registered <- MCTools
  Gated <- MCGated
  Composite <- MCComposite
  SubTools <- MCSubTools
  MaxSubCalls = 1
PROPERTY FatalNotRetried
\* The system may stop: no caller has to make another call.
CHECK_DEADLOCK FALSE
