SPECIFICATION FairSpec
CONSTANTS
  Runs = {r1, r2}
  Users = {u1}
  None = None
  MaxFaults = 1
  Callers = {k1, k2}
  MaxTabs = 3
  Casts <- MCCasts
INVARIANTS TypeOK RunLeavesNothing RegisteredIsUsable RoutesFailOnlyAfterStop
  SessionsNotLost ResultNamesItsPage ActiveIsLive UsedPageUnwatched
PROPERTIES RecoveriesJudged Settles
\* The system may stop: clients need not come and users need not close.
CHECK_DEADLOCK FALSE
