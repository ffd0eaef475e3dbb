SPECIFICATION FairSpec
CONSTANTS
  Tasks = {1, 2}
  Agents <- MCAgents
  StepNames <- MCStepNames
  Plans <- ShortPlans
  NoPlan = NoPlan
  Workers = {w1}
  Callers = {}
  WorkerGraphs = {}
  CallerGraphs <- MCAgents
  MaxIterations = 1
  MaxToolCalls = 2
  Cancellers = {x1}
  Deciders = {}
  MaxConcurrent = 1
  MaxCrashes = 0
  MaxResumes = 0
INVARIANT WorkerCapacity
PROPERTIES RunsEnd ClaimedEventually
\* The system may stop: every task settled and the bounds reached.
CHECK_DEADLOCK FALSE
