SPECIFICATION Spec
CONSTANTS
  Tasks = {1}
  Agents <- MCAgents
  StepNames <- MCStepNames
  Plans <- MCPlans
  NoPlan = NoPlan
  Workers = {w1}
  Callers = {c1}
  WorkerGraphs <- MCAgents
  CallerGraphs <- MCAgents
  MaxIterations = 2
  MaxToolCalls = 2
  Cancellers = {x1}
  Deciders = {d1}
  MaxConcurrent = 1
  MaxCrashes = 1
  MaxResumes = 1
INVARIANTS TypeOK GateHonoured PlanPerformed CompletedIsReported NotStranded
PROPERTY LifecycleSpec
\* The system may stop: every task settled and the bounds reached.
CHECK_DEADLOCK FALSE
