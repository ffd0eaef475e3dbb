SPECIFICATION Spec
CONSTANTS
  Tasks = {1}
  Agents <- MCAgents
  StepNames <- MCStepNames
  Plans <- MCPlans
  NoPlan = NoPlan
  Workers = {w1}
  Callers = {}
  WorkerGraphs = {}
  CallerGraphs <- MCAgents
  MaxIterations = 2
  MaxToolCalls = 2
  Cancellers = {x1}
  Deciders = {}
  MaxConcurrent = 1
  MaxCrashes = 0
  MaxResumes = 0
PROPERTY TerminalIsFinal
\* The system may stop: every task settled and the bounds reached.
CHECK_DEADLOCK FALSE
