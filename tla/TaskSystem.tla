------------------------------ MODULE TaskSystem ------------------------------
(***************************************************************************)
(* The task subsystem: API requests, workers and orchestrator runs over one *)
(* database, and the properties it is meant to have.                        *)
(***************************************************************************)
EXTENDS TaskWorker, TaskApi

vars == <<storeVars, runVars, workerVars, apiVars>>

Init == StoreInit /\ RunInit /\ WorkerInit /\ ApiInit

Next ==
  \/ WorkerNext /\ UNCHANGED apiVars
  \/ ClientNext /\ UNCHANGED <<runVars, workerVars>>
  \/ (\E t \in Tasks : CreateTask(t)) /\ UNCHANGED <<runVars, workerVars, apiVars>>

Spec == Init /\ [][Next]_vars

\* A worker keeps polling and its event loop keeps scheduling its coroutines;
\* database calls, the planner and subgraphs return or raise.  Requests,
\* callers, deaths and the arrival of tasks are not promised.
Fairness ==
  \A w \in Workers :
    /\ WF_vars(PollSelect(w) /\ UNCHANGED apiVars)
    /\ WF_vars(PollClaim(w) /\ UNCHANGED apiVars)
    /\ \A t \in Tasks : WF_vars(RunStep(w, t) /\ UNCHANGED <<workerVars, apiVars>>)

FairSpec == Spec /\ Fairness

TypeOK ==
  /\ tasks \in [Tasks -> TaskRow]
  /\ approvals \in Seq(Approval)
  /\ approvedOnce \subseteq Tasks \X StepNames \X Agents
  /\ visited \in [Tasks -> SUBSET TaskState]
  /\ run \in [Runners -> [Tasks -> Run]]
  /\ performed \subseteq [task : Tasks, step : PlanStep]
  /\ batch \in [Workers -> SUBSET Tasks]
  /\ crashes \in 0..MaxCrashes
  /\ resumes \in 0..MaxResumes
  /\ request \in [Clients -> Request]

-----------------------------------------------------------------------------
(* Safety that survives every interleaving.                                 *)

(***************************************************************************)
(* The approval gate of _execute_plan: no subgraph is invoked for a step    *)
(* that requires approval unless a human had approved an action of that     *)
(* name for that task, whatever cancels, stale decisions, re-runs and dying *)
(* workers do meanwhile.                                                    *)
(***************************************************************************)
GateHonoured ==
  \A e \in performed :
    e.step.requires_approval =>
      \E agent \in Agents : <<e.task, e.step.name, agent>> \in approvedOnce

(***************************************************************************)
(* COMPLETED means done: every step of the plan stored in the row of a      *)
(* completed task was really handed to its subgraph.  (It takes one process *)
(* per task: two workers that plan the same task store each other's plans.) *)
(***************************************************************************)
PlanPerformed ==
  \A t \in InState({"COMPLETED"}) :
    \A i \in DOMAIN tasks[t].plan :
      [task |-> t, step |-> tasks[t].plan[i]] \in performed

(***************************************************************************)
(* A completed task has its report, or the run that completed it is about   *)
(* to commit one: nothing between the two commits of run() can end it, and  *)
(* nobody writes back an older result, in which the report is missing.  The *)
(* death of the process is the exception.  (It also takes one process per   *)
(* task: a second worker may store a plan over a result with a report.)     *)
(***************************************************************************)
CompletedIsReported ==
  crashes = 0 =>
    \A t \in InState({"COMPLETED"}) :
      tasks[t].report \/ \E w \in Runners : run[w][t].goal = "COMPLETED"

(***************************************************************************)
(* No task is left in a state that only a run can move on without a run     *)
(* that is still at work on it: every way out of run() after a commit of    *)
(* one of these states commits another state first.  A death of the process *)
(* is the exception, because only CREATED tasks are ever polled.            *)
(***************************************************************************)
InFlightStates ==
  {"VALIDATING", "RESEARCHING", "DRAFTING", "VALIDATING_RESULT", "VERIFYING"}

NotStranded ==
  crashes = 0 =>
    \A t \in InState(InFlightStates) : \E w \in Runners : ~At(w, t, "idle")

(***************************************************************************)
(* The row of every task keeps the promise of module TaskLifecycle: each    *)
(* state is entered from a state the row has been in, though the session    *)
(* that enters it validated against a copy that may be out of date.         *)
(***************************************************************************)
Lifecycle == INSTANCE TaskLifecycle WITH state <- [t \in Tasks |-> tasks[t].state]

LifecycleSpec == Lifecycle!Spec

(***************************************************************************)
(* A worker never runs more tasks than max_concurrent_tasks, although the   *)
(* rows it claims come from a SELECT made before other runs ended.          *)
(***************************************************************************)
WorkerCapacity == \A w \in Workers : Cardinality(Active(w)) <= MaxConcurrent

-----------------------------------------------------------------------------
(* Liveness under Fairness.                                                 *)

\* Every run leaves run(): the limits, the gate and the handlers never loop.
RunsEnd ==
  \A w \in Workers, t \in Tasks : ~At(w, t, "idle") ~> At(w, t, "idle")

\* The poll starves nobody: oldest first, a LIMIT, a check of _active_tasks and
\* a bound on concurrency still reach every CREATED task.
ClaimedEventually ==
  \A t \in Tasks : tasks[t].state = "CREATED" ~> tasks[t].state # "CREATED"

-----------------------------------------------------------------------------
(* Statements of the repository that the code does not keep.                *)

(***************************************************************************)
(* state_machine.py: "Terminal states can never transition further."  A     *)
(* session that read the row before it became terminal commits over it.     *)
(***************************************************************************)
TerminalIsFinal ==
  [][\A t \in Tasks : tasks[t].state \in TERMINAL_STATES
                        => tasks'[t].state = tasks[t].state]_vars

(***************************************************************************)
(* docs/deployment.md: "each task is claimed by exactly one worker".  The   *)
(* SELECT of _poll_once locks nothing and claiming writes nothing.          *)
(***************************************************************************)
ExclusiveClaim ==
  \A t \in Tasks : \A v, w \in Workers :
    ~At(v, t, "idle") /\ ~At(w, t, "idle") => v = w

(***************************************************************************)
(* A task that waits for approval has a pending approval to decide.  The    *)
(* handler of ApprovalRequiredError moves the task back to waiting when the *)
(* approval is decided between the commit and the refresh of                *)
(* create_approval; nobody can then decide it any more.                     *)
(***************************************************************************)
WaitingIsDecidable ==
  \A t \in InState({"WAITING_FOR_APPROVAL"}) : Pending(t) # {}

(***************************************************************************)
(* approval_service.py: "Approving a request resumes the task".  A task     *)
(* whose approval put it back to EXECUTING eventually reaches an end.       *)
(***************************************************************************)
Approved(t) == tasks[t].state = "EXECUTING" /\ ApprovedActions(t) # {}

ApprovedTaskSettles ==
  \A t \in Tasks : Approved(t) ~> tasks[t].state \in TERMINAL_STATES
=============================================================================
