---------------------------- MODULE OrchestratorRun ---------------------------
(***************************************************************************)
(* Orchestrator.run(task_id), one action per database transaction or        *)
(* subgraph invocation.  run[w][t] is the run of task t inside process w;   *)
(* it owns a session whose copy of the task row (the field row) is re-read  *)
(* only by the refresh after each commit.  All validation is done against   *)
(* that copy.                                                               *)
(***************************************************************************)
EXTENDS TaskStore

CONSTANTS
  Workers,         \* TaskWorker processes
  Callers,         \* other code that calls Orchestrator.run on a paused task
  WorkerGraphs,    \* agents with a compiled subgraph in a worker's runs
  CallerGraphs,    \* the same for the callers' runs
  MaxIterations,   \* LimitSettings.max_iterations
  MaxToolCalls     \* LimitSettings.max_tool_calls

ASSUME RunnersAssumption == Workers \cap Callers = {}
ASSUME LimitsAssumption == MaxIterations \in Nat /\ MaxToolCalls \in Nat

Runners == Workers \cup Callers

GraphsOf(w) == IF w \in Workers THEN WorkerGraphs ELSE CallerGraphs

VARIABLES
  run,         \* run[w][t]: the orchestrator run of t in process w
  performed    \* history: [task, step] of every subgraph invocation started

runVars == <<run, performed>>

PCs == {"idle", "load", "walk", "refresh", "plan", "planned", "snapshot", "step",
        "invoke", "asked", "pause", "persist", "fail", "timeout", "report"}

Run == [pc      : PCs,
        row     : TaskRow,                      \* the session's copy of the row
        goal    : TaskState,                    \* target of the current _walk_to
        path    : Seq(TaskState),               \* transitions it has left
        plan    : Plans \cup {NoPlan},          \* state.plan
        granted : SUBSET StepNames,             \* approved_actions
        done    : Nat,                          \* state.iterations
        asking  : BOOLEAN]                      \* an unsaved Approval in the session

IdleRun == [pc |-> "idle", row |-> NoRow, goal |-> "PLANNING", path |-> <<>>,
            plan |-> NoPlan, granted |-> {}, done |-> 0, asking |-> FALSE]

RunInit ==
  /\ run = [w \in Runners |-> [t \in Tasks |-> IdleRun]]
  /\ performed = {}

At(w, t, pc) == run[w][t].pc = pc

Become(w, t, rec) == run' = [run EXCEPT ![w][t] = rec]

Goto(w, t, pc) == run' = [run EXCEPT ![w][t].pc = pc]

\* _walk_to computes the whole path from the copy it holds.
WalkTo(rec, target) ==
  [rec EXCEPT !.pc = "walk", !.goal = target,
              !.path = WalkPath(rec.row.state, target)]

CurrentStep(w, t) == run[w][t].plan[run[w][t].done + 1]

-----------------------------------------------------------------------------
(* Loading, planning and walking the state machine.                         *)

Load(w, t) ==
  LET rec == [run[w][t] EXCEPT !.row = tasks[t]]
  IN  /\ At(w, t, "load")
      /\ Become(w, t, IF tasks[t].state \in {"CREATED", "VALIDATING"}
                      THEN WalkTo(rec, "PLANNING")
                      ELSE [rec EXCEPT !.pc = "plan"])
      /\ UNCHANGED <<storeVars, performed>>

\* Mutant: the state is assigned without transition().
WalkUnvalidated(w, t) ==
  /\ At(w, t, "walk")
  /\ run[w][t].path # <<>>
  /\ SetState(t, Head(run[w][t].path))
  /\ Goto(w, t, "refresh")
  /\ UNCHANGED <<approvals, approvedOnce, performed>>

\* transition_task: validate the copy, commit.
Walk(w, t) ==
  /\ At(w, t, "walk")
  /\ run[w][t].path # <<>>
  /\ CanTransition(run[w][t].row.state, Head(run[w][t].path))
  /\ SetState(t, Head(run[w][t].path))
  /\ Goto(w, t, "refresh")
  /\ UNCHANGED <<approvals, approvedOnce, performed>>

\* transition_task: session.refresh, a SELECT of its own.
Refresh(w, t) ==
  /\ At(w, t, "refresh")
  /\ Become(w, t, [run[w][t] EXCEPT !.row = tasks[t], !.path = Tail(@), !.pc = "walk"])
  /\ UNCHANGED <<storeVars, performed>>

\* InvalidStateTransitionError: on the way to PLANNING it leaves run(), later
\* the handler of run() takes it.
WalkRefused(w, t) ==
  /\ At(w, t, "walk")
  /\ run[w][t].path # <<>>
  /\ ~CanTransition(run[w][t].row.state, Head(run[w][t].path))
  /\ IF run[w][t].goal = "PLANNING"
     THEN Become(w, t, IdleRun)
     ELSE Goto(w, t, "fail")
  /\ UNCHANGED <<storeVars, performed>>

\* Mutant: run() returns after the walk to VERIFYING.
ArriveEarlyReturn(w, t) ==
  /\ At(w, t, "walk")
  /\ run[w][t].path = <<>>
  /\ \/ run[w][t].goal = "PLANNING"  /\ Goto(w, t, "plan")
     \/ run[w][t].goal = "EXECUTING" /\ Goto(w, t, "step")
     \/ run[w][t].goal = "VERIFYING" /\ Become(w, t, IdleRun)
     \/ run[w][t].goal = "COMPLETED" /\ Goto(w, t, "persist")
  /\ UNCHANGED <<storeVars, performed>>

\* Mutant: run() returns after the walk to COMPLETED.
ArriveUnreported(w, t) ==
  /\ At(w, t, "walk")
  /\ run[w][t].path = <<>>
  /\ \/ run[w][t].goal = "PLANNING"  /\ Goto(w, t, "plan")
     \/ run[w][t].goal = "EXECUTING" /\ Goto(w, t, "step")
     \/ run[w][t].goal = "VERIFYING" /\ Become(w, t, WalkTo(run[w][t], "COMPLETED"))
     \/ run[w][t].goal = "COMPLETED" /\ Become(w, t, IdleRun)
  /\ UNCHANGED <<storeVars, performed>>

Arrive(w, t) ==
  /\ At(w, t, "walk")
  /\ run[w][t].path = <<>>
  /\ \/ run[w][t].goal = "PLANNING"  /\ Goto(w, t, "plan")
     \/ run[w][t].goal = "EXECUTING" /\ Goto(w, t, "step")
     \/ run[w][t].goal = "VERIFYING" /\ Become(w, t, WalkTo(run[w][t], "COMPLETED"))
     \/ run[w][t].goal = "COMPLETED" /\ Goto(w, t, "persist")
  /\ UNCHANGED <<storeVars, performed>>

PlanCached(w, t) ==
  /\ At(w, t, "plan")
  /\ run[w][t].row.plan # NoPlan
  /\ Become(w, t, [run[w][t] EXCEPT !.plan = run[w][t].row.plan, !.pc = "snapshot"])
  /\ UNCHANGED <<storeVars, performed>>

\* The planner answered: result = {**copy, "plan": plan}, committed.
PlanMade(w, t, p) ==
  /\ At(w, t, "plan")
  /\ run[w][t].row.plan = NoPlan
  /\ SaveResult(t, p, run[w][t].row.report)
  /\ Become(w, t, [run[w][t] EXCEPT !.plan = p, !.pc = "planned"])
  /\ UNCHANGED <<approvals, approvedOnce, performed>>

\* The planner raised, outside the handlers of run(): nothing is committed.
PlannerFails(w, t) ==
  /\ At(w, t, "plan")
  /\ run[w][t].row.plan = NoPlan
  /\ Become(w, t, IdleRun)
  /\ UNCHANGED <<storeVars, performed>>

RefreshPlanned(w, t) ==
  /\ At(w, t, "planned")
  /\ Become(w, t, [run[w][t] EXCEPT !.row = tasks[t], !.pc = "snapshot"])
  /\ UNCHANGED <<storeVars, performed>>

\* _approved_actions_for, read once for the whole run.
Snapshot(w, t) ==
  /\ At(w, t, "snapshot")
  /\ Become(w, t, WalkTo([run[w][t] EXCEPT !.granted = ApprovedActions(t)],
                         "EXECUTING"))
  /\ UNCHANGED <<storeVars, performed>>

-----------------------------------------------------------------------------
(* Executing the plan: one iteration of _execute_plan per step.             *)

\* Mutant: the loop stops one step early.
HasStepOffByOne(w, t) ==
  At(w, t, "step") /\ run[w][t].done + 1 < Len(run[w][t].plan)

HasStep(w, t) == At(w, t, "step") /\ run[w][t].done < Len(run[w][t].plan)

\* One tool call per step: a failed step ends the run (see StepFails).
OverLimit(w, t) ==
  \/ run[w][t].done >= MaxIterations
  \/ run[w][t].done >= MaxToolCalls

NeedsApproval(w, t) ==
  /\ CurrentStep(w, t).requires_approval
  /\ CurrentStep(w, t).name \notin run[w][t].granted

\* _check_limits: the clock may have run out at any check.
LimitReached(w, t) ==
  /\ HasStep(w, t)
  /\ Goto(w, t, "timeout")
  /\ UNCHANGED <<storeVars, performed>>

\* create_approval: the pending row and WAITING_FOR_APPROVAL in one commit.
AskApproval(w, t) ==
  /\ HasStep(w, t) /\ ~OverLimit(w, t) /\ NeedsApproval(w, t)
  /\ CanTransition(run[w][t].row.state, "WAITING_FOR_APPROVAL")
  /\ approvals' = Append(approvals, PendingApproval(t, CurrentStep(w, t)))
  /\ SetState(t, "WAITING_FOR_APPROVAL")
  /\ Goto(w, t, "asked")
  /\ UNCHANGED <<approvedOnce, performed>>

\* The transition is refused after session.add: the row stays in the session
\* and the handler's commit will write it.
AskRefused(w, t) ==
  /\ HasStep(w, t) /\ ~OverLimit(w, t) /\ NeedsApproval(w, t)
  /\ ~CanTransition(run[w][t].row.state, "WAITING_FOR_APPROVAL")
  /\ Become(w, t, [run[w][t] EXCEPT !.asking = TRUE, !.pc = "fail"])
  /\ UNCHANGED <<storeVars, performed>>

StepBegin(w, t) ==
  /\ HasStep(w, t) /\ ~OverLimit(w, t) /\ ~NeedsApproval(w, t)
  /\ CurrentStep(w, t).agent \in GraphsOf(w)
  /\ performed' = performed \cup {[task |-> t, step |-> CurrentStep(w, t)]}
  /\ Goto(w, t, "invoke")
  /\ UNCHANGED storeVars

NoGraph(w, t) ==
  /\ HasStep(w, t) /\ ~OverLimit(w, t) /\ ~NeedsApproval(w, t)
  /\ CurrentStep(w, t).agent \notin GraphsOf(w)
  /\ Goto(w, t, "fail")
  /\ UNCHANGED <<storeVars, performed>>

StepSucceeds(w, t) ==
  /\ At(w, t, "invoke")
  /\ Become(w, t, [run[w][t] EXCEPT !.done = @ + 1, !.pc = "step"])
  /\ UNCHANGED <<storeVars, performed>>

\* AgentResult.error is the text of the exception, which _classify answers
\* with FAIL: neither RETRY nor ESCALATE is ever chosen.
StepFails(w, t) ==
  /\ At(w, t, "invoke")
  /\ Goto(w, t, "fail")
  /\ UNCHANGED <<storeVars, performed>>

PlanDone(w, t) ==
  /\ At(w, t, "step")
  /\ ~HasStep(w, t)
  /\ Become(w, t, WalkTo(run[w][t], "VERIFYING"))
  /\ UNCHANGED <<storeVars, performed>>

\* _persist_result: result = {**copy, report}, committed.
PersistResult(w, t) ==
  /\ At(w, t, "persist")
  /\ SaveResult(t, run[w][t].row.plan, TRUE)
  /\ Become(w, t, IdleRun)
  /\ UNCHANGED <<approvals, approvedOnce, performed>>

-----------------------------------------------------------------------------
(* The except clauses of run().                                             *)

RefreshAsked(w, t) ==
  /\ At(w, t, "asked")
  /\ Become(w, t, [run[w][t] EXCEPT !.row = tasks[t], !.pc = "pause"])
  /\ UNCHANGED <<storeVars, performed>>

\* ApprovalRequiredError: "only transition when still needed".
Pause(w, t) ==
  /\ At(w, t, "pause")
  /\ IF CanTransition(run[w][t].row.state, "WAITING_FOR_APPROVAL")
     THEN SetState(t, "WAITING_FOR_APPROVAL")
     ELSE UNCHANGED <<tasks, visited>>
  /\ Become(w, t, IdleRun)
  /\ UNCHANGED <<approvals, approvedOnce, performed>>

EndState(w, t) == IF At(w, t, "timeout") THEN "TIMED_OUT" ELSE "FAILED"

\* The handler's transition_task also flushes an Approval left in the session.
Handle(w, t) ==
  /\ At(w, t, "fail") \/ At(w, t, "timeout")
  /\ CanTransition(run[w][t].row.state, EndState(w, t))
  /\ SetState(t, EndState(w, t))
  /\ approvals' = IF run[w][t].asking
                  THEN Append(approvals, PendingApproval(t, CurrentStep(w, t)))
                  ELSE approvals
  /\ Goto(w, t, "report")
  /\ UNCHANGED <<approvedOnce, performed>>

\* The copy is already terminal: the exception leaves run(), all is rolled back.
HandleRefused(w, t) ==
  /\ At(w, t, "fail") \/ At(w, t, "timeout")
  /\ ~CanTransition(run[w][t].row.state, EndState(w, t))
  /\ Become(w, t, IdleRun)
  /\ UNCHANGED <<storeVars, performed>>

\* Mutant: saving the error re-enters the handler.
PersistErrorRetried(w, t) ==
  /\ At(w, t, "report")
  /\ tasks' = [tasks EXCEPT ![t].error = TRUE]
  /\ Goto(w, t, "fail")
  /\ UNCHANGED <<approvals, approvedOnce, visited, performed>>

\* _persist_error
PersistError(w, t) ==
  /\ At(w, t, "report")
  /\ tasks' = [tasks EXCEPT ![t].error = TRUE]
  /\ Become(w, t, IdleRun)
  /\ UNCHANGED <<approvals, approvedOnce, visited, performed>>

RunStep(w, t) ==
  \/ Load(w, t)     \/ Walk(w, t)       \/ Refresh(w, t)
  \/ WalkRefused(w, t) \/ Arrive(w, t)  \/ PlanCached(w, t)
  \/ \E p \in Plans : PlanMade(w, t, p)
  \/ PlannerFails(w, t) \/ RefreshPlanned(w, t) \/ Snapshot(w, t)
  \/ LimitReached(w, t) \/ AskApproval(w, t)    \/ AskRefused(w, t)
  \/ StepBegin(w, t) \/ NoGraph(w, t) \/ StepSucceeds(w, t) \/ StepFails(w, t)
  \/ PlanDone(w, t)  \/ PersistResult(w, t)
  \/ RefreshAsked(w, t) \/ Pause(w, t)
  \/ Handle(w, t) \/ HandleRefused(w, t) \/ PersistError(w, t)
=============================================================================
