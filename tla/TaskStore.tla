------------------------------ MODULE TaskStore -------------------------------
(***************************************************************************)
(* The committed rows of PostgreSQL that the task subsystem shares: the     *)
(* tasks table and the approvals table.  Sessions keep their own copies of  *)
(* rows (module OrchestratorRun, module TaskApi); a row changes here when a *)
(* transaction commits.  No column carries a version, and an UPDATE names   *)
(* the row by its id alone, so a commit overwrites whatever it finds.       *)
(***************************************************************************)
EXTENDS TaskStates, FiniteSets

CONSTANTS
  Tasks,        \* task ids; their order stands for the order of created_at
  Agents,       \* PlanStep.agent: the subgraphs a step may name
  StepNames,    \* PlanStep.name, which is also Approval.action
  Plans,        \* the plans the planner may produce
  NoPlan        \* task.result holds no "plan" key

PlanStep == [name : StepNames, agent : Agents, requires_approval : BOOLEAN]

ASSUME TasksAssumption == Tasks \subseteq Nat \ {0}
ASSUME PlansAssumption == Plans \subseteq Seq(PlanStep) /\ NoPlan \notin Plans

VARIABLES
  tasks,         \* tasks[t]: the committed row of task t
  approvals,     \* the approval rows, oldest first
  approvedOnce,  \* history: every <<task, action, target>> ever approved
  visited        \* history: visited[t], the states the row of t has been in

storeVars == <<tasks, approvals, approvedOnce, visited>>

\* result is one JSON column: its "plan" key and its report keys (iterations,
\* tool_calls, steps).  error is a column of its own.
TaskRow == [state  : TaskState \cup {"absent"},
            plan   : Plans \cup {NoPlan},
            report : BOOLEAN,
            error  : BOOLEAN]

NoRow == [state |-> "absent", plan |-> NoPlan, report |-> FALSE, error |-> FALSE]

Approval == [task : Tasks, action : StepNames, target : Agents,
             status : {"pending", "approved", "rejected"}]

StoreInit ==
  /\ tasks = [t \in Tasks |-> NoRow]
  /\ approvals = <<>>
  /\ approvedOnce = {}
  /\ visited = [t \in Tasks |-> {}]

\* A commit of transition_task: UPDATE tasks SET state = s WHERE id = t.
SetState(t, s) ==
  /\ tasks' = [tasks EXCEPT ![t].state = s]
  /\ visited' = [visited EXCEPT ![t] = @ \cup {s}]

\* A commit of task.result, which always writes both of its parts.
SaveResult(t, plan, report) ==
  /\ tasks' = [tasks EXCEPT ![t] = [@ EXCEPT !.plan = plan, !.report = report]]
  /\ visited' = visited

InState(states) == {t \in Tasks : tasks[t].state \in states}

\* Ids of the pending approvals of a task.
Pending(t) ==
  {a \in DOMAIN approvals : approvals[a].task = t /\ approvals[a].status = "pending"}

\* get_pending_for_task: the newest one, if there is any.
LatestPending(t) == {a \in Pending(t) : \A b \in Pending(t) : b <= a}

\* Mutant: the query forgets the status column.
ApprovedActionsAnyStatus(t) ==
  {approvals[a].action : a \in {b \in DOMAIN approvals : approvals[b].task = t}}

ApprovedActions(t) ==
  {approvals[a].action : a \in {b \in DOMAIN approvals :
                                  /\ approvals[b].task = t
                                  /\ approvals[b].status = "approved"}}

\* Mutant: the state of the task is stored as the status of the approval.
PendingApprovalTaskState(t, step) ==
  [task |-> t, action |-> step.name, target |-> step.agent,
   status |-> "WAITING_FOR_APPROVAL"]

PendingApproval(t, step) ==
  [task |-> t, action |-> step.name, target |-> step.agent, status |-> "pending"]

\* POST /tasks.
CreateTask(t) ==
  /\ tasks[t].state = "absent"
  /\ \A u \in Tasks : u < t => tasks[u].state # "absent"
  /\ SetState(t, "CREATED")
  /\ UNCHANGED <<approvals, approvedOnce>>
=============================================================================
