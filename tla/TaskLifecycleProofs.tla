-------------------------- MODULE TaskLifecycleProofs --------------------------
(***************************************************************************)
(* What a row of the tasks table tells of the past, for every value of the  *)
(* constants: TaskSystem implements TaskLifecycle (the mapping is the state *)
(* column of each row and the history of states), and COMPLETED means that  *)
(* the plan was performed and the report is there or on its way.  And what  *)
(* it tells of the future: a terminal state stays once no session is left   *)
(* that read the row before, and no task is queued for the poll twice.      *)
(***************************************************************************)
EXTENDS TaskSystemProofs

(***************************************************************************)
(* Why a commit of a stale copy still enters the new state from a state the *)
(* row has been in: every copy a session holds was read from the row, and   *)
(* every request that has validated its transition did so on such a copy.   *)
(***************************************************************************)
Exists(t) == tasks[t].state # "absent"

Enterable(t, target) == \E s \in visited[t] : CanTransition(s, target)

RowsVisited == \A t \in Tasks : Exists(t) => tasks[t].state \in visited[t]

CopiesVisited ==
  \A w \in Runners, t \in Tasks :
    run[w][t].pc # "idle" =>
      /\ Exists(t)
      /\ run[w][t].pc # "load" => run[w][t].row.state \in visited[t]

BatchesExist == \A w \in Workers : \A t \in batch[w] : Exists(t)

ApprovalsExist == \A a \in DOMAIN approvals : Exists(approvals[a].task)

ValidatedRequest(q) ==
  /\ q.pc # "idle" => Exists(q.task)
  /\ q.pc = "cancelling" => Enterable(q.task, "CANCELLED")
  /\ q.pc = "locked" => Enterable(q.task, DecisionTarget(q.verdict))

LifeInv ==
  /\ RowsVisited
  /\ CopiesVisited
  /\ BatchesExist
  /\ ApprovalsExist
  /\ \A c \in Clients : ValidatedRequest(request[c])

-----------------------------------------------------------------------------
(* What a step writes to tasks.state.                                       *)

Enters == \E t \in Tasks, s \in TaskState : SetState(t, s) /\ Enterable(t, s)

Creates == \E t \in Tasks : CreateTask(t)

KeepsStates ==
  /\ visited' = visited
  /\ \A t \in Tasks : tasks'[t].state = tasks[t].state

Writes == Enters \/ Creates \/ KeepsStates

\* An allowed transition leads to a task state.
LEMMA TransitionTyped ==
  ASSUME NEW s \in TaskState, NEW target, CanTransition(s, target)
  PROVE  target \in TaskState
BY DEF CanTransition, AllowedTransitions, HappyPath, EscalationTargets, TaskState

LEMMA WritesGrow ==
  ASSUME TypeInv, Writes, RowsVisited
  PROVE  /\ \A t \in Tasks : visited[t] \subseteq visited'[t]
         /\ \A t \in Tasks : Exists(t) => Exists(t)'
         /\ RowsVisited'
<1>1. tasks \in [Tasks -> TaskRow] /\ visited \in [Tasks -> SUBSET TaskState]
  BY DEF TypeInv, TypeOK
<1>2. ASSUME NEW t \in Tasks, NEW s \in TaskState, SetState(t, s)
      PROVE  /\ \A u \in Tasks : visited[u] \subseteq visited'[u]
             /\ \A u \in Tasks : Exists(u) => Exists(u)'
             /\ RowsVisited'
  <2>1. s # "absent"
    BY DEF TaskState
  <2>2. /\ \A u \in Tasks : tasks'[u].state = IF u = t THEN s ELSE tasks[u].state
        /\ \A u \in Tasks : visited'[u] = IF u = t THEN visited[u] \cup {s} ELSE visited[u]
    BY <1>1, <1>2 DEF SetState, TaskRow
  <2> QED BY <2>1, <2>2 DEF RowsVisited, Exists
<1>3. CASE Enters
  BY <1>2, <1>3 DEF Enters
<1>4. CASE Creates
  <2>1. PICK t \in Tasks : SetState(t, "CREATED")
    BY <1>4 DEF Creates, CreateTask
  <2>2. "CREATED" \in TaskState
    BY DEF TaskState
  <2> QED BY <1>2, <2>1, <2>2
<1>5. CASE KeepsStates
  BY <1>5 DEF KeepsStates, RowsVisited, Exists
<1> QED BY <1>3, <1>4, <1>5 DEF Writes

\* Both modules speak of the same state machine.
LEMMA SameStateMachine ==
  /\ Lifecycle!TaskState = TaskState
  /\ \A s, target : Lifecycle!CanTransition(s, target) <=> CanTransition(s, target)
<1>1. Lifecycle!TaskState = TaskState
  BY DEF TaskState, Lifecycle!TaskState
<1>2. Lifecycle!TERMINAL_STATES = TERMINAL_STATES
  BY DEF TERMINAL_STATES, Lifecycle!TERMINAL_STATES
<1>3. Lifecycle!HappyPath = HappyPath
  BY DEF HappyPath, Lifecycle!HappyPath
<1>4. Lifecycle!EscalationTargets = EscalationTargets
  BY DEF EscalationTargets, Lifecycle!EscalationTargets
<1>5. Lifecycle!AllowedTransitions = AllowedTransitions
  BY <1>1, <1>2, <1>3, <1>4 DEF AllowedTransitions, Lifecycle!AllowedTransitions
<1> QED BY <1>1, <1>2, <1>5 DEF CanTransition, Lifecycle!CanTransition

\* Every kind of write is a step, or a stutter, of the abstract life cycle.
LEMMA WritesRefine ==
  ASSUME TypeInv, Writes
  PROVE  [Lifecycle!Next]_<<[t \in Tasks |-> tasks[t].state], visited>>
<1> DEFINE states == [t \in Tasks |-> tasks[t].state]
<1>1. tasks \in [Tasks -> TaskRow] /\ visited \in [Tasks -> SUBSET TaskState]
  BY DEF TypeInv, TypeOK
<1>2. ASSUME NEW t \in Tasks, NEW s \in TaskState, SetState(t, s)
      PROVE  Lifecycle!Enter(t, s)
  <2>1. tasks' = [tasks EXCEPT ![t].state = s]
    BY <1>2 DEF SetState
  <2>2. [u \in Tasks |-> tasks'[u].state] = [states EXCEPT ![t] = s]
    BY <1>1, <2>1 DEF TaskRow
  <2>3. visited' = [visited EXCEPT ![t] = @ \cup {s}]
    BY <1>2 DEF SetState
  <2> QED BY <2>2, <2>3 DEF Lifecycle!Enter
<1>3. CASE Enters
  <2>1. PICK t \in Tasks, s \in TaskState : SetState(t, s) /\ Enterable(t, s)
    BY <1>3 DEF Enters
  <2>2. Lifecycle!Move(t, s)
    BY <1>2, <2>1, SameStateMachine DEF Lifecycle!Move, Enterable
  <2> QED BY <2>2, SameStateMachine DEF Lifecycle!Next
<1>4. CASE Creates
  <2>1. PICK t \in Tasks : tasks[t].state = "absent" /\ SetState(t, "CREATED")
    BY <1>4 DEF Creates, CreateTask
  <2>2. Lifecycle!Create(t)
    BY <1>2, <2>1 DEF Lifecycle!Create, TaskState
  <2> QED BY <2>2 DEF Lifecycle!Next
<1>5. CASE KeepsStates
  BY <1>5 DEF KeepsStates
<1> QED BY <1>3, <1>4, <1>5 DEF Writes

\* A run commits a state only from the copy it holds.
LEMMA RunStepWrites ==
  ASSUME TypeInv, LifeInv, NEW w \in Runners, NEW t \in Tasks, RunStep(w, t)
  PROVE  Writes
<1> DEFINE rec == run[w][t]
<1>1. rec \in Run /\ tasks \in [Tasks -> TaskRow]
  BY DEF TypeInv, TypeOK
<1>2. ASSUME NEW s, SetState(t, s), CanTransition(rec.row.state, s),
             rec.pc \notin {"idle", "load"}
      PROVE  Writes
  <2>1. rec.row.state \in visited[t]
    BY <1>2 DEF LifeInv, CopiesVisited
  <2>2. s \in TaskState
    BY <1>2, <2>1, TransitionTyped DEF TypeInv, TypeOK
  <2> QED BY <1>2, <2>1, <2>2 DEF Enterable, Enters, Writes
<1>3. CASE Walk(w, t)
  BY <1>2, <1>3 DEF Walk, At
<1>4. CASE AskApproval(w, t)
  BY <1>2, <1>4 DEF AskApproval, HasStep, At
<1>5. CASE Handle(w, t)
  BY <1>2, <1>5 DEF Handle, At
<1>6. CASE Pause(w, t)
  <2>1. CASE CanTransition(rec.row.state, "WAITING_FOR_APPROVAL")
    BY <1>2, <1>6, <2>1 DEF Pause, At
  <2>2. CASE ~CanTransition(rec.row.state, "WAITING_FOR_APPROVAL")
    BY <1>6, <2>2 DEF Pause, KeepsStates, Writes
  <2> QED BY <2>1, <2>2
<1>7. ASSUME NEW p, NEW b, SaveResult(t, p, b)
      PROVE  KeepsStates
  <2>1. tasks' = [tasks EXCEPT ![t] = [@ EXCEPT !.plan = p, !.report = b]] /\ visited' = visited
    BY <1>7, Zenon DEF SaveResult
  <2>2. [tasks[t] EXCEPT !.plan = p, !.report = b].state = tasks[t].state
    BY <1>1 DEF TaskRow
  <2>3. tasks'[t].state = tasks[t].state
    BY <1>1, <2>1, <2>2
  <2>4. \A u \in Tasks : u # t => tasks'[u] = tasks[u]
    BY <1>1, <2>1
  <2>5. \A u \in Tasks : tasks'[u].state = tasks[u].state
    BY <2>3, <2>4
  <2> QED BY <2>1, <2>5 DEF KeepsStates
<1>8. CASE PersistResult(w, t) \/ \E p \in Plans : PlanMade(w, t, p)
  BY <1>7, <1>8, Zenon DEF PersistResult, PlanMade, Writes
<1>9. CASE PersistError(w, t)
  BY <1>1, <1>9 DEF PersistError, KeepsStates, Writes, TaskRow
<1>10. CASE UNCHANGED storeVars
  BY <1>10 DEF storeVars, KeepsStates, Writes
<1> QED
  BY <1>3, <1>4, <1>5, <1>6, <1>8, <1>9, <1>10
  DEF RunStep, Load, Refresh, WalkRefused, Arrive, PlanCached, PlannerFails,
      RefreshPlanned, Snapshot, LimitReached, AskRefused, StepBegin, NoGraph,
      StepSucceeds, StepFails, PlanDone, RefreshAsked, HandleRefused

\* A copy only changes by being read again, and no run starts here.
CopiesReadFromRows ==
  \A v \in Runners, u \in Tasks :
    run'[v][u].pc # "idle" =>
      \/ run'[v][u] = run[v][u]
      \/ /\ run[v][u].pc # "idle"
         /\ \/ run'[v][u].row = tasks[u]
            \/ run'[v][u].row = run[v][u].row /\ run[v][u].pc # "load"

LEMMA BecomeCopies ==
  ASSUME TypeInv, NEW w \in Runners, NEW t \in Tasks, NEW rec, Become(w, t, rec),
         \/ rec.pc = "idle"
         \/ /\ run[w][t].pc # "idle"
            /\ \/ rec.row = tasks[t]
               \/ rec.row = run[w][t].row /\ run[w][t].pc # "load"
  PROVE  CopiesReadFromRows
BY DEF CopiesReadFromRows, Become, TypeInv

LEMMA WalkToCopies ==
  ASSUME NEW rec \in Run, NEW g
  PROVE  WalkTo(rec, g).row = rec.row
BY DEF WalkTo, Run

LEMMA RunStepCopies ==
  ASSUME TypeInv, NEW w \in Runners, NEW t \in Tasks, RunStep(w, t)
  PROVE  CopiesReadFromRows
<1> DEFINE rec == run[w][t]
<1>1. rec \in Run /\ tasks[t] \in TaskRow
  BY DEF TypeInv, TypeOK
<1>2. ASSUME NEW pc, Goto(w, t, pc), rec.pc \notin {"idle", "load"}
      PROVE  CopiesReadFromRows
  <2>1. [rec EXCEPT !.pc = pc].row = rec.row
    BY <1>1 DEF Run
  <2>2. Become(w, t, [rec EXCEPT !.pc = pc])
    BY <1>2 DEF Goto, Become
  <2> QED BY <1>2, <2>1, <2>2, BecomeCopies
<1>3. ASSUME Become(w, t, IdleRun)
      PROVE  CopiesReadFromRows
  BY <1>3, BecomeCopies DEF IdleRun
<1>4. CASE Load(w, t)
  <2> DEFINE new == [rec EXCEPT !.row = tasks[t]]
  <2>1. new \in Run /\ rec.pc = "load"
    BY <1>1, <1>4 DEF Run, Load, At
  <2>2. new.row = tasks[t] /\ [new EXCEPT !.pc = "plan"].row = tasks[t]
    BY <1>1 DEF Run
  <2>3. WalkTo(new, "PLANNING").row = tasks[t]
    BY <2>1, <2>2, WalkToCopies
  <2>4. Become(w, t, WalkTo(new, "PLANNING")) \/ Become(w, t, [new EXCEPT !.pc = "plan"])
    BY <1>4 DEF Load
  <2> QED BY <2>1, <2>2, <2>3, <2>4, BecomeCopies
<1>5. CASE Refresh(w, t) \/ RefreshPlanned(w, t) \/ RefreshAsked(w, t)
  <2>1. rec.pc # "idle"
    BY <1>5 DEF Refresh, RefreshPlanned, RefreshAsked, At
  <2>2. CASE Refresh(w, t)
    <3> DEFINE new == [rec EXCEPT !.row = tasks[t], !.path = Tail(@), !.pc = "walk"]
    <3>1. new.row = tasks[t]
      BY <1>1 DEF Run
    <3> QED BY <2>1, <2>2, <3>1, BecomeCopies DEF Refresh
  <2>3. ASSUME NEW pc, Become(w, t, [rec EXCEPT !.row = tasks[t], !.pc = pc])
        PROVE  CopiesReadFromRows
    <3>1. [rec EXCEPT !.row = tasks[t], !.pc = pc].row = tasks[t]
      BY <1>1 DEF Run
    <3> QED BY <2>1, <2>3, <3>1, BecomeCopies
  <2> QED BY <1>5, <2>2, <2>3, Zenon DEF RefreshPlanned, RefreshAsked
<1>6. CASE PlanCached(w, t) \/ \E p \in Plans : PlanMade(w, t, p)
  <2>1. PICK p, pc : Become(w, t, [rec EXCEPT !.plan = p, !.pc = pc])
    BY <1>6, Zenon DEF PlanCached, PlanMade
  <2>2. [rec EXCEPT !.plan = p, !.pc = pc].row = rec.row
    BY <1>1, PlanGiven
  <2>3. rec.pc = "plan"
    BY <1>6, Zenon DEF PlanCached, PlanMade, At
  <2> QED BY <2>1, <2>2, <2>3, BecomeCopies
<1>7. CASE Snapshot(w, t)
  <2>1. WalkTo([rec EXCEPT !.granted = ApprovedActions(t)], "EXECUTING").row = rec.row
    BY <1>1 DEF WalkTo, Run
  <2> QED BY <1>7, <2>1, BecomeCopies DEF Snapshot, At
<1>8. CASE AskRefused(w, t)
  <2>1. [rec EXCEPT !.asking = TRUE, !.pc = "fail"].row = rec.row
    BY <1>1 DEF Run
  <2> QED BY <1>8, <2>1, BecomeCopies DEF AskRefused, HasStep, At
<1>9. CASE StepSucceeds(w, t)
  <2>1. [rec EXCEPT !.done = @ + 1, !.pc = "step"].row = rec.row
    BY <1>1 DEF Run
  <2> QED BY <1>9, <2>1, BecomeCopies DEF StepSucceeds, At
<1>10. CASE Arrive(w, t) \/ PlanDone(w, t)
  <2>1. rec.pc \notin {"idle", "load"}
    BY <1>10 DEF Arrive, PlanDone, At
  <2>2. ASSUME NEW g, Become(w, t, WalkTo(rec, g))
        PROVE  CopiesReadFromRows
    BY <1>1, <2>1, <2>2, WalkToCopies, BecomeCopies
  <2> QED BY <1>2, <1>10, <2>1, <2>2 DEF Arrive, PlanDone
<1>11. CASE Walk(w, t) \/ WalkRefused(w, t) \/ LimitReached(w, t) \/ AskApproval(w, t)
            \/ StepBegin(w, t) \/ NoGraph(w, t) \/ StepFails(w, t) \/ Handle(w, t)
  BY <1>2, <1>3, <1>11
  DEF Walk, WalkRefused, LimitReached, AskApproval, StepBegin, NoGraph, StepFails,
      Handle, HasStep, At
<1>12. CASE PlannerFails(w, t) \/ PersistResult(w, t) \/ Pause(w, t)
            \/ HandleRefused(w, t) \/ PersistError(w, t)
  BY <1>3, <1>12 DEF PlannerFails, PersistResult, Pause, HandleRefused, PersistError
<1> QED
  BY <1>4, <1>5, <1>6, <1>7, <1>8, <1>9, <1>10, <1>11, <1>12 DEF RunStep

-----------------------------------------------------------------------------
(* LifeInv is inductive.                                                    *)

LEMMA ApprovalsTyped ==
  ASSUME TypeInv
  PROVE  \A a \in DOMAIN approvals : /\ approvals[a] \in Approval
                                     /\ approvals[a].task \in Tasks
<1>1. \A a \in DOMAIN approvals : approvals[a] \in Approval
  BY ElementOfSeq DEF TypeInv, TypeOK
<1> QED BY <1>1 DEF Approval

\* Requests and batches only read; what they read stays true.
LEMMA ReadersKept ==
  ASSUME TypeInv, LifeInv, Writes
  PROVE  /\ batch' = batch => BatchesExist'
         /\ \A c \in Clients : request'[c] = request[c] => ValidatedRequest(request[c])'
<1>1. /\ \A t \in Tasks : visited[t] \subseteq visited'[t]
      /\ \A t \in Tasks : Exists(t) => Exists(t)'
  BY WritesGrow DEF LifeInv
<1>2. batch' = batch => BatchesExist'
  BY <1>1 DEF LifeInv, BatchesExist, TypeInv, TypeOK
<1>3. ASSUME NEW t \in Tasks, NEW target, Enterable(t, target)
      PROVE  Enterable(t, target)'
  BY <1>1, <1>3 DEF Enterable
<1>4. ASSUME NEW c \in Clients, request'[c] = request[c]
      PROVE  ValidatedRequest(request[c])'
  <2>1. request[c] \in GoodRequest /\ ValidatedRequest(request[c])
    BY DEF TypeInv, LifeInv
  <2>2. request[c].pc # "idle" => request[c].task \in Tasks
    BY <2>1 DEF GoodRequest
  <2> QED BY <1>1, <1>3, <1>4, <2>1, <2>2 DEF ValidatedRequest
<1> QED BY <1>2, <1>4

LEMMA RunStepLife ==
  ASSUME TypeInv, LifeInv, NEW w \in Runners, NEW t \in Tasks, RunStep(w, t),
         UNCHANGED workerVars, UNCHANGED apiVars
  PROVE  LifeInv'
<1>1. Writes
  BY RunStepWrites
<1>2. /\ \A u \in Tasks : visited[u] \subseteq visited'[u]
      /\ \A u \in Tasks : Exists(u) => Exists(u)'
      /\ RowsVisited'
  BY <1>1, WritesGrow DEF LifeInv
<1>3. CopiesVisited'
  <2>1. ASSUME NEW v \in Runners, NEW u \in Tasks, run'[v][u].pc # "idle"
        PROVE  /\ Exists(u)'
               /\ run'[v][u].pc # "load" => run'[v][u].row.state \in visited'[u]
    <3>1. run[v][u].pc # "idle"
      BY <2>1, RunStepCopies DEF CopiesReadFromRows
    <3>2. Exists(u) /\ tasks[u].state \in visited[u]
      BY <3>1 DEF LifeInv, CopiesVisited, RowsVisited
    <3> QED BY <1>2, <2>1, <3>1, <3>2, RunStepCopies
            DEF CopiesReadFromRows, LifeInv, CopiesVisited
  <2> QED BY <2>1 DEF CopiesVisited
<1>4. ApprovalsExist'
  <2>1. NewRowsPending(t) /\ run[w][t].pc # "idle"
    BY RunStepRows, RunStepPlaces
  <2>2. Exists(t)
    BY <2>1 DEF LifeInv, CopiesVisited
  <2>3. \A a \in DOMAIN approvals : approvals[a].task \in Tasks
    BY ApprovalsTyped
  <2> SUFFICES ASSUME NEW a \in DOMAIN approvals' PROVE Exists(approvals[a].task)'
    BY DEF ApprovalsExist
  <2>4. CASE a \in DOMAIN approvals /\ approvals'[a] = approvals[a]
    <3>1. approvals[a].task \in Tasks /\ Exists(approvals[a].task)
      BY <2>3, <2>4 DEF LifeInv, ApprovalsExist
    <3> QED BY <1>2, <2>4, <3>1 DEF Exists
  <2>5. CASE approvals'[a].task = t
    BY <1>2, <2>2, <2>5 DEF Exists
  <2> QED BY <2>1, <2>4, <2>5 DEF NewRowsPending
<1>5. BatchesExist' /\ \A c \in Clients : ValidatedRequest(request[c])'
  BY <1>1, ReadersKept DEF workerVars, apiVars
<1> QED BY <1>2, <1>3, <1>4, <1>5 DEF LifeInv

LEMMA WorkerLife ==
  ASSUME TypeInv, LifeInv, UNCHANGED apiVars,
         \/ \E w \in Workers : PollSelect(w) \/ PollClaim(w) \/ Crash(w)
         \/ \E c \in Callers, t \in Tasks : Resume(c, t)
  PROVE  LifeInv' /\ Writes
<1>1. UNCHANGED storeVars
  BY DEF PollSelect, PollClaim, Crash, Resume
<1>2. Writes
  BY <1>1 DEF storeVars, KeepsStates, Writes
<1>3. RowsVisited' /\ ApprovalsExist'
  BY <1>1 DEF LifeInv, RowsVisited, ApprovalsExist, Exists, storeVars
<1>4. \A c \in Clients : ValidatedRequest(request[c])'
  BY <1>2, ReadersKept DEF apiVars
<1>5. run \in [Runners -> [Tasks -> GoodRun]] /\ batch \in [Workers -> SUBSET Tasks]
  BY DEF TypeInv, TypeOK
<1>6. SUFFICES /\ \A v \in Runners, u \in Tasks :
                    \/ run'[v][u].pc = "idle" \/ run'[v][u] = run[v][u]
                    \/ run'[v][u].pc = "load" /\ Exists(u)
               /\ \A v \in Workers : \A u \in batch'[v] : Exists(u)
  <2>1. CopiesVisited' /\ BatchesExist'
    BY <1>1, <1>6 DEF LifeInv, CopiesVisited, BatchesExist, Exists, storeVars
  <2> QED BY <1>2, <1>3, <1>4, <2>1 DEF LifeInv
<1>7. IdleRun.pc = "idle" /\ [IdleRun EXCEPT !.pc = "load"].pc = "load"
  BY DEF IdleRun
<1>8. ASSUME NEW w \in Workers, PollSelect(w)
      PROVE  /\ run' = run
             /\ \A v \in Workers : \A u \in batch'[v] : Exists(u)
  <2>1. \A u \in Oldest(InState({"CREATED"}), MaxConcurrent) : Exists(u)
    BY DEF Oldest, InState, Exists
  <2> QED BY <1>5, <1>8, <2>1 DEF PollSelect, runVars, LifeInv, BatchesExist
<1>9. ASSUME NEW w \in Workers, PollClaim(w)
      PROVE  /\ \A v \in Runners, u \in Tasks :
                  \/ run'[v][u] = run[v][u]
                  \/ run'[v][u].pc = "load" /\ Exists(u)
             /\ \A v \in Workers : \A u \in batch'[v] : Exists(u)
  <2>1. \A u \in Claimed(w) : Exists(u)
    BY DEF Claimed, Oldest, LifeInv, BatchesExist
  <2>2. \A v \in Runners, u \in Tasks :
          \/ run'[v][u] = run[v][u]
          \/ run'[v][u].pc = "load" /\ Exists(u)
    BY <1>5, <1>7, <1>9, <2>1 DEF PollClaim
  <2>3. \A v \in Workers : \A u \in batch'[v] : Exists(u)
    BY <1>5, <1>9 DEF PollClaim, LifeInv, BatchesExist
  <2> QED BY <2>2, <2>3
<1>10. ASSUME NEW w \in Workers, Crash(w)
       PROVE  /\ \A v \in Runners, u \in Tasks :
                   run'[v][u] = run[v][u] \/ run'[v][u].pc = "idle"
              /\ \A v \in Workers : \A u \in batch'[v] : Exists(u)
  <2>1. \A v \in Runners, u \in Tasks :
          run'[v][u] = run[v][u] \/ run'[v][u].pc = "idle"
    BY <1>5, <1>7, <1>10 DEF Crash
  <2>2. \A v \in Workers : \A u \in batch'[v] : Exists(u)
    BY <1>5, <1>10 DEF Crash, LifeInv, BatchesExist
  <2> QED BY <2>1, <2>2
<1>11. ASSUME NEW c \in Callers, NEW t \in Tasks, Resume(c, t)
       PROVE  /\ \A v \in Runners, u \in Tasks :
                   \/ run'[v][u] = run[v][u]
                   \/ run'[v][u].pc = "load" /\ Exists(u)
              /\ \A v \in Workers : \A u \in batch'[v] : Exists(u)
  <2>1. Exists(t)
    BY <1>11 DEF Resume, Exists
  <2>2. \A v \in Runners, u \in Tasks :
          \/ run'[v][u] = run[v][u]
          \/ run'[v][u].pc = "load" /\ Exists(u)
    BY <1>5, <1>7, <1>11, <2>1 DEF Resume, Become
  <2>3. \A v \in Workers : \A u \in batch'[v] : Exists(u)
    BY <1>11 DEF Resume, LifeInv, BatchesExist
  <2> QED BY <2>2, <2>3
<1> QED BY <1>8, <1>9, <1>10, <1>11

LEMMA ClientLife ==
  ASSUME TypeInv, LifeInv, ClientNext, UNCHANGED <<runVars, workerVars>>
  PROVE  LifeInv' /\ Writes
<1>1. tasks \in [Tasks -> TaskRow] /\ request \in [Clients -> GoodRequest]
  BY DEF TypeInv, TypeOK
<1>2. ASSUME Writes,
             DOMAIN approvals' = DOMAIN approvals,
             \A a \in DOMAIN approvals : approvals'[a].task = approvals[a].task,
             NEW c \in Clients,
             \A d \in Clients : d # c => request'[d] = request[d],
             ValidatedRequest(request[c])'
      PROVE  LifeInv' /\ Writes
  <2>1. /\ \A u \in Tasks : visited[u] \subseteq visited'[u]
        /\ \A u \in Tasks : Exists(u) => Exists(u)'
        /\ RowsVisited'
    BY <1>2, WritesGrow DEF LifeInv
  <2>2. CopiesVisited'
    BY <2>1 DEF LifeInv, CopiesVisited, runVars
  <2>3. ApprovalsExist'
    BY <1>2, <2>1, ApprovalsTyped DEF LifeInv, ApprovalsExist
  <2>4. BatchesExist' /\ \A d \in Clients : ValidatedRequest(request[d])'
    BY <1>2, ReadersKept DEF workerVars
  <2> QED BY <1>2, <2>1, <2>2, <2>3, <2>4 DEF LifeInv
<1>3. NoRequest.pc = "idle"
  BY DEF NoRequest
<1>4. ASSUME UNCHANGED storeVars
      PROVE  /\ Writes /\ DOMAIN approvals' = DOMAIN approvals
             /\ \A a \in DOMAIN approvals : approvals'[a].task = approvals[a].task
             /\ \A u \in Tasks : visited'[u] = visited[u] /\ tasks'[u] = tasks[u]
  BY <1>4 DEF storeVars, Writes, KeepsStates
<1>5. ASSUME NEW c \in Clients, NEW t \in Tasks, CancelRead(c, t)
      PROVE  LifeInv' /\ Writes
  <2> DEFINE q == [NoRequest EXCEPT !.pc = "cancelling", !.task = t]
  <2>1. q.pc = "cancelling" /\ q.task = t
    BY DEF NoRequest
  <2>2. Exists(t) /\ tasks[t].state \in visited[t] /\ UNCHANGED storeVars
    BY <1>5 DEF CancelRead, LifeInv, RowsVisited, Exists
  <2>3. request' = [request EXCEPT ![c] = q]
    BY <1>5 DEF CancelRead
  <2>4. Exists(t)' /\ Enterable(t, "CANCELLED")'
    BY <1>5, <2>2 DEF CancelRead, Exists, Enterable, storeVars
  <2>5. ValidatedRequest(request[c])'
    BY <1>1, <2>1, <2>3, <2>4 DEF ValidatedRequest
  <2> QED BY <1>1, <1>2, <1>4, <2>2, <2>3, <2>5
<1>6. ASSUME NEW c \in Clients, NEW t \in Tasks, NEW v \in Verdicts, DecideFind(c, t, v)
      PROVE  LifeInv' /\ Writes
  <2>1. PICK a \in LatestPending(t) :
          request' = [request EXCEPT ![c] = [pc |-> "found", task |-> t,
                                             approval |-> a, verdict |-> v]]
    BY <1>6 DEF DecideFind
  <2>2. Exists(t) /\ UNCHANGED storeVars
    BY <1>6 DEF DecideFind, LatestPending, Pending, LifeInv, ApprovalsExist
  <2>3. Exists(t)'
    BY <2>2 DEF Exists, storeVars
  <2>4. ValidatedRequest(request[c])'
    BY <1>1, <2>1, <2>3 DEF ValidatedRequest
  <2> QED BY <1>1, <1>2, <1>4, <2>1, <2>2, <2>4
<1>7. ASSUME NEW c \in Clients, DecideLock(c)
      PROVE  LifeInv' /\ Writes
  <2> DEFINE q == [request[c] EXCEPT !.pc = "locked"]
             t == request[c].task
  <2>1. /\ request[c].pc = "found" /\ t \in Tasks
        /\ q.pc = "locked" /\ q.task = t /\ q.verdict = request[c].verdict
    BY <1>1, <1>7 DEF DecideLock, GoodRequest, Request
  <2>2. Exists(t) /\ UNCHANGED storeVars
    BY <1>7, <2>1 DEF DecideLock, LifeInv, ValidatedRequest
  <2>3. Exists(t)' /\ Enterable(t, DecisionTarget(q.verdict))'
    BY <1>7, <2>1, <2>2
    DEF DecideLock, DecisionAllowed, LifeInv, RowsVisited, Enterable, Exists, storeVars,
        DecisionTarget
  <2>4. request' = [request EXCEPT ![c] = q]
    BY <1>7 DEF DecideLock
  <2>5. ValidatedRequest(request[c])'
    BY <1>1, <2>1, <2>3, <2>4 DEF ValidatedRequest, DecisionTarget
  <2> QED BY <1>1, <1>2, <1>4, <2>2, <2>4, <2>5
<1>8. ASSUME NEW c \in Clients, request' = [request EXCEPT ![c] = NoRequest]
      PROVE  /\ \A d \in Clients : d # c => request'[d] = request[d]
             /\ ValidatedRequest(request[c])'
  BY <1>1, <1>3, <1>8 DEF ValidatedRequest
<1>9. ASSUME NEW c \in Clients, DecideRefused(c)
      PROVE  LifeInv' /\ Writes
  BY <1>2, <1>4, <1>8, <1>9 DEF DecideRefused
<1>10. ASSUME NEW c \in Clients, CancelCommit(c)
       PROVE  LifeInv' /\ Writes
  <2>1. request[c].task \in Tasks /\ Enterable(request[c].task, "CANCELLED")
    BY <1>1, <1>10 DEF CancelCommit, GoodRequest, LifeInv, ValidatedRequest
  <2>2. Writes
    BY <1>10, <2>1 DEF CancelCommit, Writes, Enters, TaskState
  <2> QED BY <1>2, <1>8, <1>10, <2>2 DEF CancelCommit
<1>11. ASSUME NEW c \in Clients, DecideCommit(c)
       PROVE  LifeInv' /\ Writes
  <2> DEFINE q == request[c]
  <2>1. q.task \in Tasks /\ Enterable(q.task, DecisionTarget(q.verdict))
    BY <1>1, <1>11 DEF DecideCommit, GoodRequest, LifeInv, ValidatedRequest
  <2>2. DecisionTarget(q.verdict) \in TaskState
    BY DEF DecisionTarget, TaskState
  <2>3. Writes
    BY <1>11, <2>1, <2>2 DEF DecideCommit, Writes, Enters
  <2>4. /\ approvals' = [approvals EXCEPT ![q.approval].status = q.verdict]
        /\ approvals \in Seq(Approval)
    BY <1>11 DEF DecideCommit, TypeInv, TypeOK
  <2>5. /\ DOMAIN approvals' = DOMAIN approvals
        /\ \A a \in DOMAIN approvals : approvals'[a].task = approvals[a].task
    BY <2>4, ApprovalsTyped DEF Approval
  <2> QED BY <1>2, <1>8, <1>11, <2>3, <2>5 DEF DecideCommit
<1> QED BY <1>5, <1>6, <1>7, <1>9, <1>10, <1>11 DEF ClientNext, Clients

LEMMA CreateLife ==
  ASSUME TypeInv, LifeInv, NEW t \in Tasks, CreateTask(t),
         UNCHANGED <<runVars, workerVars, apiVars>>
  PROVE  LifeInv' /\ Writes
<1>1. Writes
  BY DEF Writes, Creates
<1>2. /\ \A u \in Tasks : visited[u] \subseteq visited'[u]
      /\ \A u \in Tasks : Exists(u) => Exists(u)'
      /\ RowsVisited'
  BY <1>1, WritesGrow DEF LifeInv
<1>3. CopiesVisited'
  BY <1>2 DEF LifeInv, CopiesVisited, runVars
<1>4. ApprovalsExist'
  BY <1>2, ApprovalsTyped DEF CreateTask, LifeInv, ApprovalsExist
<1>5. BatchesExist' /\ \A c \in Clients : ValidatedRequest(request[c])'
  BY <1>1, ReadersKept DEF workerVars, apiVars
<1> QED BY <1>1, <1>2, <1>3, <1>4, <1>5 DEF LifeInv

LEMMA InitLifeInv == Init => LifeInv
BY DEF Init, StoreInit, RunInit, WorkerInit, ApiInit, NoRow, IdleRun, NoRequest, LifeInv,
       RowsVisited, CopiesVisited, BatchesExist, ApprovalsExist, ValidatedRequest, Exists

LEMMA NextLifeInv ==
  ASSUME TypeInv, LifeInv, [Next]_vars
  PROVE  LifeInv' /\ Writes
<1>1. CASE UNCHANGED vars
  BY <1>1 DEF vars, storeVars, runVars, workerVars, apiVars, LifeInv, RowsVisited,
              CopiesVisited, BatchesExist, ApprovalsExist, ValidatedRequest, Exists,
              Enterable, Writes, KeepsStates
<1>2. CASE WorkerNext /\ UNCHANGED apiVars
  <2>1. CASE \E w \in Runners, t \in Tasks : RunStep(w, t) /\ UNCHANGED workerVars
    BY <1>2, <2>1, RunStepLife, RunStepWrites
  <2> QED BY <1>2, <2>1, WorkerLife DEF WorkerNext
<1>3. CASE ClientNext /\ UNCHANGED <<runVars, workerVars>>
  BY <1>3, ClientLife
<1>4. CASE (\E t \in Tasks : CreateTask(t)) /\ UNCHANGED <<runVars, workerVars, apiVars>>
  BY <1>4, CreateLife
<1> QED BY <1>1, <1>2, <1>3, <1>4 DEF Next

\* The task subsystem implements the abstract life cycle: whatever stale copies
\* workers, callers and clients validate against, a row enters a state only by an
\* allowed transition from a state it has been in.
THEOREM ImplementsLifecycle == Spec => LifecycleSpec
<1>1. Init => Lifecycle!Init
  BY DEF Init, StoreInit, NoRow, Lifecycle!Init
<1>2. TypeInv /\ LifeInv /\ [Next]_vars
        => LifeInv' /\ [Lifecycle!Next]_<<[t \in Tasks |-> tasks[t].state], visited>>
  BY NextLifeInv, WritesRefine
<1> QED
  BY <1>1, <1>2, InitLifeInv, TypeInvInvariant, PTL DEF Spec, LifecycleSpec, Lifecycle!Spec

-----------------------------------------------------------------------------
(***************************************************************************)
(* COMPLETED means done.  A run that has begun to follow a plan holds the   *)
(* plan that is stored, since a stored plan is never replaced while no two  *)
(* workers run one task; it has handed every step up to the one in hand to  *)
(* its subgraph, and it walks to VERIFYING and COMPLETED only after the     *)
(* last.  Nobody puts a task into EXECUTING, asks for an approval of it or  *)
(* resumes it before its plan is stored.                                    *)
(***************************************************************************)
Planned(t) == tasks[t].plan # NoPlan

Done(t, step) == [task |-> t, step |-> step] \in performed

PlannedFirst ==
  /\ \A t \in InState({"EXECUTING", "COMPLETED"}) : Planned(t)
  /\ \A a \in DOMAIN approvals : Planned(approvals[a].task)
  /\ \A c \in Callers, t \in Tasks : ~At(c, t, "idle") => Planned(t)
  /\ \A c \in Clients : request[c].pc \in {"found", "locked"} => Planned(request[c].task)

\* Before state.plan is set; HoldsPlan says when it has been.
PlanAhead(rec) ==
  \/ rec.pc \in {"load", "plan"}
  \/ Walking(rec) /\ rec.goal = "PLANNING"

\* The number of steps handed to a subgraph.
Begun(rec) == IF rec.pc = "invoke" THEN rec.done + 1 ELSE rec.done

CopyCurrent(w, t) ==
  run[w][t].pc \notin {"idle", "load", "planned"} => run[w][t].row.plan = tasks[t].plan

StepsDone(w, t) ==
  HoldsPlan(run[w][t]) =>
    /\ run[w][t].plan = tasks[t].plan
    /\ \A i \in 1..Begun(run[w][t]) :
         i \in DOMAIN run[w][t].plan /\ Done(t, run[w][t].plan[i])

AllDone(w, t) ==
  Walking(run[w][t]) /\ run[w][t].goal \in {"VERIFYING", "COMPLETED"} =>
    \A i \in DOMAIN run[w][t].plan : Done(t, run[w][t].plan[i])

FollowsPlan(w, t) ==
  /\ CopyCurrent(w, t)
  /\ PlanAhead(run[w][t]) => run[w][t].done = 0
  /\ StepsDone(w, t)
  /\ AllDone(w, t)

PlanInv ==
  /\ PlannedFirst
  /\ \A w \in Runners, t \in Tasks : FollowsPlan(w, t)
  /\ PlanPerformed

-----------------------------------------------------------------------------
(* PlanInv is inductive as long as claims are exclusive.                    *)

\* The end of the happy path.
LEMMA FollowsLate ==
  ASSUME NEW a, NEW b, Follows(a, b)
  PROVE  /\ a # "COMPLETED"
         /\ a = "VERIFYING" => b = "COMPLETED"
         /\ a = "EXECUTING" => b = "VERIFYING"
<1>1. /\ HappyPathOrder[1] = "CREATED" /\ HappyPathOrder[2] = "VALIDATING"
      /\ HappyPathOrder[3] = "PLANNING" /\ HappyPathOrder[4] = "RESEARCHING"
      /\ HappyPathOrder[5] = "DRAFTING" /\ HappyPathOrder[6] = "VALIDATING_RESULT"
      /\ HappyPathOrder[7] = "EXECUTING" /\ HappyPathOrder[8] = "VERIFYING"
      /\ HappyPathOrder[9] = "COMPLETED"
  BY DEF HappyPathOrder
<1>2. PICK i \in 1..8 : HappyPathOrder[i] = a /\ HappyPathOrder[i + 1] = b
  BY DEF Follows
<1> DEFINE j == i + 1
<1>3. HappyPathOrder[j] = b
  BY <1>2
<1>4. \/ (i = 1 /\ j = 2) \/ (i = 2 /\ j = 3) \/ (i = 3 /\ j = 4) \/ (i = 4 /\ j = 5)
      \/ (i = 5 /\ j = 6) \/ (i = 6 /\ j = 7) \/ (i = 7 /\ j = 8) \/ (i = 8 /\ j = 9)
  BY <1>2
<1> HIDE DEF j
<1> QED BY <1>1, <1>2, <1>3, <1>4

\* EXECUTING lies on the way to the goals after planning, COMPLETED on the way
\* to itself alone.
LEMMA HeadOnTheWay ==
  ASSUME NEW path \in Seq(TaskState), NEW goal, path # <<>>, Route(path, goal)
  PROVE  /\ Head(path) = "COMPLETED" => goal = "COMPLETED"
         /\ Head(path) = "EXECUTING" => goal \in {"EXECUTING", "VERIFYING", "COMPLETED"}
<1> DEFINE n == Len(path)
<1>1. /\ n \in Nat /\ n >= 1
      /\ Head(path) = path[1] /\ path[n] = goal
      /\ \A j \in 1..(n - 1) : Follows(path[j], path[j + 1])
  BY HeadTailProperties, EmptySeq, LenProperties DEF Route
<1> HIDE DEF n
<1>2. n \in Nat /\ (n = 1 \/ n = 2 \/ n >= 3)
  BY <1>1
<1>3. CASE n = 1
  BY <1>1, <1>3
<1>4. CASE n = 2
  <2>1. Follows(path[1], path[2])
    BY <1>1, <1>4
  <2> QED BY <1>1, <1>4, <2>1, FollowsLate
<1>5. CASE n >= 3
  <2>1. Follows(path[1], path[2]) /\ Follows(path[2], path[3])
    <3>1. 1 \in 1..(n - 1) /\ 2 \in 1..(n - 1) /\ 1 + 1 = 2 /\ 2 + 1 = 3
      BY <1>2, <1>5
    <3>2. Follows(path[1], path[1 + 1]) /\ Follows(path[2], path[2 + 1])
      BY <1>1, <3>1
    <3> QED BY <3>1, <3>2
  <2>2. path[3] = "COMPLETED" => n = 3
    <3> SUFFICES ASSUME path[3] = "COMPLETED", n # 3 PROVE FALSE
      OBVIOUS
    <3>1. 3 \in 1..(n - 1)
      BY <1>2, <1>5
    <3>2. Follows(path[3], path[3 + 1])
      BY <1>1, <3>1
    <3> QED BY <3>2, FollowsLate
  <2>3. /\ path[1] # "COMPLETED"
        /\ path[1] = "EXECUTING" => path[2] = "VERIFYING"
        /\ path[2] = "VERIFYING" => path[3] = "COMPLETED"
    <3>1. path[1] # "COMPLETED" /\ (path[1] = "EXECUTING" => path[2] = "VERIFYING")
      BY <2>1, FollowsLate, Zenon
    <3>2. path[2] = "VERIFYING" => path[3] = "COMPLETED"
      BY <2>1, FollowsLate, Zenon
    <3> QED BY <3>1, <3>2
  <2> QED BY <1>1, <2>2, <2>3
<1> QED BY <1>2, <1>3, <1>4, <1>5

\* What a run performs stays performed.
LEMMA RunStepKeepsDone ==
  ASSUME NEW w \in Runners, NEW t \in Tasks, RunStep(w, t)
  PROVE  performed \subseteq performed'
BY RunStepLeaves DEF StepBegin

\* A run stores a plan where there is none, and writes back the one it has read.
LEMMA RunStepPlan ==
  ASSUME TypeInv, NEW w \in Runners, NEW t \in Tasks, CopyCurrent(w, t), RunStep(w, t),
         NEW u \in Tasks
  PROVE  \/ tasks'[u].plan = tasks[u].plan
         \/ /\ u = t /\ ~Planned(t) /\ tasks'[t].state = tasks[t].state
            /\ \E p \in Plans : PlanMade(w, t, p) /\ tasks'[t].plan = p
<1>0. tasks \in [Tasks -> TaskRow]
  BY DEF TypeInv, TypeOK
<1>1. ASSUME NEW s, SetState(t, s) PROVE tasks'[u].plan = tasks[u].plan
  <2>1. CASE u = t
    BY <1>0, <1>1, <2>1 DEF SetState, TaskRow
  <2>2. CASE u # t
    BY <1>0, <1>1, <2>2 DEF SetState
  <2> QED BY <2>1, <2>2
<1>2. ASSUME NEW p, NEW r, SaveResult(t, p, r)
      PROVE  /\ u # t => tasks'[u] = tasks[u]
             /\ tasks'[t].plan = p /\ tasks'[t].state = tasks[t].state
  BY <1>0, <1>2 DEF SaveResult, TaskRow
<1>3. CASE UNCHANGED tasks
  BY <1>3
<1>4. CASE Walk(w, t) \/ AskApproval(w, t) \/ Handle(w, t) \/ Pause(w, t)
  BY <1>1, <1>4 DEF Walk, AskApproval, Handle, Pause
<1>5. CASE PersistResult(w, t)
  <2>1. run[w][t].row.plan = tasks[t].plan
    BY <1>5 DEF PersistResult, At, CopyCurrent
  <2>2. SaveResult(t, run[w][t].row.plan, TRUE)
    BY <1>5 DEF PersistResult
  <2> QED BY <1>2, <2>1, <2>2
<1>6. ASSUME NEW p \in Plans, PlanMade(w, t, p)
      PROVE  \/ tasks'[u].plan = tasks[u].plan
             \/ /\ u = t /\ ~Planned(t) /\ tasks'[t].state = tasks[t].state
                /\ \E q \in Plans : PlanMade(w, t, q) /\ tasks'[t].plan = q
  <2>1. ~Planned(t) /\ SaveResult(t, p, run[w][t].row.report)
    BY <1>6 DEF PlanMade, At, CopyCurrent, Planned
  <2> QED BY <1>2, <1>6, <2>1
<1>7. CASE PersistError(w, t)
  BY <1>0, <1>7 DEF PersistError, TaskRow
<1> QED
  BY <1>3, <1>4, <1>5, <1>6, <1>7
  DEF RunStep, Load, Refresh, WalkRefused, Arrive, PlanCached, PlannerFails, RefreshPlanned,
      Snapshot, LimitReached, AskRefused, StepBegin, NoGraph, StepSucceeds, StepFails, PlanDone,
      RefreshAsked, HandleRefused, storeVars

LEMMA RunStepCopyCurrent ==
  ASSUME TypeInv, NEW w \in Runners, NEW t \in Tasks, CopyCurrent(w, t), RunStep(w, t)
  PROVE  CopyCurrent(w, t)'
<1> SUFFICES ASSUME run'[w][t].pc \notin {"idle", "load", "planned"}
             PROVE  run'[w][t].row.plan = tasks'[t].plan
  BY DEF CopyCurrent
<1>0. run \in [Runners -> [Tasks -> GoodRun]] /\ run[w][t] \in Run
  BY DEF TypeInv, TypeOK
<1>1. tasks'[t].plan = tasks[t].plan
  <2>1. ASSUME NEW p \in Plans, PlanMade(w, t, p) PROVE FALSE
    <3>1. run'[w][t] = [run[w][t] EXCEPT !.plan = p, !.pc = "planned"]
      BY <1>0, <2>1 DEF PlanMade, Become
    <3> QED BY <1>0, <3>1 DEF Run
  <2> QED BY <2>1, RunStepPlan
<1>2. CASE run[w][t].pc = "planned"
  <2>1. RefreshPlanned(w, t)
    BY <1>2, RunStepPlaces
  <2>2. run'[w][t] = [run[w][t] EXCEPT !.row = tasks[t], !.pc = "snapshot"]
    BY <1>0, <2>1 DEF RefreshPlanned, Become
  <2> QED BY <1>0, <1>1, <2>2 DEF Run
<1>3. CASE run[w][t].pc # "planned"
  BY <1>1, <1>3, RunStepCopies DEF CopiesReadFromRows, CopyCurrent
<1> QED BY <1>2, <1>3

\* A run without a plan in use has nothing to show.
LEMMA StopFollows ==
  ASSUME NEW w \in Runners, NEW t \in Tasks, CopyCurrent(w, t)', ~run'[w][t].asking,
         run'[w][t].pc \in {"idle", "asked", "pause", "persist", "fail", "timeout", "report"}
  PROVE  FollowsPlan(w, t)'
BY DEF FollowsPlan, PlanAhead, HoldsPlan, Walking, StepsDone, AllDone

\* A run that keeps its plan and its place in it, and does not claim more.
LEMMA GoesOnFollows ==
  ASSUME NEW w \in Runners, NEW t \in Tasks, FollowsPlan(w, t), CopyCurrent(w, t)',
         tasks'[t].plan = tasks[t].plan, performed \subseteq performed',
         run'[w][t].plan = run[w][t].plan, run'[w][t].done = run[w][t].done,
         PlanAhead(run'[w][t]) => PlanAhead(run[w][t]),
         HoldsPlan(run'[w][t]) =>
           HoldsPlan(run[w][t]) /\ Begun(run'[w][t]) = Begun(run[w][t]),
         Walking(run'[w][t]) /\ run'[w][t].goal \in {"VERIFYING", "COMPLETED"} =>
           Walking(run[w][t]) /\ run[w][t].goal \in {"VERIFYING", "COMPLETED"}
  PROVE  FollowsPlan(w, t)'
<1>1. (PlanAhead(run[w][t]) => run[w][t].done = 0)'
  BY DEF FollowsPlan
<1>2. StepsDone(w, t)'
  BY DEF FollowsPlan, StepsDone, Done
<1>3. AllDone(w, t)'
  BY DEF FollowsPlan, AllDone, Done
<1> QED BY <1>1, <1>2, <1>3 DEF FollowsPlan

LEMMA WalkToFields ==
  ASSUME NEW rec \in Run, NEW g
  PROVE  /\ WalkTo(rec, g).pc = "walk" /\ WalkTo(rec, g).goal = g
         /\ WalkTo(rec, g).plan = rec.plan /\ WalkTo(rec, g).done = rec.done
         /\ WalkTo(rec, g).asking = rec.asking
BY DEF WalkTo, Run

LEMMA RunStepFollows ==
  ASSUME TypeInv, NEW w \in Runners, NEW t \in Tasks, FollowsPlan(w, t), RunStep(w, t)
  PROVE  FollowsPlan(w, t)'
<1> DEFINE rec == run[w][t]
           new == run'[w][t]
           kept == new.plan = rec.plan /\ new.done = rec.done /\ new.asking = rec.asking
<1>0. /\ run \in [Runners -> [Tasks -> GoodRun]] /\ rec \in GoodRun /\ rec \in Run
      /\ tasks[t] \in TaskRow /\ CopyCurrent(w, t)
  BY DEF TypeInv, TypeOK, FollowsPlan
<1>1. CopyCurrent(w, t)'
  BY <1>0, RunStepCopyCurrent
<1>2. performed \subseteq performed'
  BY RunStepKeepsDone
<1>3. \A x : Become(w, t, x) => new = x
  BY <1>0 DEF Become
<1>4. ASSUME NEW pc, Goto(w, t, pc)
      PROVE  new.pc = pc /\ new.goal = rec.goal /\ kept
  BY <1>0, <1>4 DEF Goto, Run
<1>5. IdleRun.pc = "idle" /\ ~IdleRun.asking
  BY DEF IdleRun
<1>6. rec.pc \notin {"fail", "report"} => ~rec.asking
  BY <1>0 DEF GoodRun
<1>7. ASSUME ~\E p \in Plans : PlanMade(w, t, p)
      PROVE  tasks'[t].plan = tasks[t].plan
  BY <1>0, <1>7, RunStepPlan
<1>8. CASE PlannerFails(w, t) \/ PersistResult(w, t) \/ Pause(w, t) \/ HandleRefused(w, t)
           \/ PersistError(w, t)
  BY <1>1, <1>3, <1>5, <1>8, StopFollows
  DEF PlannerFails, PersistResult, Pause, HandleRefused, PersistError
<1>9. CASE \/ WalkRefused(w, t) \/ LimitReached(w, t) \/ AskApproval(w, t) \/ NoGraph(w, t)
           \/ StepFails(w, t)
  <2>1. new.pc \in {"idle", "asked", "fail", "timeout"} /\ ~new.asking
    BY <1>0, <1>3, <1>4, <1>5, <1>9
    DEF WalkRefused, LimitReached, AskApproval, NoGraph, StepFails, HasStep, At, GoodRun
  <2> QED BY <1>1, <2>1, StopFollows
<1>10. CASE RefreshAsked(w, t)
  <2>1. new.pc = "pause" /\ ~new.asking
    BY <1>0, <1>3, <1>10 DEF RefreshAsked, At, GoodRun, Run
  <2> QED BY <1>1, <2>1, StopFollows
<1>11. CASE AskRefused(w, t)
  <2>1. rec.pc = "step" /\ new.pc = "fail" /\ new.plan = rec.plan /\ new.done = rec.done
        /\ tasks'[t].plan = tasks[t].plan
    <3> DEFINE x == [rec EXCEPT !.asking = TRUE, !.pc = "fail"]
    <3>1. rec.pc = "step" /\ new = x /\ tasks' = tasks
      BY <1>3, <1>11 DEF AskRefused, HasStep, At, storeVars
    <3>2. x.pc = "fail" /\ x.plan = rec.plan /\ x.done = rec.done
      BY <1>0, AskLeft
    <3> HIDE DEF x
    <3> QED BY <3>1, <3>2
  <2> QED BY <1>1, <1>2, <2>1, GoesOnFollows DEF Walking, PlanAhead, HoldsPlan, Begun
<1>12. CASE Handle(w, t)
  <2>1. rec.pc \in {"fail", "timeout"} /\ new.pc = "report" /\ kept
    <3>1. (rec.pc = "fail" \/ rec.pc = "timeout") /\ Goto(w, t, "report")
      BY <1>12 DEF Handle, At
    <3>2. new.pc = "report" /\ kept
      BY <1>4, <3>1
    <3> QED BY <3>1, <3>2
  <2>2. tasks'[t].plan = tasks[t].plan
    <3>1. ~\E p \in Plans : PlanMade(w, t, p)
      BY <2>1, Zenon DEF PlanMade, At
    <3> QED BY <1>7, <3>1
  <2> QED BY <1>1, <1>2, <2>1, <2>2, GoesOnFollows DEF Walking, PlanAhead, HoldsPlan, Begun
<1>13. CASE Load(w, t)
  <2> DEFINE x == [rec EXCEPT !.row = tasks[t]]
  <2>1. rec.pc = "load" /\ (new = WalkTo(x, "PLANNING") \/ new = [x EXCEPT !.pc = "plan"])
    BY <1>3, <1>13 DEF Load, At
  <2>2. x \in Run /\ x.plan = rec.plan /\ x.done = rec.done /\ x.asking = rec.asking
    BY <1>0 DEF Run
  <2>3. /\ kept /\ PlanAhead(new) /\ ~HoldsPlan(new)
        /\ new.pc \in {"walk", "plan"} /\ (new.pc = "walk" => new.goal = "PLANNING")
    <3>1. CASE new = WalkTo(x, "PLANNING")
      <4> HIDE DEF x
      <4>1. new.pc = "walk" /\ new.goal = "PLANNING" /\ kept
        BY <2>2, <3>1, WalkToFields
      <4> QED BY <1>6, <2>1, <4>1 DEF PlanAhead, HoldsPlan, Walking
    <3>2. CASE new = [x EXCEPT !.pc = "plan"]
      BY <1>6, <2>1, <2>2, <3>2 DEF PlanAhead, HoldsPlan, Walking, Run
    <3> QED BY <2>1, <3>1, <3>2
  <2>4. PlanAhead(rec)
    BY <2>1 DEF PlanAhead
  <2>5. tasks'[t].plan = tasks[t].plan
    BY <1>13 DEF Load, storeVars
  <2> HIDE DEF x
  <2> QED BY <1>1, <1>2, <2>3, <2>4, <2>5, GoesOnFollows DEF Walking
<1>14. CASE Walk(w, t)
  <2>1. rec.pc = "walk" /\ new.pc = "refresh" /\ new.goal = rec.goal /\ kept
    BY <1>4, <1>14 DEF Walk, At
  <2>2. tasks'[t].plan = tasks[t].plan
    BY <1>7, <1>14 DEF PlanMade, Walk, At
  <2> QED BY <1>1, <1>2, <2>1, <2>2, GoesOnFollows DEF Walking, PlanAhead, HoldsPlan, Begun
<1>15. CASE Refresh(w, t)
  <2>1. rec.pc = "refresh" /\ new.pc = "walk" /\ new.goal = rec.goal /\ kept
    <3> DEFINE x == [rec EXCEPT !.row = tasks[t], !.path = Tail(@), !.pc = "walk"]
    <3>1. rec.pc = "refresh" /\ new = x
      BY <1>3, <1>15 DEF Refresh, At
    <3>2. /\ x.pc = "walk" /\ x.goal = rec.goal /\ x.plan = rec.plan /\ x.done = rec.done
          /\ x.asking = rec.asking
      BY <1>0, RowReread
    <3> HIDE DEF x
    <3> QED BY <3>1, <3>2
  <2>2. tasks'[t].plan = tasks[t].plan
    BY <1>15 DEF Refresh, storeVars
  <2> QED BY <1>1, <1>2, <2>1, <2>2, GoesOnFollows DEF Walking, PlanAhead, HoldsPlan, Begun
<1>16. CASE Arrive(w, t)
  <2>1. rec.pc = "walk" /\ tasks'[t].plan = tasks[t].plan
    BY <1>16 DEF Arrive, At, storeVars
  <2>2. CASE rec.goal = "PLANNING" /\ Goto(w, t, "plan")
    BY <1>1, <1>2, <1>4, <2>1, <2>2, GoesOnFollows DEF Walking, PlanAhead, HoldsPlan, Begun
  <2>3. CASE rec.goal = "EXECUTING" /\ Goto(w, t, "step")
    BY <1>1, <1>2, <1>4, <2>1, <2>3, GoesOnFollows DEF Walking, PlanAhead, HoldsPlan, Begun
  <2>4. CASE rec.goal = "VERIFYING" /\ Become(w, t, WalkTo(rec, "COMPLETED"))
    <3>1. new.pc = "walk" /\ new.goal = "COMPLETED" /\ kept
      BY <1>0, <1>3, <2>4, WalkToFields
    <3> QED BY <1>1, <1>2, <2>1, <2>4, <3>1, GoesOnFollows DEF Walking, PlanAhead, HoldsPlan, Begun
  <2>5. CASE rec.goal = "COMPLETED" /\ Goto(w, t, "persist")
    BY <1>1, <1>4, <1>6, <2>1, <2>5, StopFollows
  <2> QED BY <1>16, <2>2, <2>3, <2>4, <2>5 DEF Arrive
<1>17. CASE RefreshPlanned(w, t)
  <2>1. rec.pc = "planned" /\ new.pc = "snapshot" /\ kept
    <3> DEFINE x == [rec EXCEPT !.row = tasks[t], !.pc = "snapshot"]
    <3>1. rec.pc = "planned" /\ new = x
      BY <1>3, <1>17 DEF RefreshPlanned, At
    <3>2. x.pc = "snapshot" /\ x.plan = rec.plan /\ x.done = rec.done /\ x.asking = rec.asking
      BY <1>0, RowRead
    <3> HIDE DEF x
    <3> QED BY <3>1, <3>2
  <2>2. tasks'[t].plan = tasks[t].plan
    BY <1>17 DEF RefreshPlanned, storeVars
  <2> QED BY <1>1, <1>2, <2>1, <2>2, GoesOnFollows DEF Walking, PlanAhead, HoldsPlan, Begun
<1>18. CASE Snapshot(w, t)
  <2> DEFINE x == [rec EXCEPT !.granted = ApprovedActions(t)]
  <2>1. rec.pc = "snapshot" /\ new = WalkTo(x, "EXECUTING") /\ tasks'[t].plan = tasks[t].plan
    BY <1>3, <1>18 DEF Snapshot, At, storeVars
  <2>2. new.pc = "walk" /\ new.goal = "EXECUTING" /\ kept
    BY <1>0, <2>1 DEF WalkTo, Run
  <2> HIDE DEF x
  <2> QED BY <1>1, <1>2, <2>1, <2>2, GoesOnFollows DEF Walking, PlanAhead, HoldsPlan, Begun
<1>19. CASE StepSucceeds(w, t)
  <2>1. rec.pc = "invoke" /\ new.pc = "step" /\ new.plan = rec.plan /\ new.done = rec.done + 1
        /\ new.asking = rec.asking
        /\ tasks'[t].plan = tasks[t].plan
    <3> DEFINE x == [rec EXCEPT !.done = @ + 1, !.pc = "step"]
    <3>1. rec.pc = "invoke" /\ new = x /\ tasks' = tasks
      BY <1>3, <1>19 DEF StepSucceeds, At, storeVars
    <3>2. /\ x.pc = "step" /\ x.plan = rec.plan /\ x.done = rec.done + 1
          /\ x.asking = rec.asking
      BY <1>0, StepCounted
    <3> HIDE DEF x
    <3> QED BY <3>1, <3>2
  <2>2. Begun(new) = Begun(rec) /\ HoldsPlan(rec)
    BY <2>1 DEF Begun, HoldsPlan
  <2>3. StepsDone(w, t)'
    BY <1>2, <2>1, <2>2 DEF FollowsPlan, StepsDone, Done
  <2> QED BY <1>1, <2>1, <2>3 DEF FollowsPlan, PlanAhead, AllDone, Walking
<1>20. CASE StepBegin(w, t)
  <2>1. /\ rec.pc = "step" /\ new.pc = "invoke" /\ kept
        /\ tasks'[t].plan = tasks[t].plan /\ rec.done < Len(rec.plan)
        /\ performed' = performed \cup {[task |-> t, step |-> CurrentStep(w, t)]}
    BY <1>4, <1>20 DEF StepBegin, HasStep, At, storeVars
  <2>2. rec.plan \in Seq(PlanStep) /\ rec.done \in Nat
    BY <1>0, <2>1, PlansAssumption DEF GoodRun, HoldsPlan, Run
  <2>3. HoldsPlan(rec) /\ Begun(rec) = rec.done /\ Begun(new) = rec.done + 1
    BY <2>1 DEF Begun, HoldsPlan
  <2>4. ASSUME NEW i \in 1..(rec.done + 1)
        PROVE  i \in DOMAIN rec.plan /\ [task |-> t, step |-> rec.plan[i]] \in performed'
    <3>1. CASE i \in 1..rec.done
      BY <1>2, <2>3, <3>1 DEF FollowsPlan, StepsDone, Done
    <3>2. CASE i = rec.done + 1
      BY <2>1, <2>2, <3>2 DEF CurrentStep
    <3> QED BY <2>2, <3>1, <3>2
  <2>5. StepsDone(w, t)'
    BY <2>1, <2>3, <2>4 DEF FollowsPlan, StepsDone, Done
  <2> QED BY <1>1, <2>1, <2>5 DEF FollowsPlan, PlanAhead, AllDone, Walking
<1>21. CASE PlanDone(w, t)
  <2>1. /\ rec.pc = "step" /\ ~(rec.done < Len(rec.plan)) /\ tasks'[t].plan = tasks[t].plan
        /\ new = WalkTo(rec, "VERIFYING")
    BY <1>3, <1>21 DEF PlanDone, HasStep, At, storeVars
  <2>2. new.pc = "walk" /\ new.goal = "VERIFYING" /\ kept
    BY <1>0, <2>1, WalkToFields
  <2>3. HoldsPlan(rec) /\ Begun(rec) = rec.done /\ Begun(new) = rec.done
    BY <2>1, <2>2 DEF Begun, HoldsPlan
  <2>4. StepsDone(w, t)'
    BY <1>2, <2>1, <2>2, <2>3 DEF FollowsPlan, StepsDone, Done
  <2>5. rec.plan \in Seq(PlanStep) /\ rec.done \in Nat
    BY <1>0, <2>1, PlansAssumption DEF GoodRun, HoldsPlan, Run
  <2>6. \A i \in DOMAIN rec.plan : i \in 1..rec.done
    BY <2>1, <2>5
  <2>7. AllDone(w, t)'
    BY <1>2, <2>2, <2>3, <2>6 DEF FollowsPlan, StepsDone, AllDone, Done
  <2> QED BY <1>1, <2>2, <2>4, <2>7 DEF FollowsPlan, PlanAhead, Walking
<1>22. CASE PlanCached(w, t)
  <2>1. /\ rec.pc = "plan" /\ new.pc = "snapshot" /\ new.plan = rec.row.plan
        /\ new.done = rec.done /\ tasks'[t].plan = tasks[t].plan
    BY <1>0, <1>3, <1>22 DEF PlanCached, At, Run, storeVars
  <2>2. rec.done = 0 /\ rec.row.plan = tasks[t].plan
    BY <2>1 DEF FollowsPlan, PlanAhead, CopyCurrent
  <2>3. Begun(new) = 0
    BY <2>1, <2>2 DEF Begun
  <2> QED BY <1>1, <2>1, <2>2, <2>3 DEF FollowsPlan, StepsDone, PlanAhead, AllDone, Walking
<1>23. ASSUME NEW p \in Plans, PlanMade(w, t, p)
       PROVE  FollowsPlan(w, t)'
  <2>1. /\ rec.pc = "plan" /\ new.pc = "planned" /\ new.plan = p
        /\ new.done = rec.done /\ new.asking = rec.asking
    BY <1>0, <1>3, <1>23 DEF PlanMade, At, Run
  <2>2. rec.done = 0
    BY <2>1 DEF FollowsPlan, PlanAhead
  <2>3. tasks'[t].plan = p
    BY <1>0, <1>23 DEF PlanMade, SaveResult, TypeInv, TypeOK, TaskRow
  <2>4. Begun(new) = 0
    BY <2>1, <2>2 DEF Begun
  <2> QED BY <1>1, <2>1, <2>3, <2>4 DEF FollowsPlan, StepsDone, PlanAhead, AllDone, Walking
<1> QED
  BY <1>8, <1>9, <1>10, <1>11, <1>12, <1>13, <1>14, <1>15, <1>16, <1>17, <1>18, <1>19,
     <1>20, <1>21, <1>22, <1>23
  DEF RunStep

\* A run follows the stored plan as long as both stay what they are.
LEMMA FollowsKept ==
  ASSUME NEW v \in Runners, NEW u \in Tasks, FollowsPlan(v, u), run'[v][u] = run[v][u],
         tasks'[u].plan = tasks[u].plan, performed \subseteq performed'
  PROVE  FollowsPlan(v, u)'
BY DEF FollowsPlan, CopyCurrent, StepsDone, AllDone, Done

\* A run that holds a plan holds the stored one, so there is one.
LEMMA HolderPlanned ==
  ASSUME TypeInv, NEW w \in Runners, NEW t \in Tasks, FollowsPlan(w, t), HoldsPlan(run[w][t])
  PROVE  Planned(t)
BY PlansAssumption DEF TypeInv, GoodRun, FollowsPlan, StepsDone, Planned

\* A run stores a plan only while no other run of the task is under way.
LEMMA PlansAlone ==
  ASSUME TypeInv, PlanInv, ExclusiveClaim, NEW w \in Runners, NEW t \in Tasks, NEW p \in Plans,
         PlanMade(w, t, p), ~Planned(t), NEW v \in Runners, v # w
  PROVE  run[v][t].pc = "idle"
<1>1. ~At(w, t, "idle")
  BY DEF PlanMade, At
<1>2. \A c \in Callers : At(c, t, "idle")
  BY DEF PlanInv, PlannedFirst
<1>3. w \in Workers
  BY <1>1, <1>2 DEF Runners
<1> QED BY <1>1, <1>2, <1>3 DEF Runners, ExclusiveClaim, At

LEMMA RunStepPlanInv ==
  ASSUME TypeInv, Routed, PlanInv, ExclusiveClaim, NEW w \in Runners, NEW t \in Tasks,
         RunStep(w, t), UNCHANGED apiVars
  PROVE  PlanInv'
<1> DEFINE rec == run[w][t]
<1>0. /\ run \in [Runners -> [Tasks -> GoodRun]] /\ rec \in GoodRun /\ rec \in Run
      /\ tasks \in [Tasks -> TaskRow]
      /\ FollowsPlan(w, t) /\ CopyCurrent(w, t) /\ PlannedFirst
  BY DEF TypeInv, TypeOK, PlanInv, FollowsPlan
<1>1. ASSUME NEW u \in Tasks, Planned(u)
      PROVE  tasks'[u].plan = tasks[u].plan /\ Planned(u)'
  BY <1>0, <1>1, RunStepPlan DEF Planned
<1>2. performed \subseteq performed'
  BY RunStepKeepsDone
<1>3. \A v \in Runners, u \in Tasks : <<v, u>> # <<w, t>> => run'[v][u] = run[v][u]
  BY RunStepTouches
<1>4. ASSUME NEW v \in Runners, NEW u \in Tasks
      PROVE  FollowsPlan(v, u)'
  <2>1. CASE v = w /\ u = t
    BY <1>0, <2>1, RunStepFollows
  <2>2. CASE <<v, u>> # <<w, t>> /\ tasks'[u].plan = tasks[u].plan
    BY <1>2, <1>3, <2>2, FollowsKept DEF PlanInv
  <2>3. CASE <<v, u>> # <<w, t>> /\ tasks'[u].plan # tasks[u].plan
    <3>1. u = t /\ v # w /\ run'[v][u] = run[v][u] /\ ~Planned(t)
      BY <1>0, <1>3, <2>3, RunStepPlan
    <3>2. run'[v][u].pc = "idle"
      BY <1>0, <2>3, <3>1, RunStepPlan, PlansAlone
    <3>3. ~run'[v][u].asking
      BY <1>0, <3>1, <3>2 DEF GoodRun
    <3> QED BY <3>2, <3>3, StopFollows DEF CopyCurrent
  <2> QED BY <2>1, <2>2, <2>3
<1>5. ASSUME Walk(w, t)
      PROVE  /\ Head(rec.path) \in {"EXECUTING", "COMPLETED"} => Planned(t)
             /\ Head(rec.path) = "COMPLETED" => \A i \in DOMAIN rec.plan : Done(t, rec.plan[i])
             /\ Head(rec.path) = "COMPLETED" => rec.plan = tasks[t].plan
  <2>1. /\ rec.pc = "walk" /\ rec.path # <<>> /\ rec.path \in Seq(TaskState)
        /\ Route(rec.path, rec.goal)
    BY <1>0, <1>5 DEF Walk, At, Run, Routed
  <2>2. /\ Head(rec.path) = "COMPLETED" => rec.goal = "COMPLETED"
        /\ Head(rec.path) = "EXECUTING" => rec.goal \in {"EXECUTING", "VERIFYING", "COMPLETED"}
    BY <2>1, HeadOnTheWay
  <2>3. Head(rec.path) \in {"EXECUTING", "COMPLETED"} => HoldsPlan(rec)
    BY <2>1, <2>2 DEF HoldsPlan
  <2>4. Head(rec.path) \in {"EXECUTING", "COMPLETED"} => Planned(t)
    BY <1>0, <2>3, HolderPlanned
  <2>5. Head(rec.path) = "COMPLETED" =>
          rec.plan = tasks[t].plan /\ \A i \in DOMAIN rec.plan : Done(t, rec.plan[i])
    BY <1>0, <2>1, <2>2, <2>3 DEF FollowsPlan, StepsDone, AllDone, Walking
  <2> QED BY <2>4, <2>5
<1>6. ASSUME NEW u \in Tasks, tasks'[u].state \in {"EXECUTING", "COMPLETED"}
      PROVE  /\ Planned(u)
             /\ tasks'[u].state = "COMPLETED" =>
                  \A i \in DOMAIN tasks[u].plan : Done(u, tasks[u].plan[i])
  <2>1. CASE tasks'[u].state = tasks[u].state
    BY <1>0, <1>6, <2>1 DEF PlannedFirst, PlanInv, PlanPerformed, InState, Done
  <2>2. CASE tasks'[u].state # tasks[u].state
    <3>1. u = t /\ Walk(w, t)
      BY <1>6, <2>2, RunStepState DEF StopStates
    <3>2. tasks'[u].state = Head(rec.path)
      BY <1>0, <3>1 DEF Walk, SetState, TaskRow
    <3> QED BY <1>5, <1>6, <3>1, <3>2
  <2> QED BY <2>1, <2>2
<1>7. ASSUME NEW a \in DOMAIN approvals'
      PROVE  Planned(approvals[a].task)'
  <2>1. CASE a \in DOMAIN approvals /\ approvals'[a] = approvals[a]
    <3>1. approvals[a].task \in Tasks /\ Planned(approvals[a].task)
      BY <1>0, <2>1, ApprovalsTyped DEF PlannedFirst
    <3> QED BY <1>1, <2>1, <3>1 DEF Planned
  <2>2. CASE ~(a \in DOMAIN approvals /\ approvals'[a] = approvals[a])
    <3>1. approvals'[a].task = t
      BY <2>2, RunStepRows DEF NewRowsPending
    <3>2. HoldsPlan(rec)
      <4>1. AskApproval(w, t) \/ Handle(w, t)
        BY <2>2, RunStepLeaves
      <4> QED BY <2>2, <4>1 DEF AskApproval, Handle, HasStep, At, HoldsPlan
    <3>3. Planned(t)
      BY <1>0, <3>2, HolderPlanned
    <3> QED BY <1>1, <3>1, <3>3 DEF Planned
  <2> QED BY <2>1, <2>2
<1>8. ASSUME NEW c \in Callers, NEW u \in Tasks, ~At(c, u, "idle")'
      PROVE  Planned(u)'
  <2>1. run[c][u].pc # "idle"
    BY <1>3, <1>8, RunStepTouches DEF Runners, At
  <2> QED BY <1>0, <1>1, <2>1 DEF PlannedFirst, At
<1>9. ASSUME NEW c \in Clients, (request[c].pc \in {"found", "locked"})'
      PROVE  Planned(request[c].task)'
  <2>1. request[c].task \in Tasks /\ Planned(request[c].task) /\ request'[c] = request[c]
    BY <1>0, <1>9 DEF PlannedFirst, apiVars, TypeInv, GoodRequest
  <2> QED BY <1>1, <2>1 DEF Planned
<1>10. PlannedFirst'
  BY <1>1, <1>6, <1>7, <1>8, <1>9 DEF PlannedFirst, InState
<1>11. PlanPerformed'
  <2> SUFFICES ASSUME NEW u \in Tasks, tasks'[u].state = "COMPLETED",
                      NEW i \in DOMAIN tasks'[u].plan
               PROVE  [task |-> u, step |-> tasks'[u].plan[i]] \in performed'
    BY Zenon DEF PlanPerformed, InState
  <2>1. tasks'[u].plan = tasks[u].plan
    BY <1>1, <1>6
  <2> QED BY <1>2, <1>6, <2>1 DEF Done
<1> QED BY <1>4, <1>10, <1>11 DEF PlanInv

\* Claiming, dying and resuming: a run begins or is gone, and the tables stay.
LEMMA WorkerPlanInv ==
  ASSUME TypeInv, PlanInv, UNCHANGED apiVars,
         \/ \E w \in Workers : PollSelect(w) \/ PollClaim(w) \/ Crash(w)
         \/ \E c \in Callers, t \in Tasks : Resume(c, t)
  PROVE  PlanInv'
<1>0. run \in [Runners -> [Tasks -> GoodRun]]
  BY DEF TypeInv
<1>1. UNCHANGED <<storeVars, performed>>
  BY DEF PollSelect, PollClaim, Crash, Resume, runVars
<1>2. IdleRun.pc = "idle" /\ ~IdleRun.asking
      /\ [IdleRun EXCEPT !.pc = "load"].pc = "load"
      /\ [IdleRun EXCEPT !.pc = "load"].done = 0 /\ ~[IdleRun EXCEPT !.pc = "load"].asking
  BY DEF IdleRun
<1>3. ASSUME NEW v \in Runners, NEW u \in Tasks
      PROVE  \/ run'[v][u] = run[v][u]
             \/ run'[v][u] = IdleRun
             \/ /\ run'[v][u] = [IdleRun EXCEPT !.pc = "load"]
                /\ v \in Callers => tasks[u].state = "EXECUTING"
  <2>1. ASSUME NEW w \in Workers, PollSelect(w) PROVE run'[v][u] = run[v][u]
    BY <2>1 DEF PollSelect, runVars
  <2>2. ASSUME NEW w \in Workers, PollClaim(w)
        PROVE  \/ run'[v][u] = run[v][u]
               \/ v \notin Callers /\ run'[v][u] = [IdleRun EXCEPT !.pc = "load"]
    BY <1>0, <2>2, RunnersAssumption DEF PollClaim
  <2>3. ASSUME NEW w \in Workers, Crash(w)
        PROVE  run'[v][u] = run[v][u] \/ run'[v][u] = IdleRun
    BY <1>0, <2>3 DEF Crash
  <2>4. ASSUME NEW c \in Callers, NEW t \in Tasks, Resume(c, t)
        PROVE  \/ run'[v][u] = run[v][u]
               \/ /\ run'[v][u] = [IdleRun EXCEPT !.pc = "load"]
                  /\ tasks[u].state = "EXECUTING"
    BY <1>0, <2>4 DEF Resume, Become
  <2> QED BY <2>1, <2>2, <2>3, <2>4
<1>4. ASSUME NEW v \in Runners, NEW u \in Tasks
      PROVE  FollowsPlan(v, u)'
  <2>1. CASE run'[v][u] = run[v][u]
    BY <1>1, <2>1, FollowsKept DEF PlanInv, storeVars
  <2>2. CASE run'[v][u] = IdleRun
    BY <1>2, <2>2, StopFollows DEF CopyCurrent
  <2>3. CASE run'[v][u] = [IdleRun EXCEPT !.pc = "load"]
    BY <1>2, <2>3
    DEF FollowsPlan, CopyCurrent, StepsDone, AllDone, PlanAhead, HoldsPlan, Walking
  <2> QED BY <1>3, <2>1, <2>2, <2>3
<1>5. ASSUME NEW c \in Callers, NEW u \in Tasks, ~At(c, u, "idle")'
      PROVE  Planned(u)
  <2>1. run'[c][u] = run[c][u] \/ tasks[u].state = "EXECUTING"
    BY <1>2, <1>3, <1>5 DEF At, Runners
  <2> QED BY <1>5, <2>1 DEF PlanInv, PlannedFirst, InState, At
<1>6. PlannedFirst'
  BY <1>1, <1>5 DEF PlanInv, PlannedFirst, Planned, InState, storeVars, apiVars
<1>7. PlanPerformed'
  BY <1>1 DEF PlanInv, PlanPerformed, InState, storeVars
<1> QED BY <1>4, <1>6, <1>7 DEF PlanInv

\* A commit of a task state alone keeps the plans.
LEMMA SetStateKeepsPlans ==
  ASSUME TypeInv, NEW t \in Tasks, NEW s, SetState(t, s), NEW u \in Tasks
  PROVE  /\ tasks'[u].plan = tasks[u].plan
         /\ tasks'[u].state = IF u = t THEN s ELSE tasks[u].state
<1>0. tasks \in [Tasks -> TaskRow]
  BY DEF TypeInv, TypeOK
<1>1. CASE u = t
  BY <1>0, <1>1 DEF SetState, TaskRow
<1>2. CASE u # t
  BY <1>0, <1>2 DEF SetState
<1> QED BY <1>1, <1>2

\* What a request or a new task leaves to show.
LEMMA OthersPlanInv ==
  ASSUME TypeInv, PlanInv, UNCHANGED runVars,
         \A u \in Tasks : tasks'[u].plan = tasks[u].plan,
         \A u \in Tasks : \/ tasks'[u].state = tasks[u].state
                          \/ tasks'[u].state # "COMPLETED"
                             /\ (tasks'[u].state = "EXECUTING" => Planned(u)),
         DOMAIN approvals' = DOMAIN approvals,
         \A a \in DOMAIN approvals : approvals'[a].task = approvals[a].task,
         \A c \in Clients : request'[c].pc \in {"found", "locked"} =>
           request'[c].task \in Tasks /\ Planned(request'[c].task)
  PROVE  PlanInv'
<1>1. \A u \in Tasks : Planned(u) => Planned(u)'
  BY DEF Planned
<1>2. \A a \in DOMAIN approvals' : Planned(approvals[a].task)'
  BY <1>1, ApprovalsTyped DEF PlanInv, PlannedFirst, Planned
<1>3. \A c \in Clients : (request[c].pc \in {"found", "locked"} => Planned(request[c].task))'
  BY DEF Planned
<1>4. \A c \in Callers, u \in Tasks : (~At(c, u, "idle") => Planned(u))'
  BY <1>1 DEF PlanInv, PlannedFirst, At, runVars
<1>5. \A u \in Tasks : tasks'[u].state \in {"EXECUTING", "COMPLETED"} => Planned(u)'
  BY <1>1 DEF PlanInv, PlannedFirst, InState
<1>6. PlannedFirst'
  BY <1>2, <1>3, <1>4, <1>5 DEF PlannedFirst, InState
<1>7. PlanPerformed'
  BY DEF PlanInv, PlanPerformed, InState, runVars
<1>8. \A v \in Runners, u \in Tasks : FollowsPlan(v, u)'
  BY FollowsKept DEF PlanInv, runVars
<1> QED BY <1>6, <1>7, <1>8 DEF PlanInv

LEMMA ClientPlanInv ==
  ASSUME TypeInv, PlanInv, ClientNext, UNCHANGED runVars
  PROVE  PlanInv'
<1>0. /\ request \in [Clients -> GoodRequest] /\ PlannedFirst
      /\ \A c \in Clients : NamesApproval(request[c])
  BY DEF TypeInv, PlanInv
<1>1. \A c \in Clients : request[c].pc \in {"found", "locked"} =>
        request[c].task \in Tasks /\ Planned(request[c].task)
  BY <1>0 DEF PlannedFirst, GoodRequest
<1>2. ASSUME NEW c \in Clients, NEW q, request' = [request EXCEPT ![c] = q],
             q.pc \in {"found", "locked"} => q.task \in Tasks /\ Planned(q.task)
      PROVE  \A d \in Clients : request'[d].pc \in {"found", "locked"} =>
               request'[d].task \in Tasks /\ Planned(request'[d].task)
  BY <1>0, <1>1, <1>2
<1>3. ASSUME NEW c \in Clients, request' = [request EXCEPT ![c] = NoRequest]
      PROVE  \A d \in Clients : request'[d].pc \in {"found", "locked"} =>
               request'[d].task \in Tasks /\ Planned(request'[d].task)
  BY <1>2, <1>3 DEF NoRequest
<1>4. ASSUME UNCHANGED storeVars,
             \A d \in Clients : request'[d].pc \in {"found", "locked"} =>
               request'[d].task \in Tasks /\ Planned(request'[d].task)
      PROVE  PlanInv'
  BY <1>4, OthersPlanInv DEF storeVars
<1>5. ASSUME NEW c \in Clients, NEW t \in Tasks, CancelRead(c, t)
      PROVE  PlanInv'
  <2> DEFINE q == [NoRequest EXCEPT !.pc = "cancelling", !.task = t]
  <2>1. q.pc = "cancelling"
    BY DEF NoRequest
  <2>2. request' = [request EXCEPT ![c] = q] /\ UNCHANGED storeVars
    BY <1>5 DEF CancelRead
  <2> HIDE DEF q
  <2> QED BY <1>2, <1>4, <2>1, <2>2
<1>6. ASSUME NEW c \in Clients, NEW t \in Tasks, NEW v \in Verdicts, DecideFind(c, t, v)
      PROVE  PlanInv'
  <2>1. PICK a \in LatestPending(t) :
          request' = [request EXCEPT ![c] = [pc |-> "found", task |-> t,
                                             approval |-> a, verdict |-> v]]
    BY <1>6 DEF DecideFind
  <2>2. Planned(t) /\ UNCHANGED storeVars
    BY <1>0, <1>6 DEF DecideFind, LatestPending, Pending, PlannedFirst
  <2> QED BY <1>2, <1>4, <2>1, <2>2
<1>7. ASSUME NEW c \in Clients, DecideLock(c)
      PROVE  PlanInv'
  <2> DEFINE q == [request[c] EXCEPT !.pc = "locked"]
  <2>1. request[c].pc = "found" /\ q.task = request[c].task
    BY <1>0, <1>7 DEF DecideLock, GoodRequest, Request
  <2>2. request' = [request EXCEPT ![c] = q] /\ UNCHANGED storeVars
    BY <1>7 DEF DecideLock
  <2> HIDE DEF q
  <2> QED BY <1>1, <1>2, <1>4, <2>1, <2>2
<1>8. ASSUME NEW c \in Clients, DecideRefused(c)
      PROVE  PlanInv'
  BY <1>3, <1>4, <1>8 DEF DecideRefused
<1>9. ASSUME NEW c \in Clients, CancelCommit(c)
      PROVE  PlanInv'
  <2>1. request[c].task \in Tasks
    BY <1>0, <1>9 DEF CancelCommit, GoodRequest
  <2>2. \A u \in Tasks : /\ tasks'[u].plan = tasks[u].plan
                         /\ tasks'[u].state \in {tasks[u].state, "CANCELLED"}
    BY <1>9, <2>1, SetStateKeepsPlans DEF CancelCommit
  <2> QED BY <1>3, <1>9, <2>2, OthersPlanInv DEF CancelCommit
<1>10. ASSUME NEW c \in Clients, DecideCommit(c)
       PROVE  PlanInv'
  <2> DEFINE q == request[c]
  <2>1. q.task \in Tasks /\ Planned(q.task)
    BY <1>1, <1>10 DEF DecideCommit
  <2>2. \A u \in Tasks :
          /\ tasks'[u].plan = tasks[u].plan
          /\ tasks'[u].state = IF u = q.task THEN DecisionTarget(q.verdict) ELSE tasks[u].state
    BY <1>10, <2>1, SetStateKeepsPlans DEF DecideCommit
  <2>3. DecisionTarget(q.verdict) # "COMPLETED"
    BY DEF DecisionTarget
  <2>4. /\ approvals' = [approvals EXCEPT ![q.approval].status = q.verdict]
        /\ approvals \in Seq(Approval)
    BY <1>10 DEF DecideCommit, TypeInv, TypeOK
  <2>5. /\ DOMAIN approvals' = DOMAIN approvals
        /\ \A a \in DOMAIN approvals : approvals'[a].task = approvals[a].task
    BY <2>4, ApprovalsTyped DEF Approval
  <2>6. \A d \in Clients : request'[d].pc \in {"found", "locked"} =>
          request'[d].task \in Tasks /\ Planned(request'[d].task)
    BY <1>3, <1>10 DEF DecideCommit
  <2> QED BY <2>1, <2>2, <2>3, <2>5, <2>6, OthersPlanInv
<1> QED BY <1>5, <1>6, <1>7, <1>8, <1>9, <1>10 DEF ClientNext, Clients

LEMMA CreatePlanInv ==
  ASSUME TypeInv, PlanInv, NEW t \in Tasks, CreateTask(t), UNCHANGED <<runVars, apiVars>>
  PROVE  PlanInv'
<1>1. \A u \in Tasks : /\ tasks'[u].plan = tasks[u].plan
                       /\ tasks'[u].state \in {tasks[u].state, "CREATED"}
  BY SetStateKeepsPlans DEF CreateTask
<1>2. \A c \in Clients : request[c].pc \in {"found", "locked"} =>
        request[c].task \in Tasks /\ Planned(request[c].task)
  BY DEF TypeInv, GoodRequest, PlanInv, PlannedFirst
<1> QED BY <1>1, <1>2, OthersPlanInv DEF CreateTask, apiVars

LEMMA InitPlanInv == Init => PlanInv
<1> SUFFICES ASSUME Init PROVE PlanInv
  OBVIOUS
<1>1. \A w \in Runners, t \in Tasks : run[w][t].pc = "idle" /\ ~run[w][t].asking
  BY DEF Init, RunInit, IdleRun
<1>2. \A t \in Tasks : tasks[t].state = "absent"
  BY DEF Init, StoreInit, NoRow
<1>3. \A c \in Clients : request[c].pc = "idle"
  BY DEF Init, ApiInit, NoRequest
<1>4. PlannedFirst
  BY <1>1, <1>2, <1>3 DEF Init, StoreInit, PlannedFirst, InState, At, Runners
<1>5. \A w \in Runners, t \in Tasks : FollowsPlan(w, t)
  BY <1>1 DEF FollowsPlan, CopyCurrent, PlanAhead, StepsDone, AllDone, HoldsPlan, Walking
<1>6. PlanPerformed
  BY <1>2 DEF PlanPerformed, InState
<1> QED BY <1>4, <1>5, <1>6 DEF PlanInv

LEMMA NextPlanInv == TypeInv /\ Routed /\ PlanInv /\ ExclusiveClaim /\ [Next]_vars => PlanInv'
<1> SUFFICES ASSUME TypeInv, Routed, PlanInv, ExclusiveClaim, [Next]_vars PROVE PlanInv'
  OBVIOUS
<1>1. CASE UNCHANGED vars
  <2>1. UNCHANGED <<tasks, approvals, approvedOnce, visited, run, performed, request>>
    BY <1>1 DEF vars, storeVars, runVars, apiVars
  <2>2. PlannedFirst'
    BY <2>1 DEF PlanInv, PlannedFirst, Planned, InState, At
  <2>3. \A w \in Runners, t \in Tasks : FollowsPlan(w, t)'
    BY <2>1 DEF PlanInv, FollowsPlan, CopyCurrent, StepsDone, AllDone, Done
  <2>4. PlanPerformed'
    BY <2>1 DEF PlanInv, PlanPerformed, InState, Done
  <2> QED BY <2>2, <2>3, <2>4 DEF PlanInv
<1>2. CASE WorkerNext /\ UNCHANGED apiVars
  BY <1>2, RunStepPlanInv, WorkerPlanInv DEF WorkerNext
<1>3. CASE ClientNext /\ UNCHANGED <<runVars, workerVars>>
  BY <1>3, ClientPlanInv
<1>4. CASE (\E t \in Tasks : CreateTask(t)) /\ UNCHANGED <<runVars, workerVars, apiVars>>
  BY <1>4, CreatePlanInv
<1> QED BY <1>1, <1>2, <1>3, <1>4, Zenon DEF Next

-----------------------------------------------------------------------------
(***************************************************************************)
(* A completed task has its report, or a run that cannot be kept from       *)
(* storing one: it has just committed COMPLETED, or has nothing left to     *)
(* walk, or is about to save.                                               *)
(***************************************************************************)
Reporting(rec) ==
  /\ rec.goal = "COMPLETED"
  /\ \/ rec.pc = "refresh" /\ Head(rec.path) = "COMPLETED"
     \/ rec.pc = "walk" /\ rec.path = <<>>
     \/ rec.pc = "persist"

ReportInv ==
  crashes = 0 =>
    \A t \in InState({"COMPLETED"}) :
      tasks[t].report \/ \E w \in Runners : Reporting(run[w][t])

\* A report is only lost to a run that stores a plan, and there is one already.
LEMMA RunStepReport ==
  ASSUME TypeInv, NEW w \in Runners, NEW t \in Tasks, CopyCurrent(w, t), RunStep(w, t),
         NEW u \in Tasks, Planned(u)
  PROVE  /\ tasks[u].report => tasks'[u].report
         /\ u = t /\ run[w][t].pc = "persist" => tasks'[u].report
<1>0. tasks \in [Tasks -> TaskRow]
  BY DEF TypeInv, TypeOK
<1>1. ASSUME NEW s, SetState(t, s) PROVE tasks'[u].report = tasks[u].report
  <2>1. CASE u = t
    BY <1>0, <1>1, <2>1 DEF SetState, TaskRow
  <2>2. CASE u # t
    BY <1>0, <1>1, <2>2 DEF SetState
  <2> QED BY <2>1, <2>2
<1>2. ASSUME NEW p, NEW r, SaveResult(t, p, r)
      PROVE  tasks'[u].report = IF u = t THEN r ELSE tasks[u].report
  <2>1. CASE u = t
    BY <1>0, <1>2, <2>1 DEF SaveResult, TaskRow
  <2>2. CASE u # t
    BY <1>0, <1>2, <2>2 DEF SaveResult
  <2> QED BY <2>1, <2>2
<1>3. CASE PersistResult(w, t)
  BY <1>2, <1>3 DEF PersistResult
<1>4. ASSUME NEW p \in Plans, PlanMade(w, t, p)
      PROVE  /\ tasks'[u].report = tasks[u].report
             /\ run[w][t].pc # "persist"
  <2>1. ~Planned(t) /\ SaveResult(t, p, run[w][t].row.report) /\ run[w][t].pc = "plan"
    BY <1>4 DEF PlanMade, At, CopyCurrent, Planned
  <2> QED BY <1>2, <2>1
<1>5. CASE Walk(w, t) \/ AskApproval(w, t) \/ Handle(w, t) \/ Pause(w, t)
  <2>1. run[w][t].pc # "persist"
    BY <1>5 DEF Walk, AskApproval, Handle, Pause, HasStep, At
  <2> QED BY <1>1, <1>5, <2>1 DEF Walk, AskApproval, Handle, Pause
<1>6. CASE PersistError(w, t)
  <2>1. tasks'[u].report = tasks[u].report
    BY <1>0, <1>6 DEF PersistError, TaskRow
  <2> QED BY <1>6, <2>1 DEF PersistError, At
<1>7. CASE tasks' = tasks /\ run[w][t].pc # "persist"
  BY <1>7
<1> QED
  BY <1>3, <1>4, <1>5, <1>6, <1>7
  DEF RunStep, Load, Refresh, WalkRefused, Arrive, PlanCached, PlannerFails, RefreshPlanned,
      Snapshot, LimitReached, AskRefused, StepBegin, NoGraph, StepSucceeds, StepFails, PlanDone,
      RefreshAsked, HandleRefused, HasStep, At, storeVars

\* The run that completed its task goes on until the report is stored.
LEMMA ReporterGoesOn ==
  ASSUME TypeInv, Routed, NEW w \in Runners, NEW t \in Tasks, CopyCurrent(w, t), Planned(t),
         Reporting(run[w][t]), RunStep(w, t)
  PROVE  Reporting(run'[w][t]) \/ tasks'[t].report
<1> DEFINE rec == run[w][t]
           new == run'[w][t]
<1>0. run \in [Runners -> [Tasks -> GoodRun]] /\ rec \in GoodRun /\ rec \in Run
  BY DEF TypeInv, TypeOK
<1>1. CASE rec.pc = "refresh" /\ Head(rec.path) = "COMPLETED"
  <2>1. Refresh(w, t)
    BY <1>1, RunStepPlaces
  <2>2. rec.path # <<>> /\ rec.path \in Seq(TaskState) /\ Route(rec.path, rec.goal)
    BY <1>0, <1>1 DEF GoodRun, Run, Routed
  <2>3. Tail(rec.path) = <<>>
    BY <1>1, <2>2, TailRoute, FollowsLate
  <2>4. new.pc = "walk" /\ new.path = Tail(rec.path) /\ new.goal = rec.goal
    BY <1>0, <2>1 DEF Refresh, Become, Run
  <2> QED BY <2>3, <2>4 DEF Reporting
<1>2. CASE rec.pc = "walk" /\ rec.path = <<>>
  <2>1. Arrive(w, t)
    BY <1>2, RunStepPlaces DEF Walk, WalkRefused
  <2>2. Goto(w, t, "persist")
    BY <2>1 DEF Arrive, Reporting
  <2>3. new.pc = "persist" /\ new.goal = rec.goal
    BY <1>0, <2>2 DEF Goto, Run
  <2> QED BY <2>3 DEF Reporting
<1>3. CASE rec.pc = "persist"
  BY <1>3, RunStepReport
<1> QED BY <1>1, <1>2, <1>3 DEF Reporting

LEMMA ReportStep == TypeInv /\ Routed /\ PlanInv /\ ReportInv /\ [Next]_vars => ReportInv'
<1> SUFFICES ASSUME TypeInv, Routed, PlanInv, ReportInv, [Next]_vars, crashes' = 0,
                    NEW u \in Tasks, tasks'[u].state = "COMPLETED"
             PROVE  tasks'[u].report \/ \E v \in Runners : Reporting(run'[v][u])
  BY DEF ReportInv, InState
<1>0. /\ run \in [Runners -> [Tasks -> GoodRun]] /\ tasks \in [Tasks -> TaskRow]
      /\ crashes \in Nat
  BY WorkerAssumption DEF TypeInv, TypeOK
<1>1. crashes = 0
  BY <1>0 DEF Next, WorkerNext, PollSelect, PollClaim, Crash, Resume, vars, workerVars
<1>2. ASSUME tasks[u].state = "COMPLETED"
      PROVE  Planned(u) /\ (tasks[u].report \/ \E v \in Runners : Reporting(run[v][u]))
  BY <1>1, <1>2 DEF ReportInv, PlanInv, PlannedFirst, InState
<1>3. ASSUME tasks'[u].state = tasks[u].state, tasks'[u].report = tasks[u].report,
             \A v \in Runners : Reporting(run[v][u]) => run'[v][u] = run[v][u]
      PROVE  tasks'[u].report \/ \E v \in Runners : Reporting(run'[v][u])
  <2>1. tasks[u].report \/ \E v \in Runners : Reporting(run[v][u])
    BY <1>2, <1>3
  <2>2. ASSUME NEW v \in Runners, Reporting(run[v][u]) PROVE Reporting(run'[v][u])
    BY <1>3, <2>2
  <2> QED BY <1>3, <2>1, <2>2
<1>4. ASSUME NEW w \in Runners, NEW t \in Tasks, RunStep(w, t)
      PROVE  tasks'[u].report \/ \E v \in Runners : Reporting(run'[v][u])
  <2>0. CopyCurrent(w, t)
    BY DEF PlanInv, FollowsPlan
  <2>1. \A v \in Runners : <<v, u>> # <<w, t>> => run'[v][u] = run[v][u]
    BY <1>4, RunStepTouches
  <2>2. CASE tasks'[u].state = tasks[u].state
    <3>1. Planned(u) /\ (tasks[u].report \/ \E v \in Runners : Reporting(run[v][u]))
      BY <1>2, <2>2
    <3>2. tasks[u].report => tasks'[u].report
      BY <1>4, <2>0, <3>1, RunStepReport
    <3>3. ASSUME NEW v \in Runners, Reporting(run[v][u])
          PROVE  Reporting(run'[v][u]) \/ tasks'[u].report
      <4>1. CASE <<v, u>> # <<w, t>>
        <5>1. run'[v][u] = run[v][u]
          BY <2>1, <4>1
        <5> QED BY <3>3, <5>1
      <4>2. CASE v = w /\ u = t
        BY <1>4, <2>0, <3>1, <3>3, <4>2, ReporterGoesOn
      <4> QED BY <4>1, <4>2
    <3> QED BY <3>1, <3>2, <3>3
  <2>3. CASE tasks'[u].state # tasks[u].state
    <3>1. u = t /\ Walk(w, t)
      BY <1>4, <2>3, RunStepState DEF StopStates
    <3>2. Head(run[w][t].path) = "COMPLETED"
      BY <1>0, <3>1 DEF Walk, SetState, TaskRow
    <3>3. /\ run[w][t].path # <<>> /\ run[w][t].path \in Seq(TaskState)
          /\ Route(run[w][t].path, run[w][t].goal)
      BY <1>0, <3>1 DEF Walk, At, GoodRun, Run, Routed
    <3>4. run[w][t].goal = "COMPLETED"
      BY <3>2, <3>3, HeadOnTheWay
    <3>5. /\ run'[w][t].pc = "refresh" /\ run'[w][t].path = run[w][t].path
          /\ run'[w][t].goal = run[w][t].goal
      BY <1>0, <3>1 DEF Walk, Goto, GoodRun, Run
    <3> QED BY <3>1, <3>2, <3>4, <3>5 DEF Reporting
  <2> QED BY <2>2, <2>3
<1>5. ASSUME NEW w \in Workers, PollSelect(w) \/ PollClaim(w) \/ Crash(w)
      PROVE  tasks'[u].report \/ \E v \in Runners : Reporting(run'[v][u])
  <2>1. tasks' = tasks /\ ~Crash(w)
    BY <1>1, <1>5 DEF PollSelect, PollClaim, Crash, storeVars
  <2>2. ASSUME NEW v \in Runners, Reporting(run[v][u]) PROVE run'[v][u] = run[v][u]
    <3>1. CASE PollSelect(w)
      BY <3>1 DEF PollSelect, runVars
    <3>2. CASE PollClaim(w)
      <4>1. v = w => u \notin Claimed(w)
        BY <2>2 DEF Claimed, Oldest, Active, At, Reporting
      <4> QED BY <1>0, <3>2, <4>1 DEF PollClaim
    <3> QED BY <1>5, <2>1, <3>1, <3>2
  <2> QED BY <1>3, <2>1, <2>2
<1>6. ASSUME NEW c \in Callers, NEW t \in Tasks, Resume(c, t)
      PROVE  tasks'[u].report \/ \E v \in Runners : Reporting(run'[v][u])
  <2>1. tasks' = tasks
    BY <1>6 DEF Resume, storeVars
  <2>2. \A v \in Runners : Reporting(run[v][u]) => run'[v][u] = run[v][u]
    BY <1>0, <1>6 DEF Resume, Become, At, Reporting
  <2> QED BY <1>3, <2>1, <2>2
<1>7. ASSUME NEW t \in Tasks, NEW s, SetState(t, s), s # "COMPLETED", UNCHANGED run
      PROVE  tasks'[u].report \/ \E v \in Runners : Reporting(run'[v][u])
  <2>1. u # t
    BY <1>7, SetStateKeepsPlans
  <2>2. tasks'[u] = tasks[u]
    BY <1>0, <1>7, <2>1 DEF SetState
  <2> QED BY <1>3, <1>7, <2>2
<1>8. ASSUME UNCHANGED <<tasks, run>>
      PROVE  tasks'[u].report \/ \E v \in Runners : Reporting(run'[v][u])
  BY <1>3, <1>8
<1>9. CASE ClientNext /\ UNCHANGED run
  <2>1. ASSUME NEW c \in Clients, request[c].pc # "idle" PROVE request[c].task \in Tasks
    BY <2>1 DEF TypeInv, GoodRequest
  <2>2. ASSUME NEW c \in Clients, CancelCommit(c)
        PROVE  tasks'[u].report \/ \E v \in Runners : Reporting(run'[v][u])
    BY <1>7, <1>9, <2>1, <2>2 DEF CancelCommit
  <2>3. ASSUME NEW c \in Clients, DecideCommit(c)
        PROVE  tasks'[u].report \/ \E v \in Runners : Reporting(run'[v][u])
    <3>1. DecisionTarget(request[c].verdict) # "COMPLETED"
      BY DEF DecisionTarget
    <3> QED BY <1>7, <1>9, <2>1, <2>3, <3>1 DEF DecideCommit
  <2>4. CASE UNCHANGED storeVars
    BY <1>8, <1>9, <2>4 DEF storeVars
  <2> QED BY <1>9, <2>2, <2>3, <2>4, Zenon
          DEF ClientNext, Clients, CancelRead, DecideFind, DecideLock, DecideRefused
<1>10. ASSUME NEW t \in Tasks, CreateTask(t), UNCHANGED run
       PROVE  tasks'[u].report \/ \E v \in Runners : Reporting(run'[v][u])
  BY <1>7, <1>10 DEF CreateTask
<1> QED
  BY <1>4, <1>5, <1>6, <1>8, <1>9, <1>10 DEF Next, WorkerNext, vars, storeVars, runVars

-----------------------------------------------------------------------------
\* COMPLETED means done, and reported, wherever docs/deployment.md is right that
\* "each task is claimed by exactly one worker", for any number of workers and
\* callers.
LEMMA CompletedMeansDone ==
  Spec /\ []ExclusiveClaim => []PlanPerformed /\ []CompletedIsReported
<1> DEFINE Inv == TypeInv /\ Routed /\ PlanInv /\ ReportInv
<1>1. Init => Inv
  <2>1. Init => Routed
    BY DEF Init, RunInit, IdleRun, Routed
  <2>2. Init => ReportInv
    BY DEF Init, StoreInit, NoRow, ReportInv, InState
  <2> QED BY <2>1, <2>2, InitTypeInv, InitPlanInv
<1>2. Inv /\ ExclusiveClaim /\ [Next]_vars => Inv'
  BY NextTypeInv, RoutedStep, NextPlanInv, ReportStep
<1>3. Inv => PlanPerformed /\ CompletedIsReported
  BY DEF PlanInv, ReportInv, Reporting, CompletedIsReported
<1> HIDE DEF Inv
<1> QED BY <1>1, <1>2, <1>3, PTL DEF Spec

\* COMPLETED means done: with exclusive claims every step of the stored plan was
\* handed to its subgraph, whatever cancels, re-runs and dying workers do.
THEOREM CompletedIsDone == Spec /\ []ExclusiveClaim => []PlanPerformed
BY CompletedMeansDone, PTL

\* COMPLETED means reported: with exclusive claims and no death of a worker, no
\* completed task is without a report and without the run that will store it.
THEOREM CompletedIsAnswered == Spec /\ []ExclusiveClaim => []CompletedIsReported
BY CompletedMeansDone, PTL

\* With one worker nothing else is needed, however many callers run its tasks
\* again.
THEOREM OneWorkerCompletes ==
  ASSUME \A v, w \in Workers : v = w
  PROVE  Spec => []PlanPerformed /\ []CompletedIsReported
<1>1. ExclusiveClaim
  BY DEF ExclusiveClaim
<1> QED BY <1>1, CompletedMeansDone, PTL
-----------------------------------------------------------------------------
(***************************************************************************)
(* Who may leave a terminal state.  A session that read the row before the  *)
(* state became terminal commits over it (the run of TerminalIsFinal), so   *)
(* the invariant is about sessions: once none is left that validates        *)
(* against an older copy, none ever comes up again, for the next ones all   *)
(* read the row as it is.                                                   *)
(***************************************************************************)
Rereads == {"load", "refresh", "planned", "asked"}

LateRun(w, t) ==
  /\ run[w][t].pc \notin Rereads \cup {"idle", "persist", "report"}
  /\ run[w][t].row.state \notin TERMINAL_STATES

LateRequest(c, t) == request[c].task = t /\ request[c].pc \in {"cancelling", "locked"}

Settled(t) ==
  /\ tasks[t].state \in TERMINAL_STATES
  /\ \A w \in Runners : ~LateRun(w, t)
  /\ \A c \in Clients : ~LateRequest(c, t)

SettledStays(t) == Settled(t) => Settled(t)' /\ tasks'[t].state = tasks[t].state

SettledIsFinal == [][\A t \in Tasks : SettledStays(t)]_vars

\* A run that may not leave the state in its copy commits no other state.
LEMMA RunStepCommits ==
  ASSUME TypeInv, NEW w \in Runners, NEW t \in Tasks, RunStep(w, t), ~LateRun(w, t)
  PROVE  \A u \in Tasks : tasks'[u].state = tasks[u].state
<1>0. tasks \in [Tasks -> TaskRow] /\ tasks[t] \in TaskRow
  BY DEF TypeInv, TypeOK
<1>1. \A s : ~CanTransition(run[w][t].row.state, s) \/ run[w][t].pc \in Rereads \cup {"idle", "persist", "report"}
  BY DEF LateRun, CanTransition
<1>2. ~Walk(w, t)
  BY <1>1 DEF Walk, At, Rereads
<1>3. ~AskApproval(w, t)
  BY <1>1 DEF AskApproval, HasStep, At, Rereads
<1>4. ~Handle(w, t)
  BY <1>1 DEF Handle, At, Rereads
<1>5. Pause(w, t) => UNCHANGED tasks
  BY <1>1 DEF Pause, At, Rereads
<1>6. ASSUME NEW p, NEW r, SaveResult(t, p, r)
      PROVE  \A u \in Tasks : tasks'[u].state = tasks[u].state
  <2>1. tasks' = [tasks EXCEPT ![t] = [@ EXCEPT !.plan = p, !.report = r]]
    BY <1>6, Zenon DEF SaveResult
  <2>2. [tasks[t] EXCEPT !.plan = p, !.report = r].state = tasks[t].state
    BY <1>0 DEF TaskRow
  <2>3. tasks'[t].state = tasks[t].state
    BY <1>0, <2>1, <2>2
  <2> QED BY <1>0, <2>1, <2>3
<1>7. CASE PersistResult(w, t) \/ \E p \in Plans : PlanMade(w, t, p)
  BY <1>6, <1>7, Zenon DEF PersistResult, PlanMade
<1>8. CASE PersistError(w, t)
  BY <1>0, <1>8 DEF PersistError, TaskRow
<1> QED BY <1>2, <1>3, <1>4, <1>5, <1>7, <1>8, RunStepLeaves

\* A place that reads the row again does so, and the last commits end the run.
LEMMA RunStepRereads ==
  ASSUME TypeInv, NEW w \in Runners, NEW t \in Tasks, RunStep(w, t)
  PROVE  /\ run[w][t].pc \in Rereads => run'[w][t].row = tasks[t]
         /\ run[w][t].pc \in {"persist", "report"} => run'[w][t].pc = "idle"
<1> DEFINE rec == run[w][t]
<1>0. /\ rec \in Run /\ tasks[t] \in TaskRow
      /\ \A new : Become(w, t, new) => run'[w][t] = new
  BY RunTyped DEF Become, TypeInv
<1>1. CASE Load(w, t)
  <2> DEFINE new == [rec EXCEPT !.row = tasks[t]]
  <2>1. new \in Run /\ rec.pc = "load"
    BY <1>0, <1>1 DEF Run, Load, At
  <2>2. new.row = tasks[t] /\ [new EXCEPT !.pc = "plan"].row = tasks[t]
    BY <1>0 DEF Run
  <2>3. WalkTo(new, "PLANNING").row = tasks[t]
    BY <2>1, <2>2, WalkToCopies
  <2>4. Become(w, t, WalkTo(new, "PLANNING")) \/ Become(w, t, [new EXCEPT !.pc = "plan"])
    BY <1>1 DEF Load
  <2>5. run'[w][t].row = tasks[t]
    BY <1>0, <2>2, <2>3, <2>4
  <2> QED BY <2>1, <2>5
<1>2. CASE Refresh(w, t)
  <2>1. rec.pc = "refresh" /\ Become(w, t, [rec EXCEPT !.row = tasks[t], !.path = Tail(@), !.pc = "walk"])
    BY <1>2 DEF Refresh, At
  <2>2. [rec EXCEPT !.row = tasks[t], !.path = Tail(@), !.pc = "walk"].row = tasks[t]
    BY <1>0 DEF Run
  <2>3. run'[w][t].row = tasks[t]
    BY <1>0, <2>1, <2>2
  <2> QED BY <2>1, <2>3
<1>3. CASE RefreshPlanned(w, t) \/ RefreshAsked(w, t)
  <2>1. PICK pc : Become(w, t, [rec EXCEPT !.row = tasks[t], !.pc = pc])
    BY <1>3, Zenon DEF RefreshPlanned, RefreshAsked
  <2>2. rec.pc \in {"planned", "asked"}
    BY <1>3 DEF RefreshPlanned, RefreshAsked, At
  <2>3. [rec EXCEPT !.row = tasks[t], !.pc = pc].row = tasks[t]
    BY <1>0 DEF Run
  <2>4. run'[w][t].row = tasks[t]
    BY <1>0, <2>1, <2>3
  <2> QED BY <2>2, <2>4
<1>4. CASE PersistResult(w, t) \/ PersistError(w, t)
  <2>1. Become(w, t, IdleRun)
    BY <1>4, Zenon DEF PersistResult, PersistError
  <2>2. rec.pc \in {"persist", "report"}
    BY <1>4, Zenon DEF PersistResult, PersistError, At
  <2> QED BY <1>0, <2>1, <2>2 DEF IdleRun, Rereads
<1>5. CASE rec.pc \notin Rereads \cup {"persist", "report"}
  BY <1>5
<1> QED BY <1>1, <1>2, <1>3, <1>4, <1>5, RunStepPlaces DEF Rereads

\* Once a row is terminal, a run that is not late is not made late by its steps.
LEMMA RunStepNotLate ==
  ASSUME TypeInv, NEW w \in Runners, NEW t \in Tasks, RunStep(w, t),
         tasks[t].state \in TERMINAL_STATES, ~LateRun(w, t)
  PROVE  ~LateRun(w, t)'
<1>1. CASE run[w][t].pc \in Rereads
  BY <1>1, RunStepRereads DEF LateRun
<1>2. CASE run[w][t].pc \in {"persist", "report"}
  BY <1>2, RunStepRereads DEF LateRun
<1>3. CASE run[w][t].pc \notin Rereads \cup {"idle", "persist", "report"}
  BY <1>3, RunStepCopies DEF LateRun, CopiesReadFromRows
<1> QED BY <1>1, <1>2, <1>3, RunStepTouches

LEMMA SettledWorkerStep ==
  ASSUME TypeInv, NEW t \in Tasks, Settled(t), WorkerNext, UNCHANGED apiVars
  PROVE  Settled(t)' /\ tasks'[t].state = tasks[t].state
<1>0. run \in [Runners -> [Tasks -> GoodRun]]
  BY DEF TypeInv
<1>1. ASSUME \A v \in Runners : run'[v][t] = run[v][t] \/ ~LateRun(v, t)',
             tasks'[t].state = tasks[t].state
      PROVE  Settled(t)'
  BY <1>1 DEF Settled, LateRun, LateRequest, apiVars
<1>2. ASSUME NEW w \in Runners, NEW u \in Tasks, RunStep(w, u)
      PROVE  Settled(t)' /\ tasks'[t].state = tasks[t].state
  <2>1. CASE u = t
    <3>1. ~LateRun(w, t)' /\ tasks'[t].state = tasks[t].state
      BY <1>2, <2>1, RunStepCommits, RunStepNotLate DEF Settled
    <3>2. \A v \in Runners : v # w => run'[v][t] = run[v][t]
      BY <1>2, <2>1, RunStepTouches
    <3> QED BY <1>1, <3>1, <3>2
  <2>2. CASE u # t
    <3>1. tasks'[t].state = tasks[t].state
      BY <1>2, <2>2, RunStepState
    <3>2. \A v \in Runners : run'[v][t] = run[v][t]
      BY <1>2, <2>2, RunStepTouches
    <3> QED BY <1>1, <3>1, <3>2
  <2> QED BY <2>1, <2>2
<1>3. IdleRun.pc = "idle" /\ [IdleRun EXCEPT !.pc = "load"].pc = "load"
  BY DEF IdleRun
<1>4. ASSUME NEW w \in Workers, PollSelect(w) \/ PollClaim(w) \/ Crash(w)
      PROVE  Settled(t)' /\ tasks'[t].state = tasks[t].state
  <2>1. \A v \in Runners : run'[v][t] = run[v][t] \/ run'[v][t].pc \in {"idle", "load"}
    <3>1. PollSelect(w) => run' = run
      BY DEF PollSelect, runVars
    <3>2. PollClaim(w) => \A v \in Runners : run'[v][t] = run[v][t] \/ run'[v][t].pc = "load"
      BY <1>0, <1>3 DEF PollClaim
    <3>3. Crash(w) => \A v \in Runners : run'[v][t] = run[v][t] \/ run'[v][t].pc = "idle"
      BY <1>0, <1>3 DEF Crash
    <3> QED BY <1>4, <3>1, <3>2, <3>3
  <2>2. tasks' = tasks
    BY <1>4 DEF PollSelect, PollClaim, Crash, storeVars
  <2> QED BY <1>1, <2>1, <2>2 DEF LateRun, Rereads
<1>5. ASSUME NEW c \in Callers, NEW u \in Tasks, Resume(c, u)
      PROVE  Settled(t)' /\ tasks'[t].state = tasks[t].state
  <2>1. \A v \in Runners : run'[v][t] = run[v][t] \/ run'[v][t].pc \in {"idle", "load"}
    BY <1>0, <1>3, <1>5 DEF Resume, Become
  <2>2. tasks' = tasks
    BY <1>5 DEF Resume, storeVars
  <2> QED BY <1>1, <2>1, <2>2 DEF LateRun, Rereads
<1> QED BY <1>2, <1>4, <1>5 DEF WorkerNext

\* A request that reads a terminal row is refused, and one that wrote is over.
LEMMA SettledClientStep ==
  ASSUME TypeInv, NEW t \in Tasks, Settled(t), ClientNext, UNCHANGED <<runVars, workerVars>>
  PROVE  Settled(t)' /\ tasks'[t].state = tasks[t].state
<1>0. tasks \in [Tasks -> TaskRow] /\ request \in [Clients -> GoodRequest]
  BY DEF TypeInv, TypeOK
<1>1. ASSUME NEW c \in Clients, \A d \in Clients : d # c => request'[d] = request[d],
             ~LateRequest(c, t)', tasks'[t].state = tasks[t].state
      PROVE  Settled(t)' /\ tasks'[t].state = tasks[t].state
  <2>1. \A d \in Clients : ~LateRequest(d, t)'
    BY <1>1 DEF Settled, LateRequest
  <2>2. \A v \in Runners : ~LateRun(v, t)'
    BY DEF Settled, LateRun, runVars
  <2> QED BY <1>1, <2>1, <2>2 DEF Settled
<1>2. NoRequest.pc = "idle" /\ \A u : [NoRequest EXCEPT !.pc = "cancelling", !.task = u].task = u
  BY DEF NoRequest
<1>3. ASSUME NEW c \in Clients, NEW u \in Tasks, CancelRead(c, u)
      PROVE  Settled(t)' /\ tasks'[t].state = tasks[t].state
  <2>1. u # t
    BY <1>3 DEF CancelRead, CanTransition, Settled
  <2>2. request'[c].task = u /\ \A d \in Clients : d # c => request'[d] = request[d]
    BY <1>0, <1>2, <1>3 DEF CancelRead
  <2> QED BY <1>1, <1>3, <2>1, <2>2 DEF CancelRead, LateRequest, storeVars
<1>4. ASSUME NEW c \in Clients, NEW u \in Tasks, NEW v \in Verdicts, DecideFind(c, u, v)
      PROVE  Settled(t)' /\ tasks'[t].state = tasks[t].state
  <2>1. request'[c].pc = "found" /\ \A d \in Clients : d # c => request'[d] = request[d]
    BY <1>0, <1>4 DEF DecideFind
  <2> QED BY <1>1, <1>4, <2>1 DEF DecideFind, LateRequest, storeVars
<1>5. ASSUME NEW c \in Clients, DecideLock(c)
      PROVE  Settled(t)' /\ tasks'[t].state = tasks[t].state
  <2>1. request[c].task # t
    BY <1>5 DEF DecideLock, DecisionAllowed, CanTransition, Settled
  <2>2. request'[c].task = request[c].task /\ \A d \in Clients : d # c => request'[d] = request[d]
    BY <1>0, <1>5 DEF DecideLock, GoodRequest, Request
  <2> QED BY <1>1, <1>5, <2>1, <2>2 DEF DecideLock, LateRequest, storeVars
<1>6. ASSUME NEW c \in Clients, request' = [request EXCEPT ![c] = NoRequest]
      PROVE  ~LateRequest(c, t)' /\ \A d \in Clients : d # c => request'[d] = request[d]
  BY <1>0, <1>2, <1>6 DEF LateRequest
<1>7. ASSUME NEW c \in Clients, DecideRefused(c)
      PROVE  Settled(t)' /\ tasks'[t].state = tasks[t].state
  BY <1>1, <1>6, <1>7 DEF DecideRefused, storeVars
<1>8. ASSUME NEW c \in Clients, CancelCommit(c) \/ DecideCommit(c)
      PROVE  Settled(t)' /\ tasks'[t].state = tasks[t].state
  <2>1. request[c].task # t
    BY <1>8 DEF CancelCommit, DecideCommit, Settled, LateRequest
  <2>2. tasks'[t] = tasks[t]
    BY <1>0, <1>8, <2>1 DEF CancelCommit, DecideCommit, SetState
  <2>3. request' = [request EXCEPT ![c] = NoRequest]
    BY <1>8 DEF CancelCommit, DecideCommit
  <2> QED BY <1>1, <1>6, <2>2, <2>3
<1> QED BY <1>3, <1>4, <1>5, <1>7, <1>8 DEF ClientNext, Clients

\* "Terminal states can never transition further" holds of every row as soon as
\* the sessions that read it before it became terminal are over: no later cancel,
\* decision, re-run, crash or late commit of a result takes it out again.
THEOREM TerminalOnceSettled == Spec => SettledIsFinal
<1>1. TypeInv /\ [Next]_vars => [\A t \in Tasks : SettledStays(t)]_vars
  <2> SUFFICES ASSUME TypeInv, [Next]_vars, NEW t \in Tasks, Settled(t)
               PROVE  Settled(t)' /\ tasks'[t].state = tasks[t].state
    BY DEF SettledStays
  <2>1. CASE WorkerNext /\ UNCHANGED apiVars
    BY <2>1, SettledWorkerStep
  <2>2. CASE ClientNext /\ UNCHANGED <<runVars, workerVars>>
    BY <2>2, SettledClientStep
  <2>3. CASE (\E u \in Tasks : CreateTask(u)) /\ UNCHANGED <<runVars, workerVars, apiVars>>
    <3>1. PICK u \in Tasks : CreateTask(u)
      BY <2>3
    <3>2. u # t
      BY <3>1 DEF CreateTask, Settled, TERMINAL_STATES
    <3>3. tasks'[t] = tasks[t]
      BY <3>1, <3>2 DEF CreateTask, SetState, TypeInv, TypeOK
    <3> QED BY <2>3, <3>3 DEF Settled, LateRun, LateRequest, runVars, apiVars
  <2>4. CASE UNCHANGED vars
    BY <2>4 DEF vars, storeVars, runVars, apiVars, Settled, LateRun, LateRequest
  <2> QED BY <2>1, <2>2, <2>3, <2>4 DEF Next
<1> QED BY <1>1, TypeInvInvariant, PTL DEF Spec, SettledIsFinal

\* So the sentence is kept by every behaviour in which no session still validates
\* against an older copy when a row becomes terminal, as in the serial ones.
THEOREM TerminalWithoutOverlap ==
  Spec /\ [](\A t \in Tasks : tasks[t].state \in TERMINAL_STATES => Settled(t)) => TerminalIsFinal
<1> DEFINE NoOverlap == \A t \in Tasks : tasks[t].state \in TERMINAL_STATES => Settled(t)
<1>1. NoOverlap /\ [\A t \in Tasks : SettledStays(t)]_vars
        => [\A t \in Tasks : tasks[t].state \in TERMINAL_STATES
                               => tasks'[t].state = tasks[t].state]_vars
  BY DEF SettledStays
<1> QED BY <1>1, TerminalOnceSettled, PTL DEF SettledIsFinal, TerminalIsFinal
-----------------------------------------------------------------------------
(***************************************************************************)
(* The poll selects the CREATED tasks.  A stale copy may undo much, the end *)
(* of a task included, but no transition leads back to CREATED, from        *)
(* whatever copy it is validated on: a task that has left the queue of the  *)
(* poll is not in it again, so a restart or an approval cannot rely on it.  *)
(***************************************************************************)
NeverRequeued ==
  [][\A t \in Tasks : Exists(t) /\ tasks[t].state # "CREATED"
                         => Exists(t)' /\ tasks'[t].state # "CREATED"]_vars

LEMMA CreatedNotEntered ==
  ASSUME NEW s \in TaskState, NEW target, CanTransition(s, target)
  PROVE  target # "CREATED"
BY DEF CanTransition, AllowedTransitions, HappyPath, EscalationTargets, TaskState

LEMMA WritesKeepQueue ==
  ASSUME TypeInv, Writes, NEW t \in Tasks, Exists(t), tasks[t].state # "CREATED"
  PROVE  Exists(t)' /\ tasks'[t].state # "CREATED"
<1>0. tasks \in [Tasks -> TaskRow] /\ visited \in [Tasks -> SUBSET TaskState]
  BY DEF TypeInv, TypeOK
<1>1. ASSUME NEW u \in Tasks, NEW s, SetState(u, s)
      PROVE  tasks'[t].state = IF u = t THEN s ELSE tasks[t].state
  BY <1>0, <1>1 DEF SetState, TaskRow
<1>2. CASE Enters
  <2>1. PICK u \in Tasks, s \in TaskState : SetState(u, s) /\ Enterable(u, s)
    BY <1>2, Zenon DEF Enters
  <2>2. s # "CREATED" /\ s # "absent"
    BY <1>0, <2>1, CreatedNotEntered DEF Enterable, TaskState
  <2> QED BY <1>1, <2>1, <2>2 DEF Exists
<1>3. CASE Creates
  <2>1. PICK u \in Tasks : CreateTask(u)
    BY <1>3 DEF Creates
  <2> QED BY <1>1, <2>1 DEF CreateTask, Exists
<1>4. CASE KeepsStates
  BY <1>4 DEF KeepsStates, Exists
<1> QED BY <1>2, <1>3, <1>4 DEF Writes

\* No task is queued twice: whatever stale copies workers, callers and clients
\* commit, a task that has left CREATED is never CREATED again.
THEOREM QueuedOnce == Spec => NeverRequeued
<1>1. TypeInv /\ LifeInv /\ [Next]_vars
        => /\ LifeInv'
           /\ [\A t \in Tasks : Exists(t) /\ tasks[t].state # "CREATED"
                                 => Exists(t)' /\ tasks'[t].state # "CREATED"]_vars
  BY NextLifeInv, WritesKeepQueue
<1> QED BY <1>1, InitLifeInv, TypeInvInvariant, PTL DEF Spec, NeverRequeued
=============================================================================
