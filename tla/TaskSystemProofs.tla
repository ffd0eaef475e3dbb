---------------------------- MODULE TaskSystemProofs ---------------------------
(***************************************************************************)
(* Types, the approval gate, the capacity of a worker, that no task is      *)
(* stranded and that every run is finite, for every set of tasks, processes, *)
(* clients and plans and every bound.                                       *)
(***************************************************************************)
EXTENDS TaskSystem, SequenceTheorems, FiniteSetTheorems, TLAPS

(***************************************************************************)
(* TypeOK is not inductive: typing an Approval needs a plan step in hand,   *)
(* and typing a decision needs the approval it names.  GoodRun and          *)
(* GoodRequest say when a run holds a plan and a request a task.            *)
(***************************************************************************)
HoldsPlan(rec) ==
  \/ rec.pc \in {"planned", "snapshot", "step", "invoke"}
  \/ rec.pc \in {"walk", "refresh"} /\ rec.goal # "PLANNING"
  \/ rec.asking

GoodRun == {rec \in Run :
              /\ HoldsPlan(rec) => rec.plan \in Plans
              /\ rec.pc = "refresh" => rec.path # <<>>
              /\ rec.asking => /\ rec.pc \in {"fail", "report"}
                               /\ rec.done < Len(rec.plan)}

GoodRequest == {q \in Request : q.pc # "idle" => q.task \in Tasks}

NamesApproval(q) == q.pc \in {"found", "locked"} => q.approval \in DOMAIN approvals

TypeInv ==
  /\ TypeOK
  /\ run \in [Runners -> [Tasks -> GoodRun]]
  /\ request \in [Clients -> GoodRequest]
  /\ \A c \in Clients : NamesApproval(request[c])

Goals == {"PLANNING", "EXECUTING", "VERIFYING", "COMPLETED"}

-----------------------------------------------------------------------------
(* Operators.                                                               *)

LEMMA HappyPathTyped ==
  /\ HappyPathOrder \in Seq(TaskState)
  /\ Len(HappyPathOrder) = 9
BY DEF HappyPathOrder, TaskState

\* The transitions _walk_to asks for are task states, whatever the session holds.
LEMMA WalkPathTyped ==
  ASSUME NEW s, NEW g \in Goals
  PROVE  WalkPath(s, g) \in Seq(TaskState)
<1>1. g \in TaskState
  BY DEF Goals, TaskState
<1>2. CASE s = g
  BY <1>2 DEF WalkPath
<1>3. CASE s # g /\ ~OnHappyPath(s)
  BY <1>1, <1>3 DEF WalkPath
<1>4. CASE s # g /\ OnHappyPath(s)
  <2>1. OnHappyPath(g)
    <3>1. HappyPathOrder[3] = "PLANNING" /\ HappyPathOrder[7] = "EXECUTING"
          /\ HappyPathOrder[8] = "VERIFYING" /\ HappyPathOrder[9] = "COMPLETED"
      BY DEF HappyPathOrder
    <3> QED BY <3>1, HappyPathTyped DEF OnHappyPath, Goals
  <2>2. PathIndex(g) \in 1..9 /\ PathIndex(s) \in 1..9
    BY <1>4, <2>1, HappyPathTyped DEF OnHappyPath, PathIndex
  <2>3. \A i \in (PathIndex(s) + 1)..PathIndex(g) : HappyPathOrder[i] \in TaskState
    <3>1. TAKE i \in (PathIndex(s) + 1)..PathIndex(g)
    <3>2. i \in 1..9
      BY <2>2
    <3> QED BY <3>2, HappyPathTyped, ElementOfSeq
  <2>4. SubSeq(HappyPathOrder, PathIndex(s) + 1, PathIndex(g)) \in Seq(TaskState)
    BY <2>2, <2>3, SubSeqProperties
  <2> QED BY <1>4, <2>4 DEF WalkPath
<1> QED BY <1>2, <1>3, <1>4

\* Replacing one run by a good one keeps all runs good.
LEMMA BecomeTyped ==
  ASSUME run \in [Runners -> [Tasks -> GoodRun]],
         NEW w \in Runners, NEW t \in Tasks, NEW rec \in GoodRun,
         Become(w, t, rec)
  PROVE  run' \in [Runners -> [Tasks -> GoodRun]]
BY DEF Become

\* Walking on from a good run that holds a plan, or walking to PLANNING.
LEMMA WalkToTyped ==
  ASSUME NEW rec \in GoodRun, NEW g \in Goals, ~rec.asking,
         rec.plan \in Plans \/ g = "PLANNING"
  PROVE  WalkTo(rec, g) \in GoodRun
<1>1. WalkPath(rec.row.state, g) \in Seq(TaskState)
  BY WalkPathTyped
<1>2. g \in TaskState
  BY DEF Goals, TaskState
<1>3. WalkTo(rec, g) \in Run
  BY <1>1, <1>2 DEF WalkTo, Run, PCs, GoodRun
<1> QED BY <1>3 DEF WalkTo, GoodRun, HoldsPlan, Run

\* The step in hand is a plan step.
LEMMA CurrentStepTyped ==
  ASSUME NEW w \in Runners, NEW t \in Tasks, run[w][t] \in Run,
         run[w][t].plan \in Plans, run[w][t].done < Len(run[w][t].plan)
  PROVE  /\ CurrentStep(w, t) \in PlanStep
         /\ PendingApproval(t, CurrentStep(w, t)) \in Approval
<1>1. run[w][t].plan \in Seq(PlanStep)
  BY PlansAssumption
<1>2. run[w][t].done + 1 \in 1..Len(run[w][t].plan)
  BY <1>1 DEF Run
<1>3. CurrentStep(w, t) \in PlanStep
  BY <1>1, <1>2, ElementOfSeq DEF CurrentStep
<1> QED BY <1>3 DEF PlanStep, PendingApproval, Approval

\* A commit of a task state keeps both tables typed.
LEMMA SetStateTyped ==
  ASSUME tasks \in [Tasks -> TaskRow], visited \in [Tasks -> SUBSET TaskState],
         NEW t \in Tasks, NEW s \in TaskState, SetState(t, s)
  PROVE  tasks' \in [Tasks -> TaskRow] /\ visited' \in [Tasks -> SUBSET TaskState]
BY DEF SetState, TaskRow

\* A commit of task.result keeps the tasks typed.
LEMMA SaveResultTyped ==
  ASSUME tasks \in [Tasks -> TaskRow], NEW t \in Tasks,
         NEW p \in Plans \cup {NoPlan}, NEW b \in BOOLEAN, SaveResult(t, p, b)
  PROVE  tasks' \in [Tasks -> TaskRow] /\ visited' = visited
<1>1. [tasks[t] EXCEPT !.plan = p, !.report = b] \in TaskRow
  BY DEF TaskRow
<1> QED BY <1>1 DEF SaveResult

LEMMA IdleRunGood == IdleRun \in GoodRun
<1>1. NoRow \in TaskRow
  BY DEF NoRow, TaskRow
<1>2. IdleRun \in Run
  BY <1>1 DEF IdleRun, Run, PCs, TaskState
<1> QED BY <1>2 DEF IdleRun, GoodRun, HoldsPlan

\* Moving the program counter of a good run to a place that needs no plan, or
\* whose plan it holds already.
LEMMA GotoTyped ==
  ASSUME run \in [Runners -> [Tasks -> GoodRun]],
         NEW w \in Runners, NEW t \in Tasks, NEW pc \in PCs, Goto(w, t, pc),
         pc # "refresh",
         pc \in {"planned", "snapshot", "step", "invoke", "walk"}
           => run[w][t].plan \in Plans,
         run[w][t].asking => pc \in {"fail", "report"}
  PROVE  run' \in [Runners -> [Tasks -> GoodRun]]
<1> DEFINE rec == [run[w][t] EXCEPT !.pc = pc]
<1>1. run[w][t] \in GoodRun
  OBVIOUS
<1>2. rec \in Run
  BY <1>1 DEF GoodRun, Run
<1>3. rec \in GoodRun
  BY <1>1, <1>2 DEF GoodRun, HoldsPlan, Run
<1>4. Become(w, t, rec)
  BY DEF Goto, Become
<1> QED BY <1>3, <1>4, BecomeTyped

-----------------------------------------------------------------------------
(* The fields of a run after an edit of it.                                 *)

\* The row is read, and the run goes on.
LEMMA RowRead ==
  ASSUME NEW rec \in Run, NEW row, NEW pc
  PROVE  LET x == [rec EXCEPT !.row = row, !.pc = pc]
         IN  /\ x.row = row /\ x.pc = pc
             /\ x.goal = rec.goal /\ x.path = rec.path /\ x.plan = rec.plan /\ x.granted = rec.granted
             /\ x.done = rec.done /\ x.asking = rec.asking
BY DEF Run

\* The row is read after a transition.
LEMMA RowReread ==
  ASSUME NEW rec \in Run, NEW row
  PROVE  LET x == [rec EXCEPT !.row = row, !.path = Tail(@), !.pc = "walk"]
         IN  /\ x.row = row /\ x.path = Tail(rec.path) /\ x.pc = "walk"
             /\ x.goal = rec.goal /\ x.plan = rec.plan /\ x.granted = rec.granted /\ x.done = rec.done
             /\ x.asking = rec.asking
BY DEF Run

\* The plan is known.
LEMMA PlanGiven ==
  ASSUME NEW rec \in Run, NEW plan, NEW pc
  PROVE  LET x == [rec EXCEPT !.plan = plan, !.pc = pc]
         IN  /\ x.plan = plan /\ x.pc = pc
             /\ x.row = rec.row /\ x.goal = rec.goal /\ x.path = rec.path /\ x.granted = rec.granted
             /\ x.done = rec.done /\ x.asking = rec.asking
BY DEF Run

\* A step is counted.
LEMMA StepCounted ==
  ASSUME NEW rec \in Run
  PROVE  LET x == [rec EXCEPT !.done = @ + 1, !.pc = "step"]
         IN  /\ x.done = rec.done + 1 /\ x.pc = "step"
             /\ x.row = rec.row /\ x.goal = rec.goal /\ x.path = rec.path /\ x.plan = rec.plan
             /\ x.granted = rec.granted /\ x.asking = rec.asking
BY DEF Run

\* An Approval is left in the session.
LEMMA AskLeft ==
  ASSUME NEW rec \in Run
  PROVE  LET x == [rec EXCEPT !.asking = TRUE, !.pc = "fail"]
         IN  /\ x.asking = TRUE /\ x.pc = "fail"
             /\ x.row = rec.row /\ x.goal = rec.goal /\ x.path = rec.path /\ x.plan = rec.plan
             /\ x.granted = rec.granted /\ x.done = rec.done
BY DEF Run

(* The steps of a run, by the place they are taken at.                      *)

LEMMA RunStepPlaces ==
  ASSUME NEW w \in Runners, NEW t \in Tasks, RunStep(w, t)
  PROVE  \/ run[w][t].pc = "load" /\ Load(w, t)
         \/ run[w][t].pc = "walk" /\ (Walk(w, t) \/ WalkRefused(w, t) \/ Arrive(w, t))
         \/ run[w][t].pc = "refresh" /\ Refresh(w, t)
         \/ /\ run[w][t].pc = "plan"
            /\ PlanCached(w, t) \/ (\E p \in Plans : PlanMade(w, t, p)) \/ PlannerFails(w, t)
         \/ run[w][t].pc = "planned" /\ RefreshPlanned(w, t)
         \/ run[w][t].pc = "snapshot" /\ Snapshot(w, t)
         \/ /\ run[w][t].pc = "step"
            /\ \/ LimitReached(w, t) \/ AskApproval(w, t) \/ AskRefused(w, t)
               \/ StepBegin(w, t) \/ NoGraph(w, t) \/ PlanDone(w, t)
         \/ run[w][t].pc = "invoke" /\ (StepSucceeds(w, t) \/ StepFails(w, t))
         \/ run[w][t].pc = "persist" /\ PersistResult(w, t)
         \/ run[w][t].pc = "asked" /\ RefreshAsked(w, t)
         \/ run[w][t].pc = "pause" /\ Pause(w, t)
         \/ run[w][t].pc \in {"fail", "timeout"} /\ (Handle(w, t) \/ HandleRefused(w, t))
         \/ run[w][t].pc = "report" /\ PersistError(w, t)
<1>1. /\ Load(w, t) => run[w][t].pc = "load"
      /\ Walk(w, t) \/ WalkRefused(w, t) \/ Arrive(w, t) => run[w][t].pc = "walk"
      /\ Refresh(w, t) => run[w][t].pc = "refresh"
  <2>1. Load(w, t) => run[w][t].pc = "load"
    BY DEF Load, At
  <2>2. Walk(w, t) \/ WalkRefused(w, t) \/ Arrive(w, t) => run[w][t].pc = "walk"
    BY DEF Walk, WalkRefused, Arrive, At
  <2>3. Refresh(w, t) => run[w][t].pc = "refresh"
    BY DEF Refresh, At
  <2> QED BY <2>1, <2>2, <2>3
<1>2. /\ PlanCached(w, t) \/ (\E p \in Plans : PlanMade(w, t, p)) \/ PlannerFails(w, t)
           => run[w][t].pc = "plan"
      /\ RefreshPlanned(w, t) => run[w][t].pc = "planned"
      /\ Snapshot(w, t) => run[w][t].pc = "snapshot"
  BY Zenon DEF PlanCached, PlanMade, PlannerFails, RefreshPlanned, Snapshot, At
<1>3. LimitReached(w, t) \/ AskApproval(w, t) \/ AskRefused(w, t) \/ StepBegin(w, t)
        \/ NoGraph(w, t) \/ PlanDone(w, t)
           => run[w][t].pc = "step"
  BY DEF LimitReached, AskApproval, AskRefused, StepBegin, NoGraph, PlanDone, HasStep, At
<1>4. /\ StepSucceeds(w, t) \/ StepFails(w, t) => run[w][t].pc = "invoke"
      /\ PersistResult(w, t) => run[w][t].pc = "persist"
      /\ RefreshAsked(w, t) => run[w][t].pc = "asked"
      /\ Pause(w, t) => run[w][t].pc = "pause"
  BY DEF StepSucceeds, StepFails, PersistResult, RefreshAsked, Pause, At
<1>5. /\ Handle(w, t) \/ HandleRefused(w, t) => run[w][t].pc \in {"fail", "timeout"}
      /\ PersistError(w, t) => run[w][t].pc = "report"
  BY DEF Handle, HandleRefused, PersistError, At
<1> QED BY <1>1, <1>2, <1>3, <1>4, <1>5 DEF RunStep

\* Which of them touch the approvals and the steps performed.
LEMMA RunStepLeaves ==
  ASSUME NEW w \in Runners, NEW t \in Tasks, RunStep(w, t)
  PROVE  /\ AskApproval(w, t) \/ Handle(w, t) \/ approvals' = approvals
         /\ approvedOnce' = approvedOnce
         /\ StepBegin(w, t) \/ performed' = performed
         /\ \/ Walk(w, t) \/ (\E p \in Plans : PlanMade(w, t, p)) \/ AskApproval(w, t)
            \/ PersistResult(w, t) \/ Pause(w, t) \/ Handle(w, t) \/ PersistError(w, t)
            \/ UNCHANGED <<tasks, visited>>
<1> DEFINE Kept == UNCHANGED <<approvals, approvedOnce, performed>>
           Quiet == Kept /\ UNCHANGED <<tasks, visited>>
<1>1. Load(w, t) \/ Refresh(w, t) \/ WalkRefused(w, t) \/ Arrive(w, t) \/ PlanCached(w, t) => Quiet
  BY DEF Load, Refresh, WalkRefused, Arrive, PlanCached, storeVars
<1>2. PlannerFails(w, t) \/ RefreshPlanned(w, t) \/ Snapshot(w, t) \/ LimitReached(w, t)
        \/ AskRefused(w, t) => Quiet
  BY DEF PlannerFails, RefreshPlanned, Snapshot, LimitReached, AskRefused, storeVars
<1>3. NoGraph(w, t) \/ StepSucceeds(w, t) \/ StepFails(w, t) \/ PlanDone(w, t)
        \/ RefreshAsked(w, t) \/ HandleRefused(w, t) => Quiet
  BY DEF NoGraph, StepSucceeds, StepFails, PlanDone, RefreshAsked, HandleRefused, storeVars
<1>4. Walk(w, t) \/ (\E p \in Plans : PlanMade(w, t, p)) \/ PersistResult(w, t) \/ Pause(w, t)
        \/ PersistError(w, t) => Kept
  BY Zenon DEF Walk, PlanMade, PersistResult, Pause, PersistError
<1>5. AskApproval(w, t) \/ Handle(w, t) => UNCHANGED <<approvedOnce, performed>>
  BY DEF AskApproval, Handle
<1>6. StepBegin(w, t) => UNCHANGED <<approvals, approvedOnce, tasks, visited>>
  BY DEF StepBegin, storeVars
<1> QED BY <1>1, <1>2, <1>3, <1>4, <1>5, <1>6 DEF RunStep

-----------------------------------------------------------------------------
(* The steps.                                                               *)

\* A run and a row have their types.
LEMMA RunTyped ==
  ASSUME TypeInv, NEW w \in Runners, NEW t \in Tasks
  PROVE  /\ run[w][t] \in GoodRun /\ run[w][t] \in Run /\ run[w][t].row \in TaskRow
         /\ tasks[t] \in TaskRow
<1>1. run[w][t] \in GoodRun
  BY DEF TypeInv
<1>2. run[w][t] \in Run
  BY <1>1 DEF GoodRun
<1>3. run[w][t].row \in TaskRow
  BY <1>2 DEF Run
<1>4. tasks[t] \in TaskRow
  BY DEF TypeInv, TypeOK
<1> QED BY <1>1, <1>2, <1>3, <1>4

\* What a step of a run has to establish.
RunStepEnds ==
  /\ tasks' \in [Tasks -> TaskRow]
  /\ visited' \in [Tasks -> SUBSET TaskState]
  /\ approvals' \in Seq(Approval)
  /\ Len(approvals') >= Len(approvals)
  /\ approvedOnce' = approvedOnce
  /\ performed' \subseteq [task : Tasks, step : PlanStep]
  /\ run' \in [Runners -> [Tasks -> GoodRun]]

LEMMA QuietStep ==
  ASSUME TypeInv, run' \in [Runners -> [Tasks -> GoodRun]],
         UNCHANGED <<storeVars, performed>>
  PROVE  RunStepEnds
BY DEF RunStepEnds, TypeInv, TypeOK, storeVars

LEMMA TableStep ==
  ASSUME TypeInv, run' \in [Runners -> [Tasks -> GoodRun]],
         tasks' \in [Tasks -> TaskRow], visited' \in [Tasks -> SUBSET TaskState],
         UNCHANGED <<approvals, approvedOnce, performed>>
  PROVE  RunStepEnds
BY DEF RunStepEnds, TypeInv, TypeOK

LEMMA LoadTyped ==
  ASSUME TypeInv, NEW w \in Runners, NEW t \in Tasks, Load(w, t)
  PROVE  RunStepEnds
<1> DEFINE rec == run[w][t]
           new == [rec EXCEPT !.row = tasks[t]]
<1>1. rec \in GoodRun /\ rec \in Run /\ tasks[t] \in TaskRow /\ rec.pc = "load"
  BY DEF TypeInv, TypeOK, GoodRun, Load, At
<1>2. new \in Run /\ [new EXCEPT !.pc = "plan"] \in Run
  BY <1>1 DEF Run, PCs
<1>3. new \in GoodRun /\ [new EXCEPT !.pc = "plan"] \in GoodRun /\ ~new.asking
  BY <1>1, <1>2 DEF GoodRun, HoldsPlan, Run
<1>4. WalkTo(new, "PLANNING") \in GoodRun
  BY <1>3, WalkToTyped DEF Goals
<1>5. run' \in [Runners -> [Tasks -> GoodRun]]
  BY <1>3, <1>4, BecomeTyped DEF Load, TypeInv
<1> QED BY <1>5, QuietStep DEF Load

LEMMA ArriveTyped ==
  ASSUME TypeInv, NEW w \in Runners, NEW t \in Tasks, Arrive(w, t)
  PROVE  RunStepEnds
<1> DEFINE rec == run[w][t]
<1>1. rec \in GoodRun /\ rec.pc = "walk"
  BY DEF TypeInv, Arrive, At
<1>2. ~rec.asking /\ (rec.goal # "PLANNING" => rec.plan \in Plans)
  BY <1>1 DEF GoodRun, HoldsPlan
<1>3. SUFFICES run' \in [Runners -> [Tasks -> GoodRun]]
  BY QuietStep DEF Arrive
<1>4. CASE rec.goal = "PLANNING" /\ Goto(w, t, "plan")
  BY <1>2, <1>4, GotoTyped DEF TypeInv, PCs
<1>5. CASE rec.goal = "EXECUTING" /\ Goto(w, t, "step")
  BY <1>2, <1>5, GotoTyped DEF TypeInv, PCs
<1>6. CASE rec.goal = "VERIFYING" /\ Become(w, t, WalkTo(rec, "COMPLETED"))
  <2>1. WalkTo(rec, "COMPLETED") \in GoodRun
    BY <1>1, <1>2, <1>6, WalkToTyped DEF Goals
  <2> QED BY <1>6, <2>1, BecomeTyped DEF TypeInv
<1>7. CASE rec.goal = "COMPLETED" /\ Goto(w, t, "persist")
  BY <1>2, <1>7, GotoTyped DEF TypeInv, PCs
<1> QED BY <1>4, <1>5, <1>6, <1>7 DEF Arrive

LEMMA PlanTyped ==
  ASSUME TypeInv, NEW w \in Runners, NEW t \in Tasks,
         PlanCached(w, t) \/ (\E p \in Plans : PlanMade(w, t, p))
  PROVE  RunStepEnds
<1> DEFINE rec == run[w][t]
<1>1. rec \in GoodRun /\ rec \in Run /\ rec.row \in TaskRow /\ rec.pc = "plan"
  <2>1. At(w, t, "plan")
    BY Zenon DEF PlanCached, PlanMade
  <2>2. rec.pc = "plan"
    BY <2>1 DEF At
  <2> QED BY <2>2, RunTyped
<1>2. ASSUME NEW p \in Plans, NEW pc \in {"planned", "snapshot"}
      PROVE  [rec EXCEPT !.plan = p, !.pc = pc] \in GoodRun
  <2> DEFINE x == [rec EXCEPT !.plan = p, !.pc = pc]
  <2>1. x \in Run
    BY <1>1 DEF Run, PCs
  <2>2. x.pc = pc /\ x.plan = p /\ x.asking = rec.asking
    BY <1>1, PlanGiven
  <2>3. ~rec.asking
    BY <1>1 DEF GoodRun
  <2> HIDE DEF x
  <2>4. x \in GoodRun
    BY <2>1, <2>2, <2>3 DEF GoodRun, HoldsPlan
  <2> QED BY <2>4 DEF x
<1>3. CASE PlanCached(w, t)
  <2>1. rec.row.plan \in Plans
    <3>1. rec.row.plan \in Plans \cup {NoPlan}
      BY <1>1 DEF TaskRow
    <3> QED BY <1>3, <3>1 DEF PlanCached
  <2>2. run' \in [Runners -> [Tasks -> GoodRun]]
    <3>1. [rec EXCEPT !.plan = rec.row.plan, !.pc = "snapshot"] \in GoodRun
      BY <1>2, <2>1, Zenon
    <3> QED BY <1>3, <3>1, BecomeTyped DEF PlanCached, TypeInv
  <2> QED BY <1>3, <2>2, QuietStep DEF PlanCached
<1>4. ASSUME NEW p \in Plans, PlanMade(w, t, p)
      PROVE  RunStepEnds
  <2>1. run' \in [Runners -> [Tasks -> GoodRun]]
    <3>1. [rec EXCEPT !.plan = p, !.pc = "planned"] \in GoodRun
      BY <1>2, Zenon
    <3> QED BY <1>4, <3>1, BecomeTyped, Zenon DEF PlanMade, TypeInv
  <2>2. rec.row.report \in BOOLEAN
    BY <1>1 DEF TaskRow
  <2>3. tasks' \in [Tasks -> TaskRow] /\ visited' = visited
    <3>1. tasks \in [Tasks -> TaskRow] /\ SaveResult(t, p, rec.row.report)
      BY <1>4, Zenon DEF PlanMade, TypeInv, TypeOK
    <3> QED BY <2>2, <3>1, SaveResultTyped
  <2>4. visited' \in [Tasks -> SUBSET TaskState]
    BY <2>3 DEF TypeInv, TypeOK
  <2> QED BY <1>4, <2>1, <2>3, <2>4, TableStep, Zenon DEF PlanMade
<1> QED BY <1>3, <1>4

LEMMA RefreshTyped ==
  ASSUME TypeInv, NEW w \in Runners, NEW t \in Tasks,
         Refresh(w, t) \/ RefreshPlanned(w, t) \/ RefreshAsked(w, t)
  PROVE  RunStepEnds
<1> DEFINE rec == run[w][t]
<1>1. rec \in GoodRun /\ rec \in Run /\ tasks[t] \in TaskRow
  BY DEF TypeInv, TypeOK
<1>2. CASE Refresh(w, t)
  <2> DEFINE new == [rec EXCEPT !.row = tasks[t], !.path = Tail(rec.path), !.pc = "walk"]
  <2>1. rec.pc = "refresh" /\ rec.path # <<>>
    BY <1>1, <1>2 DEF Refresh, At, GoodRun
  <2>2. Tail(rec.path) \in Seq(TaskState)
    BY <1>1, <2>1, HeadTailProperties DEF Run
  <2>3. new \in Run
    BY <1>1, <2>2 DEF Run, PCs
  <2>4. new \in GoodRun
    BY <1>1, <2>1, <2>3 DEF GoodRun, HoldsPlan, Run
  <2>5. run' \in [Runners -> [Tasks -> GoodRun]]
    BY <1>2, <2>4, BecomeTyped DEF Refresh, TypeInv
  <2> QED BY <1>2, <2>5, QuietStep DEF Refresh
<1>3. CASE RefreshPlanned(w, t)
  <2> DEFINE new == [rec EXCEPT !.row = tasks[t], !.pc = "snapshot"]
  <2>1. rec.pc = "planned"
    BY <1>3 DEF RefreshPlanned, At
  <2>2. new \in Run
    BY <1>1 DEF Run, PCs
  <2>3. new \in GoodRun
    BY <1>1, <2>1, <2>2 DEF GoodRun, HoldsPlan, Run
  <2>4. run' \in [Runners -> [Tasks -> GoodRun]]
    BY <1>3, <2>3, BecomeTyped DEF RefreshPlanned, TypeInv
  <2> QED BY <1>3, <2>4, QuietStep DEF RefreshPlanned
<1>4. CASE RefreshAsked(w, t)
  <2> DEFINE new == [rec EXCEPT !.row = tasks[t], !.pc = "pause"]
  <2>1. rec.pc = "asked"
    BY <1>4 DEF RefreshAsked, At
  <2>2. new \in Run
    BY <1>1 DEF Run, PCs
  <2>3. new \in GoodRun
    BY <1>1, <2>1, <2>2 DEF GoodRun, HoldsPlan, Run
  <2>4. run' \in [Runners -> [Tasks -> GoodRun]]
    BY <1>4, <2>3, BecomeTyped DEF RefreshAsked, TypeInv
  <2> QED BY <1>4, <2>4, QuietStep DEF RefreshAsked
<1> QED BY <1>2, <1>3, <1>4

LEMMA SnapshotTyped ==
  ASSUME TypeInv, NEW w \in Runners, NEW t \in Tasks, Snapshot(w, t)
  PROVE  RunStepEnds
<1> DEFINE rec == run[w][t]
           new == [rec EXCEPT !.granted = ApprovedActions(t)]
<1>1. rec \in GoodRun /\ rec \in Run /\ rec.pc = "snapshot"
  BY DEF TypeInv, TypeOK, Snapshot, At
<1>2. ApprovedActions(t) \subseteq StepNames
  <2>1. \A a \in DOMAIN approvals : approvals[a] \in Approval
    BY ElementOfSeq DEF TypeInv, TypeOK
  <2> QED BY <2>1 DEF ApprovedActions, Approval
<1>3. new \in Run
  BY <1>1, <1>2 DEF Run
<1>4. new \in GoodRun /\ ~new.asking /\ new.plan \in Plans
  BY <1>1, <1>3 DEF GoodRun, HoldsPlan, Run
<1>5. WalkTo(new, "EXECUTING") \in GoodRun
  BY <1>4, WalkToTyped DEF Goals
<1>6. run' \in [Runners -> [Tasks -> GoodRun]]
  BY <1>5, BecomeTyped DEF Snapshot, TypeInv
<1> QED BY <1>6, QuietStep DEF Snapshot

\* Every way of leaving run() without a commit.
LEMMA LeaveTyped ==
  ASSUME TypeInv, NEW w \in Runners, NEW t \in Tasks,
         Become(w, t, IdleRun), UNCHANGED <<storeVars, performed>>
  PROVE  RunStepEnds
BY IdleRunGood, BecomeTyped, QuietStep DEF TypeInv

LEMMA WalkTyped ==
  ASSUME TypeInv, NEW w \in Runners, NEW t \in Tasks,
         Walk(w, t) \/ WalkRefused(w, t)
  PROVE  RunStepEnds
<1> DEFINE rec == run[w][t]
<1>1. rec \in GoodRun /\ rec \in Run /\ rec.pc = "walk" /\ rec.path # <<>>
  BY DEF TypeInv, TypeOK, Walk, WalkRefused, At
<1>2. ~rec.asking /\ (rec.goal # "PLANNING" => rec.plan \in Plans)
  BY <1>1 DEF GoodRun, HoldsPlan
<1>3. CASE Walk(w, t)
  <2> DEFINE new == [rec EXCEPT !.pc = "refresh"]
  <2>1. Head(rec.path) \in TaskState
    BY <1>1, HeadTailProperties DEF Run
  <2>2. tasks' \in [Tasks -> TaskRow] /\ visited' \in [Tasks -> SUBSET TaskState]
    BY <1>3, <2>1, SetStateTyped DEF Walk, TypeInv, TypeOK
  <2>3. new \in Run
    BY <1>1 DEF Run, PCs
  <2>4. new \in GoodRun
    BY <1>1, <1>2, <2>3 DEF GoodRun, HoldsPlan, Run
  <2>5. Become(w, t, new)
    BY <1>3 DEF Walk, Goto, Become
  <2>6. run' \in [Runners -> [Tasks -> GoodRun]]
    BY <2>4, <2>5, BecomeTyped DEF TypeInv
  <2> QED BY <1>3, <2>2, <2>6, TableStep DEF Walk
<1>4. CASE WalkRefused(w, t)
  <2>1. CASE rec.goal = "PLANNING"
    BY <1>4, <2>1, LeaveTyped DEF WalkRefused
  <2>2. CASE rec.goal # "PLANNING"
    <3>1. run' \in [Runners -> [Tasks -> GoodRun]]
      BY <1>2, <1>4, <2>2, GotoTyped DEF WalkRefused, TypeInv, PCs
    <3> QED BY <1>4, <3>1, QuietStep DEF WalkRefused
  <2> QED BY <2>1, <2>2
<1> QED BY <1>3, <1>4

\* The actions that only move on, all of them without an Approval in the session.
LEMMA MoveOnTyped ==
  ASSUME TypeInv, NEW w \in Runners, NEW t \in Tasks,
         LimitReached(w, t) \/ NoGraph(w, t) \/ StepFails(w, t)
  PROVE  RunStepEnds
<1> DEFINE rec == run[w][t]
<1>1. rec \in GoodRun /\ rec.pc \in {"step", "invoke"}
  BY DEF TypeInv, LimitReached, NoGraph, StepFails, HasStep, At
<1>2. ~rec.asking
  BY <1>1 DEF GoodRun
<1>3. Goto(w, t, "timeout") \/ Goto(w, t, "fail")
  BY DEF LimitReached, NoGraph, StepFails
<1>4. run' \in [Runners -> [Tasks -> GoodRun]]
  BY <1>2, <1>3, GotoTyped DEF TypeInv, PCs
<1> QED BY <1>4, QuietStep DEF LimitReached, NoGraph, StepFails

LEMMA StepTyped ==
  ASSUME TypeInv, NEW w \in Runners, NEW t \in Tasks,
         StepBegin(w, t) \/ StepSucceeds(w, t) \/ PlanDone(w, t)
  PROVE  RunStepEnds
<1> DEFINE rec == run[w][t]
<1>1. rec \in GoodRun /\ rec \in Run /\ rec.pc \in {"step", "invoke"}
  BY DEF TypeInv, TypeOK, StepBegin, StepSucceeds, PlanDone, HasStep, At
<1>2. ~rec.asking /\ rec.plan \in Plans
  BY <1>1 DEF GoodRun, HoldsPlan
<1>3. CASE StepBegin(w, t)
  <2>1. CurrentStep(w, t) \in PlanStep
    BY <1>1, <1>2, <1>3, CurrentStepTyped DEF StepBegin, HasStep
  <2>2. run' \in [Runners -> [Tasks -> GoodRun]]
    BY <1>2, <1>3, GotoTyped DEF StepBegin, TypeInv, PCs
  <2>3. performed' \subseteq [task : Tasks, step : PlanStep]
    BY <1>3, <2>1 DEF StepBegin, TypeInv, TypeOK
  <2> QED BY <1>3, <2>2, <2>3 DEF StepBegin, RunStepEnds, TypeInv, TypeOK, storeVars
<1>4. CASE StepSucceeds(w, t)
  <2> DEFINE new == [rec EXCEPT !.done = rec.done + 1, !.pc = "step"]
  <2>0. rec.done + 1 \in Nat
    BY <1>1 DEF Run
  <2>1. new \in Run
    BY <1>1, <2>0 DEF Run, PCs
  <2>2. new \in GoodRun
    BY <1>1, <1>2, <2>1 DEF GoodRun, HoldsPlan, Run
  <2>3. run' \in [Runners -> [Tasks -> GoodRun]]
    BY <1>4, <2>2, BecomeTyped DEF StepSucceeds, TypeInv
  <2> QED BY <1>4, <2>3, QuietStep DEF StepSucceeds
<1>5. CASE PlanDone(w, t)
  <2>1. WalkTo(rec, "VERIFYING") \in GoodRun
    BY <1>1, <1>2, WalkToTyped DEF Goals
  <2>2. run' \in [Runners -> [Tasks -> GoodRun]]
    BY <1>5, <2>1, BecomeTyped DEF PlanDone, TypeInv
  <2> QED BY <1>5, <2>2, QuietStep DEF PlanDone
<1> QED BY <1>3, <1>4, <1>5

LEMMA AskTyped ==
  ASSUME TypeInv, NEW w \in Runners, NEW t \in Tasks,
         AskApproval(w, t) \/ AskRefused(w, t)
  PROVE  RunStepEnds
<1> DEFINE rec == run[w][t]
<1>1. /\ rec \in GoodRun /\ rec \in Run /\ rec.pc = "step"
      /\ rec.done < Len(rec.plan)
  BY DEF TypeInv, TypeOK, AskApproval, AskRefused, HasStep, At
<1>2. ~rec.asking /\ rec.plan \in Plans
  BY <1>1 DEF GoodRun, HoldsPlan
<1>3. CASE AskApproval(w, t)
  <2>1. PendingApproval(t, CurrentStep(w, t)) \in Approval
    BY <1>1, <1>2, CurrentStepTyped
  <2>2. /\ approvals' = Append(approvals, PendingApproval(t, CurrentStep(w, t)))
        /\ approvals \in Seq(Approval)
    BY <1>3 DEF AskApproval, TypeInv, TypeOK
  <2>3. approvals' \in Seq(Approval) /\ Len(approvals') >= Len(approvals)
    BY <2>1, <2>2, AppendProperties
  <2>4. "WAITING_FOR_APPROVAL" \in TaskState
    BY DEF TaskState
  <2>5. tasks' \in [Tasks -> TaskRow] /\ visited' \in [Tasks -> SUBSET TaskState]
    BY <1>3, <2>4, SetStateTyped DEF AskApproval, TypeInv, TypeOK
  <2>6. run' \in [Runners -> [Tasks -> GoodRun]]
    BY <1>2, <1>3, GotoTyped DEF AskApproval, TypeInv, PCs
  <2> QED BY <1>3, <2>3, <2>5, <2>6 DEF AskApproval, RunStepEnds, TypeInv, TypeOK
<1>4. CASE AskRefused(w, t)
  <2> DEFINE new == [rec EXCEPT !.asking = TRUE, !.pc = "fail"]
  <2>1. new \in Run
    BY <1>1 DEF Run, PCs
  <2>2. new \in GoodRun
    BY <1>1, <1>2, <2>1 DEF GoodRun, HoldsPlan, Run
  <2>3. run' \in [Runners -> [Tasks -> GoodRun]]
    BY <1>4, <2>2, BecomeTyped DEF AskRefused, TypeInv
  <2> QED BY <1>4, <2>3, QuietStep DEF AskRefused
<1> QED BY <1>3, <1>4

LEMMA ExitTyped ==
  ASSUME TypeInv, NEW w \in Runners, NEW t \in Tasks,
         PersistResult(w, t) \/ Pause(w, t) \/ PersistError(w, t)
  PROVE  RunStepEnds
<1>1. run[w][t] \in Run
  BY DEF TypeInv, TypeOK
<1>2. /\ run' \in [Runners -> [Tasks -> GoodRun]]
      /\ UNCHANGED <<approvals, approvedOnce, performed>>
  BY IdleRunGood, BecomeTyped DEF PersistResult, Pause, PersistError, TypeInv
<1>3. CASE PersistResult(w, t)
  <2>1. run[w][t].row.plan \in Plans \cup {NoPlan}
    BY <1>1 DEF Run, TaskRow
  <2>2. tasks' \in [Tasks -> TaskRow] /\ visited' = visited
    BY <1>3, <2>1, SaveResultTyped DEF PersistResult, TypeInv, TypeOK
  <2>3. visited' \in [Tasks -> SUBSET TaskState]
    BY <2>2 DEF TypeInv, TypeOK
  <2> QED BY <1>2, <2>2, <2>3, TableStep
<1>4. CASE Pause(w, t)
  <2>1. "WAITING_FOR_APPROVAL" \in TaskState
    BY DEF TaskState
  <2>2. tasks' \in [Tasks -> TaskRow] /\ visited' \in [Tasks -> SUBSET TaskState]
    BY <1>4, <2>1, SetStateTyped DEF Pause, TypeInv, TypeOK
  <2> QED BY <1>2, <2>2, TableStep
<1>5. CASE PersistError(w, t)
  <2>1. tasks' \in [Tasks -> TaskRow] /\ visited' = visited
    <3>1. tasks \in [Tasks -> TaskRow] /\ tasks' = [tasks EXCEPT ![t].error = TRUE] /\ visited' = visited
      BY <1>5 DEF PersistError, TypeInv, TypeOK
    <3>2. [tasks[t] EXCEPT !.error = TRUE] \in TaskRow
      BY RunTyped DEF TaskRow
    <3> QED BY <3>1, <3>2
  <2>2. visited' \in [Tasks -> SUBSET TaskState]
    BY <2>1 DEF TypeInv, TypeOK
  <2> QED BY <1>2, <2>1, <2>2, TableStep
<1> QED BY <1>3, <1>4, <1>5

LEMMA HandleTyped ==
  ASSUME TypeInv, NEW w \in Runners, NEW t \in Tasks, Handle(w, t)
  PROVE  RunStepEnds
<1> DEFINE rec == run[w][t]
<1>1. rec \in GoodRun /\ rec \in Run
  BY DEF TypeInv, TypeOK
<1>2. EndState(w, t) \in TaskState
  BY DEF EndState, TaskState
<1>3. tasks' \in [Tasks -> TaskRow] /\ visited' \in [Tasks -> SUBSET TaskState]
  BY <1>2, SetStateTyped DEF Handle, TypeInv, TypeOK
<1>4. run' \in [Runners -> [Tasks -> GoodRun]]
  BY GotoTyped DEF Handle, TypeInv, PCs
<1>5. approvals' \in Seq(Approval) /\ Len(approvals') >= Len(approvals)
  <2>1. approvals \in Seq(Approval)
    BY DEF TypeInv, TypeOK
  <2>2. CASE rec.asking
    <3>1. rec.plan \in Plans /\ rec.done < Len(rec.plan)
      BY <1>1, <2>2 DEF GoodRun, HoldsPlan
    <3>2. PendingApproval(t, CurrentStep(w, t)) \in Approval
      BY <1>1, <3>1, CurrentStepTyped
    <3>3. approvals' = Append(approvals, PendingApproval(t, CurrentStep(w, t)))
      BY <2>2 DEF Handle
    <3> QED BY <2>1, <3>2, <3>3, AppendProperties
  <2>3. CASE ~rec.asking
    BY <2>1, <2>3 DEF Handle
  <2> QED BY <2>2, <2>3
<1> QED BY <1>3, <1>4, <1>5 DEF Handle, RunStepEnds, TypeInv, TypeOK

LEMMA RunStepTyped ==
  ASSUME TypeInv, NEW w \in Runners, NEW t \in Tasks, RunStep(w, t)
  PROVE  RunStepEnds
<1>1. CASE PlannerFails(w, t) \/ HandleRefused(w, t)
  BY <1>1, LeaveTyped DEF PlannerFails, HandleRefused
<1> QED
  BY <1>1, LoadTyped, WalkTyped, RefreshTyped, ArriveTyped, PlanTyped, SnapshotTyped,
     MoveOnTyped, AskTyped, StepTyped, ExitTyped, HandleTyped
  DEF RunStep

\* A step of a run keeps the whole invariant: no request loses its approval.
LEMMA RunStepTypeInv ==
  ASSUME TypeInv, RunStepEnds, UNCHANGED workerVars, UNCHANGED apiVars
  PROVE  TypeInv'
<1>1. run' \in [Runners -> [Tasks -> Run]]
  BY DEF RunStepEnds, GoodRun
<1>2. TypeOK'
  BY <1>1 DEF RunStepEnds, TypeInv, TypeOK, workerVars, apiVars
<1>3. request' \in [Clients -> GoodRequest]
  BY DEF TypeInv, apiVars
<1>4. DOMAIN approvals \subseteq DOMAIN approvals'
  BY DEF RunStepEnds, TypeInv, TypeOK
<1>5. ASSUME NEW c \in Clients
      PROVE  NamesApproval(request[c])'
  BY <1>4 DEF TypeInv, NamesApproval, apiVars
<1> QED BY <1>2, <1>3, <1>5 DEF RunStepEnds, TypeInv

LEMMA WorkerTypeInv ==
  ASSUME TypeInv, UNCHANGED apiVars,
         \/ \E w \in Workers : PollSelect(w) \/ PollClaim(w) \/ Crash(w)
         \/ \E c \in Callers, t \in Tasks : Resume(c, t)
  PROVE  TypeInv'
<1> DEFINE loading == [IdleRun EXCEPT !.pc = "load"]
<1>1. IdleRun \in GoodRun /\ IdleRun \in Run
  BY IdleRunGood DEF GoodRun
<1>2. loading \in Run
  BY <1>1 DEF Run, PCs
<1>3. loading \in GoodRun
  BY <1>1, <1>2 DEF GoodRun, HoldsPlan, Run, IdleRun
<1>4. SUFFICES /\ run' \in [Runners -> [Tasks -> GoodRun]]
               /\ batch' \in [Workers -> SUBSET Tasks]
               /\ crashes' \in 0..MaxCrashes /\ resumes' \in 0..MaxResumes
               /\ UNCHANGED <<storeVars, performed>>
  <2>1. run' \in [Runners -> [Tasks -> Run]]
    BY <1>4 DEF GoodRun
  <2> QED
    BY <1>4, <2>1 DEF TypeInv, TypeOK, NamesApproval, storeVars, apiVars
<1>5. ASSUME NEW w \in Workers, PollSelect(w)
      PROVE  /\ run' \in [Runners -> [Tasks -> GoodRun]]
             /\ batch' \in [Workers -> SUBSET Tasks]
             /\ crashes' \in 0..MaxCrashes /\ resumes' \in 0..MaxResumes
             /\ UNCHANGED <<storeVars, performed>>
  <2>1. Oldest(InState({"CREATED"}), MaxConcurrent) \subseteq Tasks
    BY DEF Oldest, InState
  <2> QED BY <1>5, <2>1 DEF PollSelect, TypeInv, TypeOK, runVars
<1>6. ASSUME NEW w \in Workers, PollClaim(w)
      PROVE  /\ run' \in [Runners -> [Tasks -> GoodRun]]
             /\ batch' \in [Workers -> SUBSET Tasks]
             /\ crashes' \in 0..MaxCrashes /\ resumes' \in 0..MaxResumes
             /\ UNCHANGED <<storeVars, performed>>
  BY <1>3, <1>6 DEF PollClaim, TypeInv, TypeOK, Runners
<1>7. ASSUME NEW w \in Workers, Crash(w)
      PROVE  /\ run' \in [Runners -> [Tasks -> GoodRun]]
             /\ batch' \in [Workers -> SUBSET Tasks]
             /\ crashes' \in 0..MaxCrashes /\ resumes' \in 0..MaxResumes
             /\ UNCHANGED <<storeVars, performed>>
  BY <1>1, <1>7, WorkerAssumption DEF Crash, TypeInv, TypeOK, Runners
<1>8. ASSUME NEW c \in Callers, NEW t \in Tasks, Resume(c, t)
      PROVE  /\ run' \in [Runners -> [Tasks -> GoodRun]]
             /\ batch' \in [Workers -> SUBSET Tasks]
             /\ crashes' \in 0..MaxCrashes /\ resumes' \in 0..MaxResumes
             /\ UNCHANGED <<storeVars, performed>>
  <2>1. run' \in [Runners -> [Tasks -> GoodRun]]
    BY <1>3, <1>8, BecomeTyped DEF Resume, TypeInv, Runners
  <2> QED BY <1>8, <2>1, WorkerAssumption DEF Resume, TypeInv, TypeOK
<1> QED BY <1>5, <1>6, <1>7, <1>8

\* What a step of a request has to establish.
ClientStepEnds ==
  /\ tasks' \in [Tasks -> TaskRow]
  /\ visited' \in [Tasks -> SUBSET TaskState]
  /\ approvals' \in Seq(Approval)
  /\ approvedOnce' \subseteq Tasks \X StepNames \X Agents
  /\ request' \in [Clients -> GoodRequest]
  /\ \A c \in Clients : NamesApproval(request[c])'

LEMMA RequestTyped ==
  ASSUME TypeInv, NEW c \in Clients, NEW q \in GoodRequest,
         request' = [request EXCEPT ![c] = q],
         q.pc \in {"found", "locked"} => q.approval \in DOMAIN approvals,
         DOMAIN approvals' = DOMAIN approvals
  PROVE  /\ request' \in [Clients -> GoodRequest]
         /\ \A d \in Clients : NamesApproval(request[d])'
BY DEF TypeInv, NamesApproval

LEMMA NoRequestGood == NoRequest \in GoodRequest /\ NoRequest.pc = "idle"
BY DEF NoRequest, GoodRequest, Request, Verdicts

LEMMA ReadTyped ==
  ASSUME TypeInv, NEW c \in Clients, NEW t \in Tasks, NEW v \in Verdicts,
         CancelRead(c, t) \/ DecideFind(c, t, v)
  PROVE  ClientStepEnds
<1>1. UNCHANGED storeVars
  BY DEF CancelRead, DecideFind
<1>2. SUFFICES /\ request' \in [Clients -> GoodRequest]
               /\ \A d \in Clients : NamesApproval(request[d])'
  BY <1>1 DEF ClientStepEnds, TypeInv, TypeOK, storeVars
<1>3. CASE CancelRead(c, t)
  <2> DEFINE q == [NoRequest EXCEPT !.pc = "cancelling", !.task = t]
  <2>1. q \in GoodRequest /\ q.pc = "cancelling"
    BY DEF NoRequest, GoodRequest, Request, Verdicts
  <2> QED BY <1>1, <1>3, <2>1, RequestTyped DEF CancelRead, storeVars
<1>4. CASE DecideFind(c, t, v)
  <2>1. PICK a \in LatestPending(t) :
          request' = [request EXCEPT ![c] = [pc |-> "found", task |-> t,
                                             approval |-> a, verdict |-> v]]
    BY <1>4 DEF DecideFind
  <2>2. a \in DOMAIN approvals /\ a \in Nat
    BY DEF LatestPending, Pending, TypeInv, TypeOK
  <2>3. [pc |-> "found", task |-> t, approval |-> a, verdict |-> v] \in GoodRequest
    BY <2>2 DEF GoodRequest, Request
  <2> QED BY <1>1, <2>1, <2>2, <2>3, RequestTyped DEF storeVars
<1> QED BY <1>3, <1>4

LEMMA LockTyped ==
  ASSUME TypeInv, NEW c \in Clients, DecideLock(c) \/ DecideRefused(c)
  PROVE  ClientStepEnds
<1>1. UNCHANGED storeVars
  BY DEF DecideLock, DecideRefused
<1>2. SUFFICES /\ request' \in [Clients -> GoodRequest]
               /\ \A d \in Clients : NamesApproval(request[d])'
  BY <1>1 DEF ClientStepEnds, TypeInv, TypeOK, storeVars
<1>3. CASE DecideLock(c)
  <2> DEFINE q == [request[c] EXCEPT !.pc = "locked"]
  <2>1. request[c] \in GoodRequest /\ request[c].pc = "found"
    BY <1>3 DEF DecideLock, TypeInv
  <2>2. q \in GoodRequest
    BY <2>1 DEF GoodRequest, Request
  <2>3. request[c].approval \in DOMAIN approvals /\ q.approval = request[c].approval
    BY <2>1 DEF TypeInv, NamesApproval, GoodRequest, Request
  <2>4. request' = [request EXCEPT ![c] = q]
    BY <1>3 DEF DecideLock
  <2> QED BY <1>1, <2>2, <2>3, <2>4, RequestTyped DEF storeVars
<1>4. CASE DecideRefused(c)
  BY <1>1, <1>4, NoRequestGood, RequestTyped DEF DecideRefused, storeVars
<1> QED BY <1>3, <1>4

LEMMA CommitTyped ==
  ASSUME TypeInv, NEW c \in Clients, CancelCommit(c) \/ DecideCommit(c)
  PROVE  ClientStepEnds
<1> DEFINE q == request[c]
           a == approvals[q.approval]
<1>1. /\ q \in GoodRequest /\ q.pc \in {"cancelling", "locked"} /\ q.task \in Tasks
      /\ q.verdict \in Verdicts
  BY DEF TypeInv, CancelCommit, DecideCommit, GoodRequest, Request
<1>2. DecisionTarget(q.verdict) \in TaskState /\ "CANCELLED" \in TaskState
  BY DEF DecisionTarget, TaskState
<1>3. tasks' \in [Tasks -> TaskRow] /\ visited' \in [Tasks -> SUBSET TaskState]
  BY <1>1, <1>2, SetStateTyped DEF CancelCommit, DecideCommit, TypeInv, TypeOK
<1>4. CASE CancelCommit(c)
  BY <1>3, <1>4, NoRequestGood, RequestTyped
  DEF CancelCommit, ClientStepEnds, TypeInv, TypeOK
<1>5. CASE DecideCommit(c)
  <2>1. q.approval \in DOMAIN approvals /\ approvals \in Seq(Approval)
    BY <1>5 DEF DecideCommit, TypeInv, TypeOK, NamesApproval
  <2>2. a \in Approval
    BY <2>1, ElementOfSeq
  <2>3. [a EXCEPT !.status = q.verdict] \in Approval
    BY <1>1, <2>2 DEF Approval, Verdicts
  <2>4. approvals' = [approvals EXCEPT ![q.approval] = [a EXCEPT !.status = q.verdict]]
    BY <1>5 DEF DecideCommit
  <2>5. approvals' \in Seq(Approval) /\ DOMAIN approvals' = DOMAIN approvals
    BY <2>1, <2>3, <2>4, ExceptSeq
  <2>6. approvedOnce' \subseteq Tasks \X StepNames \X Agents
    BY <1>5, <2>2 DEF DecideCommit, TypeInv, TypeOK, Approval
  <2>7. /\ request' \in [Clients -> GoodRequest]
        /\ \A d \in Clients : NamesApproval(request[d])'
    BY <1>5, <2>5, NoRequestGood, RequestTyped DEF DecideCommit
  <2> QED BY <1>3, <2>5, <2>6, <2>7 DEF ClientStepEnds
<1> QED BY <1>4, <1>5

LEMMA ClientTypeInv ==
  ASSUME TypeInv, ClientNext, UNCHANGED <<runVars, workerVars>>
  PROVE  TypeInv'
<1>1. ClientStepEnds
  BY ReadTyped, LockTyped, CommitTyped DEF ClientNext, Clients, Verdicts
<1>2. request' \in [Clients -> Request]
  BY <1>1 DEF ClientStepEnds, GoodRequest
<1> QED BY <1>1, <1>2 DEF ClientStepEnds, TypeInv, TypeOK, runVars, workerVars

LEMMA CreateTypeInv ==
  ASSUME TypeInv, NEW t \in Tasks, CreateTask(t),
         UNCHANGED <<runVars, workerVars, apiVars>>
  PROVE  TypeInv'
<1>1. "CREATED" \in TaskState
  BY DEF TaskState
<1>2. tasks' \in [Tasks -> TaskRow] /\ visited' \in [Tasks -> SUBSET TaskState]
  BY <1>1, SetStateTyped DEF CreateTask, TypeInv, TypeOK
<1> QED
  BY <1>2 DEF CreateTask, TypeInv, TypeOK, NamesApproval, runVars, workerVars, apiVars

LEMMA InitTypeInv == Init => TypeInv
<1> SUFFICES ASSUME Init PROVE TypeInv
  OBVIOUS
<1>1. NoRow \in TaskRow
  BY DEF NoRow, TaskRow
<1>2. tasks \in [Tasks -> TaskRow] /\ visited \in [Tasks -> SUBSET TaskState]
  BY <1>1 DEF Init, StoreInit
<1>3. approvals \in Seq(Approval) /\ approvedOnce = {} /\ performed = {}
  BY EmptySeq DEF Init, StoreInit, RunInit
<1>4. run \in [Runners -> [Tasks -> GoodRun]] /\ run \in [Runners -> [Tasks -> Run]]
  BY IdleRunGood DEF Init, RunInit, GoodRun
<1>5. /\ batch \in [Workers -> SUBSET Tasks]
      /\ crashes \in 0..MaxCrashes /\ resumes \in 0..MaxResumes
  BY WorkerAssumption DEF Init, WorkerInit
<1>6. /\ request \in [Clients -> GoodRequest] /\ request \in [Clients -> Request]
      /\ \A c \in Clients : NamesApproval(request[c])
  BY NoRequestGood DEF Init, ApiInit, NamesApproval, GoodRequest
<1> QED BY <1>2, <1>3, <1>4, <1>5, <1>6 DEF TypeInv, TypeOK

LEMMA NextTypeInv == TypeInv /\ [Next]_vars => TypeInv'
<1> SUFFICES ASSUME TypeInv, [Next]_vars PROVE TypeInv'
  OBVIOUS
<1>1. CASE UNCHANGED vars
  BY <1>1 DEF vars, storeVars, runVars, workerVars, apiVars, TypeInv, TypeOK,
              NamesApproval
<1>2. CASE WorkerNext /\ UNCHANGED apiVars
  <2>1. CASE \E w \in Runners, t \in Tasks : RunStep(w, t) /\ UNCHANGED workerVars
    BY <1>2, <2>1, RunStepTyped, RunStepTypeInv
  <2> QED BY <1>2, <2>1, WorkerTypeInv DEF WorkerNext
<1>3. CASE ClientNext /\ UNCHANGED <<runVars, workerVars>>
  BY <1>3, ClientTypeInv
<1>4. CASE (\E t \in Tasks : CreateTask(t)) /\ UNCHANGED <<runVars, workerVars, apiVars>>
  BY <1>4, CreateTypeInv
<1> QED BY <1>1, <1>2, <1>3, <1>4 DEF Next

LEMMA TypeInvInvariant == Spec => []TypeInv
BY InitTypeInv, NextTypeInv, PTL DEF Spec

\* Every row, session copy, plan in hand and request stays well typed whatever
\* workers, callers and clients interleave: nothing indexes a plan or the
\* approvals table out of range.
THEOREM TypeCorrect == Spec => []TypeOK
<1>1. TypeInv => TypeOK
  BY DEF TypeInv
<1> QED BY <1>1, TypeInvInvariant, PTL

-----------------------------------------------------------------------------
(* The approval gate.  GateHonoured speaks of the steps performed; what     *)
(* makes it inductive is where a grant can come from: an approved row was   *)
(* approved by a decision, and a run holds the name of a step only because  *)
(* it read it in an approved row.                                           *)

Granted(t, name) == \E agent \in Agents : <<t, name, agent>> \in approvedOnce

ApprovedByDecision ==
  \A a \in DOMAIN approvals :
    approvals[a].status = "approved"
      => <<approvals[a].task, approvals[a].action, approvals[a].target>> \in approvedOnce

GrantsReadFromRows ==
  \A w \in Runners, t \in Tasks : \A name \in run[w][t].granted : Granted(t, name)

GateInv == ApprovedByDecision /\ GrantsReadFromRows /\ GateHonoured

\* The names a run reads from approved rows were approved.
LEMMA ApprovedActionsGranted ==
  ASSUME TypeInv, ApprovedByDecision, NEW t \in Tasks, NEW name \in ApprovedActions(t)
  PROVE  Granted(t, name)
<1>1. PICK a \in DOMAIN approvals : /\ approvals[a].task = t
                                   /\ approvals[a].status = "approved"
                                   /\ approvals[a].action = name
  BY DEF ApprovedActions
<1>2. approvals[a] \in Approval
  BY ElementOfSeq DEF TypeInv, TypeOK
<1> QED BY <1>1, <1>2 DEF ApprovedByDecision, Granted, Approval

\* No step gives a run a name that it neither held nor read in an approved row.
NoNewGrants ==
  \A v \in Runners, u \in Tasks :
    run'[v][u].granted \subseteq run[v][u].granted \cup ApprovedActions(u)

LEMMA BecomeGrants ==
  ASSUME TypeInv, NEW w \in Runners, NEW t \in Tasks, NEW rec, Become(w, t, rec),
         rec.granted \subseteq run[w][t].granted \cup ApprovedActions(t)
  PROVE  NoNewGrants
BY DEF NoNewGrants, Become, TypeInv

LEMMA GotoGrants ==
  ASSUME TypeInv, NEW w \in Runners, NEW t \in Tasks, NEW pc, Goto(w, t, pc)
  PROVE  NoNewGrants
<1> DEFINE rec == [run[w][t] EXCEPT !.pc = pc]
<1>1. rec.granted = run[w][t].granted
  BY DEF TypeInv, TypeOK, Run
<1>2. Become(w, t, rec)
  BY DEF Goto, Become
<1> QED BY <1>1, <1>2, BecomeGrants

LEMMA WalkToGrants ==
  ASSUME NEW rec \in Run, NEW g
  PROVE  WalkTo(rec, g).granted = rec.granted
BY DEF WalkTo, Run

LEMMA RunStepGrants ==
  ASSUME TypeInv, NEW w \in Runners, NEW t \in Tasks, RunStep(w, t)
  PROVE  NoNewGrants
<1> DEFINE rec == run[w][t]
<1>1. rec \in Run /\ tasks[t] \in TaskRow
  BY DEF TypeInv, TypeOK
<1>2. ASSUME NEW pc, Goto(w, t, pc)
      PROVE  NoNewGrants
  BY <1>2, GotoGrants
<1>3. ASSUME Become(w, t, IdleRun)
      PROVE  NoNewGrants
  BY <1>3, BecomeGrants DEF IdleRun
<1>4. CASE Load(w, t)
  <2> DEFINE new == [rec EXCEPT !.row = tasks[t]]
  <2>1. new \in Run
    BY <1>1 DEF Run
  <2>2. new.granted = rec.granted /\ [new EXCEPT !.pc = "plan"].granted = rec.granted
    BY <1>1 DEF Run
  <2>3. WalkTo(new, "PLANNING").granted = rec.granted
    BY <2>1, <2>2, WalkToGrants
  <2>4. Become(w, t, WalkTo(new, "PLANNING")) \/ Become(w, t, [new EXCEPT !.pc = "plan"])
    BY <1>4 DEF Load
  <2> QED BY <2>2, <2>3, <2>4, BecomeGrants
<1>5. CASE Refresh(w, t) \/ RefreshPlanned(w, t) \/ RefreshAsked(w, t)
  <2>1. CASE Refresh(w, t)
    <3> DEFINE new == [rec EXCEPT !.row = tasks[t], !.path = Tail(@), !.pc = "walk"]
    <3>1. new.granted = rec.granted
      BY <1>1 DEF Run
    <3> QED BY <2>1, <3>1, BecomeGrants DEF Refresh
  <2>2. ASSUME NEW pc, Become(w, t, [rec EXCEPT !.row = tasks[t], !.pc = pc])
        PROVE  NoNewGrants
    <3>1. [rec EXCEPT !.row = tasks[t], !.pc = pc].granted = rec.granted
      BY <1>1 DEF Run
    <3> QED BY <2>2, <3>1, BecomeGrants
  <2> QED BY <1>5, <2>1, <2>2, Zenon DEF RefreshPlanned, RefreshAsked
<1>6. CASE PlanCached(w, t) \/ \E p \in Plans : PlanMade(w, t, p)
  <2>1. PICK p, pc : Become(w, t, [rec EXCEPT !.plan = p, !.pc = pc])
    BY <1>6, Zenon DEF PlanCached, PlanMade
  <2>2. [rec EXCEPT !.plan = p, !.pc = pc].granted = rec.granted
    BY <1>1 DEF Run
  <2> QED BY <2>1, <2>2, BecomeGrants
<1>7. CASE Snapshot(w, t)
  <2> DEFINE new == [rec EXCEPT !.granted = ApprovedActions(t)]
  <2>1. WalkTo(new, "EXECUTING").granted = ApprovedActions(t)
    BY <1>1 DEF WalkTo, Run
  <2> QED BY <1>7, <2>1, BecomeGrants DEF Snapshot
<1>8. CASE AskRefused(w, t)
  <2>1. [rec EXCEPT !.asking = TRUE, !.pc = "fail"].granted = rec.granted
    BY <1>1 DEF Run
  <2> QED BY <1>8, <2>1, BecomeGrants DEF AskRefused
<1>9. CASE StepSucceeds(w, t)
  <2>1. [rec EXCEPT !.done = @ + 1, !.pc = "step"].granted = rec.granted
    BY <1>1 DEF Run
  <2> QED BY <1>9, <2>1, BecomeGrants DEF StepSucceeds
<1>10. CASE Arrive(w, t) \/ PlanDone(w, t)
  <2>1. ASSUME NEW g, Become(w, t, WalkTo(rec, g))
        PROVE  NoNewGrants
    BY <1>1, <2>1, WalkToGrants, BecomeGrants
  <2> QED BY <1>2, <1>10, <2>1 DEF Arrive, PlanDone
<1>11. CASE Walk(w, t) \/ WalkRefused(w, t) \/ LimitReached(w, t) \/ AskApproval(w, t)
            \/ StepBegin(w, t) \/ NoGraph(w, t) \/ StepFails(w, t) \/ Handle(w, t)
  BY <1>2, <1>3, <1>11
  DEF Walk, WalkRefused, LimitReached, AskApproval, StepBegin, NoGraph, StepFails, Handle
<1>12. CASE PlannerFails(w, t) \/ PersistResult(w, t) \/ Pause(w, t)
            \/ HandleRefused(w, t) \/ PersistError(w, t)
  BY <1>3, <1>12 DEF PlannerFails, PersistResult, Pause, HandleRefused, PersistError
<1> QED
  BY <1>4, <1>5, <1>6, <1>7, <1>8, <1>9, <1>10, <1>11, <1>12 DEF RunStep

\* What a run of t adds to the approvals table is pending, and about t.
NewRowsPending(t) ==
  \A a \in DOMAIN approvals' :
    \/ a \in DOMAIN approvals /\ approvals'[a] = approvals[a]
    \/ approvals'[a].status = "pending" /\ approvals'[a].task = t

LEMMA AppendPending ==
  ASSUME TypeInv, NEW t \in Tasks, NEW step,
         approvals' = Append(approvals, PendingApproval(t, step))
  PROVE  NewRowsPending(t)
BY DEF NewRowsPending, PendingApproval, TypeInv, TypeOK

LEMMA RunStepRows ==
  ASSUME TypeInv, NEW w \in Runners, NEW t \in Tasks, RunStep(w, t)
  PROVE  NewRowsPending(t) /\ approvedOnce' = approvedOnce
<1>1. CASE AskApproval(w, t)
  BY <1>1, AppendPending DEF AskApproval
<1>2. CASE Handle(w, t)
  <2>1. CASE run[w][t].asking
    BY <1>2, <2>1, AppendPending DEF Handle
  <2>2. CASE ~run[w][t].asking
    BY <1>2, <2>2 DEF Handle, NewRowsPending
  <2> QED BY <1>2, <2>1, <2>2 DEF Handle
<1>3. CASE UNCHANGED <<approvals, approvedOnce>>
  BY <1>3 DEF NewRowsPending
<1>4. CASE ~AskApproval(w, t) /\ ~Handle(w, t)
  <2>1. UNCHANGED <<approvals, approvedOnce>>
    BY <1>4, RunStepLeaves
  <2> QED BY <1>3, <2>1
<1> QED BY <1>1, <1>2, <1>4

\* A run performs a step that requires approval only with its name granted.
LEMMA RunStepPerforms ==
  ASSUME TypeInv, GateInv, NEW w \in Runners, NEW t \in Tasks, RunStep(w, t)
  PROVE  \A e \in performed' :
           e \in performed \/ (e.step.requires_approval => Granted(e.task, e.step.name))
<1>1. CASE StepBegin(w, t)
  <2> DEFINE e == [task |-> t, step |-> CurrentStep(w, t)]
  <2>1. performed' = performed \cup {e}
    BY <1>1 DEF StepBegin
  <2>2. CurrentStep(w, t).requires_approval => CurrentStep(w, t).name \in run[w][t].granted
    BY <1>1 DEF StepBegin, NeedsApproval
  <2>3. CurrentStep(w, t).requires_approval => Granted(t, CurrentStep(w, t).name)
    BY <2>2 DEF GateInv, GrantsReadFromRows
  <2> QED BY <2>1, <2>3
<1>2. CASE ~StepBegin(w, t)
  BY <1>2, RunStepLeaves
<1> QED BY <1>1, <1>2

LEMMA RunStepGate ==
  ASSUME TypeInv, GateInv, NEW w \in Runners, NEW t \in Tasks, RunStep(w, t)
  PROVE  GateInv'
<1>1. NewRowsPending(t) /\ approvedOnce' = approvedOnce /\ NoNewGrants
  BY RunStepRows, RunStepGrants
<1>2. ApprovedByDecision'
  BY <1>1 DEF NewRowsPending, GateInv, ApprovedByDecision
<1>3. \A u, name : Granted(u, name)' <=> Granted(u, name)
  BY <1>1 DEF Granted
<1>4. ASSUME NEW v \in Runners, NEW u \in Tasks, NEW name \in run'[v][u].granted
      PROVE  Granted(u, name)'
  BY <1>1, <1>3, ApprovedActionsGranted DEF NoNewGrants, GateInv, GrantsReadFromRows
<1>5. GrantsReadFromRows'
  BY <1>4 DEF GrantsReadFromRows
<1>6. GateHonoured'
  BY <1>3, RunStepPerforms DEF GateInv, GateHonoured, Granted
<1> QED BY <1>2, <1>5, <1>6 DEF GateInv

\* Workers only ever start runs, or drop them, with nothing granted.
LEMMA WorkerGate ==
  ASSUME TypeInv, GateInv,
         \/ \E w \in Workers : PollSelect(w) \/ PollClaim(w) \/ Crash(w)
         \/ \E c \in Callers, t \in Tasks : Resume(c, t)
  PROVE  GateInv'
<1>1. UNCHANGED <<approvals, approvedOnce, performed>>
  BY DEF PollSelect, PollClaim, Crash, Resume, storeVars, runVars
<1>2. IdleRun.granted = {} /\ [IdleRun EXCEPT !.pc = "load"].granted = {}
  BY DEF IdleRun
<1>3. ASSUME NEW v \in Runners, NEW u \in Tasks
      PROVE  run'[v][u].granted = {} \/ run'[v][u] = run[v][u]
  <2>0. run \in [Runners -> [Tasks -> GoodRun]]
    BY DEF TypeInv
  <2>1. ASSUME NEW w \in Workers, PollSelect(w)
        PROVE  run'[v][u] = run[v][u]
    BY <2>1 DEF PollSelect, runVars
  <2>2. ASSUME NEW w \in Workers, PollClaim(w)
        PROVE  run'[v][u].granted = {} \/ run'[v][u] = run[v][u]
    BY <1>2, <2>0, <2>2 DEF PollClaim
  <2>3. ASSUME NEW w \in Workers, Crash(w)
        PROVE  run'[v][u].granted = {} \/ run'[v][u] = run[v][u]
    BY <1>2, <2>0, <2>3 DEF Crash
  <2>4. ASSUME NEW c \in Callers, NEW t \in Tasks, Resume(c, t)
        PROVE  run'[v][u].granted = {} \/ run'[v][u] = run[v][u]
    BY <1>2, <2>0, <2>4 DEF Resume, Become
  <2> QED BY <2>1, <2>2, <2>3, <2>4
<1>4. ASSUME NEW v \in Runners, NEW u \in Tasks, NEW name \in run'[v][u].granted
      PROVE  Granted(u, name)'
  BY <1>1, <1>3 DEF GateInv, GrantsReadFromRows, Granted
<1> QED
  BY <1>1, <1>4 DEF GateInv, ApprovedByDecision, GrantsReadFromRows, GateHonoured

\* A decision records itself in the transaction that approves the row.
LEMMA ClientGate ==
  ASSUME TypeInv, GateInv, ClientNext, UNCHANGED runVars
  PROVE  GateInv'
<1>1. CASE UNCHANGED <<approvals, approvedOnce>>
  BY <1>1 DEF GateInv, ApprovedByDecision, GrantsReadFromRows, GateHonoured, Granted,
              runVars
<1>2. ASSUME NEW c \in Clients, DecideCommit(c)
      PROVE  GateInv'
  <2> DEFINE q == request[c]
             a == approvals[q.approval]
  <2>1. /\ q.approval \in DOMAIN approvals /\ approvals \in Seq(Approval)
        /\ a \in Approval
    BY <1>2, ElementOfSeq DEF DecideCommit, TypeInv, TypeOK, NamesApproval
  <2>2. /\ approvals' = [approvals EXCEPT ![q.approval].status = q.verdict]
        /\ approvedOnce \subseteq approvedOnce'
        /\ q.verdict = "approved" => <<a.task, a.action, a.target>> \in approvedOnce'
    BY <1>2 DEF DecideCommit
  <2>3. ApprovedByDecision'
    <3>1. ASSUME NEW b \in DOMAIN approvals', approvals'[b].status = "approved"
          PROVE  <<approvals'[b].task, approvals'[b].action, approvals'[b].target>>
                   \in approvedOnce'
      <4>1. DOMAIN approvals' = DOMAIN approvals
        BY <2>1, <2>2
      <4>2. CASE b = q.approval
        BY <2>1, <2>2, <3>1, <4>2 DEF Approval
      <4>3. CASE b # q.approval
        BY <2>1, <2>2, <3>1, <4>1, <4>3 DEF GateInv, ApprovedByDecision
      <4> QED BY <4>2, <4>3
    <3> QED BY <3>1 DEF ApprovedByDecision
  <2>4. GrantsReadFromRows' /\ GateHonoured'
    BY <2>2 DEF GateInv, GrantsReadFromRows, GateHonoured, Granted, runVars
  <2> QED BY <2>3, <2>4 DEF GateInv
<1> QED
  BY <1>1, <1>2, Zenon
  DEF ClientNext, CancelCommit, CancelRead, DecideFind, DecideLock, DecideRefused,
      storeVars, Clients

LEMMA NextGateInv == TypeInv /\ GateInv /\ [Next]_vars => GateInv'
<1> SUFFICES ASSUME TypeInv, GateInv, [Next]_vars PROVE GateInv'
  OBVIOUS
<1>1. CASE WorkerNext
  BY <1>1, WorkerGate, RunStepGate DEF WorkerNext
<1>2. CASE ClientNext /\ UNCHANGED <<runVars, workerVars>>
  BY <1>2, ClientGate
<1>3. CASE UNCHANGED <<approvals, approvedOnce, runVars>>
  BY <1>3 DEF GateInv, ApprovedByDecision, GrantsReadFromRows, GateHonoured, Granted,
              runVars
<1> QED
  BY <1>1, <1>2, <1>3 DEF Next, CreateTask, vars, storeVars

\* No subgraph is ever invoked for a step that requires approval unless a human
\* approved an action of that name for that task: for any number of workers,
\* callers and clients, any plans, cancellations, re-runs and crashes.
THEOREM GateAlwaysHonoured == Spec => []GateHonoured
<1>1. Init => GateInv
  BY DEF Init, StoreInit, RunInit, IdleRun, GateInv, ApprovedByDecision,
         GrantsReadFromRows, GateHonoured
<1>2. GateInv => GateHonoured
  BY DEF GateInv
<1> QED BY <1>1, <1>2, NextGateInv, TypeInvInvariant, PTL DEF Spec

-----------------------------------------------------------------------------
(* What a run may do to the set of active runs.                             *)

\* A step of a run is a step of one that had not ended, and touches no other.
LEMMA RunStepTouches ==
  ASSUME TypeInv, NEW w \in Runners, NEW t \in Tasks, RunStep(w, t)
  PROVE  /\ run[w][t].pc # "idle"
         /\ \A v \in Runners, u \in Tasks : <<v, u>> # <<w, t>> => run'[v][u] = run[v][u]
<1>0. run \in [Runners -> [Tasks -> GoodRun]]
  BY DEF TypeInv
<1>1. ASSUME \/ \E rec : Become(w, t, rec)
             \/ \E pc : Goto(w, t, pc)
      PROVE  \A v \in Runners, u \in Tasks : <<v, u>> # <<w, t>> => run'[v][u] = run[v][u]
  BY <1>0, <1>1 DEF Become, Goto
<1>7. SUFFICES \/ \E rec : Become(w, t, rec)
               \/ \E pc : Goto(w, t, pc)
  BY <1>1, RunStepPlaces
<1>2. CASE Load(w, t) \/ Walk(w, t) \/ Refresh(w, t) \/ WalkRefused(w, t) \/ Arrive(w, t)
  BY <1>2 DEF Load, Walk, Refresh, WalkRefused, Arrive
<1>3. CASE \/ PlanCached(w, t) \/ (\E p \in Plans : PlanMade(w, t, p)) \/ PlannerFails(w, t)
           \/ RefreshPlanned(w, t) \/ Snapshot(w, t)
  BY <1>3, Zenon DEF PlanCached, PlanMade, PlannerFails, RefreshPlanned, Snapshot
<1>4. CASE LimitReached(w, t) \/ AskApproval(w, t) \/ AskRefused(w, t) \/ StepBegin(w, t) \/ NoGraph(w, t)
  BY <1>4 DEF LimitReached, AskApproval, AskRefused, StepBegin, NoGraph
<1>5. CASE StepSucceeds(w, t) \/ StepFails(w, t) \/ PlanDone(w, t) \/ PersistResult(w, t)
  BY <1>5 DEF StepSucceeds, StepFails, PlanDone, PersistResult
<1>6. CASE RefreshAsked(w, t) \/ Pause(w, t) \/ Handle(w, t) \/ HandleRefused(w, t) \/ PersistError(w, t)
  BY <1>6 DEF RefreshAsked, Pause, Handle, HandleRefused, PersistError
<1> QED BY <1>2, <1>3, <1>4, <1>5, <1>6 DEF RunStep

\* The first n members of a set of ids are at most n.
LEMMA OldestBound ==
  ASSUME NEW S \in SUBSET Nat, NEW n \in Int
  PROVE  /\ IsFiniteSet(Oldest(S, n))
         /\ Cardinality(Oldest(S, n)) <= IF n > 0 THEN n ELSE 0
<1> DEFINE O == Oldest(S, n)
           Before(x) == {u \in S : u < x}
<1>1. \A x \in S : IsFiniteSet(Before(x)) /\ Cardinality(Before(x)) \in Nat
  <2> SUFFICES ASSUME NEW x \in S PROVE IsFiniteSet(Before(x)) /\ Cardinality(Before(x)) \in Nat
    OBVIOUS
  <2>0. x \in Nat /\ \A u \in S : u \in Nat
    OBVIOUS
  <2>1. Before(x) \subseteq 0..x
    <3>1. \A u \in Nat : u < x => u \in 0..x
      BY <2>0
    <3> QED BY <2>0, <3>1
  <2>2. IsFiniteSet(0..x)
    BY <2>0, FS_Interval
  <2>3. IsFiniteSet(Before(x))
    BY <2>1, <2>2, FS_Subset
  <2> QED BY <2>3, FS_CardinalityType
<1>2. \A x \in O : x \in S /\ Cardinality(Before(x)) < n
  BY DEF Oldest
<1> HIDE DEF O
<1>3. CASE n > 0
  <2> DEFINE f == [x \in O |-> Cardinality(Before(x))]
  <2>1. f \in [O -> 0..(n - 1)]
    <3> HIDE DEF Before
    <3>1. \A x \in O : Cardinality(Before(x)) \in 0..(n - 1)
      <4>1. \A x \in O : Cardinality(Before(x)) \in Nat /\ Cardinality(Before(x)) < n
        BY <1>1, <1>2
      <4> QED BY <1>3, <4>1
    <3> QED BY <3>1
  <2>2. ASSUME NEW x \in O, NEW y \in O, x < y PROVE f[x] < f[y]
    <3>1. /\ x \in S /\ y \in S /\ x \in Nat /\ y \in Nat
      BY <1>2
    <3>2. Before(x) \subseteq Before(y) /\ x \in Before(y) /\ x \notin Before(x)
      <4>1. \A u \in S : u \in Nat
        OBVIOUS
      <4>2. \A u \in S : u < x => u < y
        BY <2>2, <3>1, <4>1
      <4>3. x \notin Before(x)
        BY <3>1
      <4> QED BY <2>2, <3>1, <4>2, <4>3
    <3>3. /\ Cardinality(Before(x)) <= Cardinality(Before(y))
          /\ Cardinality(Before(y)) = Cardinality(Before(x)) => Before(y) = Before(x)
      BY <1>1, <3>1, <3>2, FS_Subset
    <3>4. Cardinality(Before(x)) \in Nat /\ Cardinality(Before(y)) \in Nat
      BY <1>1, <3>1
    <3> HIDE DEF Before
    <3> QED BY <3>2, <3>3, <3>4
  <2>3. ASSUME NEW x \in O, NEW y \in O, f[x] = f[y] PROVE x = y
    <3>1. x \in Nat /\ y \in Nat /\ f[x] \in Nat /\ f[y] \in Nat
      BY <1>1, <1>2
    <3>2. ~(x < y) /\ ~(y < x)
      <4> HIDE DEF f
      <4> QED BY <2>2, <2>3, <3>1
    <3> QED BY <3>1, <3>2
  <2> HIDE DEF f
  <2>4. f \in Injection(O, 0..(n - 1))
    BY <2>1, <2>3 DEF Injection, IsInjective
  <2>5. IsFiniteSet(0..(n - 1)) /\ Cardinality(0..(n - 1)) = n
    BY <1>3, FS_Interval
  <2>6. IsFiniteSet(O) /\ Cardinality(O) <= Cardinality(0..(n - 1))
    BY <2>4, <2>5, FS_Injection
  <2> QED BY <1>3, <2>5, <2>6 DEF O
<1>4. CASE ~(n > 0)
  <2>1. O = {}
    <3> HIDE DEF Before
    <3>1. \A x \in O : Cardinality(Before(x)) \in Nat /\ Cardinality(Before(x)) < n
      BY <1>1, <1>2
    <3> QED BY <1>4, <3>1
  <2> QED BY <1>4, <2>1, FS_EmptySet DEF O
<1> QED BY <1>3, <1>4

CapacityInv == \A w \in Workers : IsFiniteSet(Active(w)) /\ Cardinality(Active(w)) <= MaxConcurrent

\* Fewer runs keep the bound.
LEMMA ShrinkKeepsCapacity ==
  ASSUME CapacityInv, NEW w \in Workers, Active(w)' \subseteq Active(w)
  PROVE  IsFiniteSet(Active(w))' /\ (Cardinality(Active(w)) <= MaxConcurrent)'
<1>1. IsFiniteSet(Active(w)') /\ Cardinality(Active(w)') <= Cardinality(Active(w))
  BY FS_Subset DEF CapacityInv
<1>2. Cardinality(Active(w)') \in Nat /\ Cardinality(Active(w)) \in Nat
  BY <1>1, FS_CardinalityType DEF CapacityInv
<1> QED BY <1>1, <1>2, WorkerAssumption DEF CapacityInv

LEMMA CapacityStep == TypeInv /\ CapacityInv /\ [Next]_vars => CapacityInv'
<1> SUFFICES ASSUME TypeInv, CapacityInv, [Next]_vars, NEW w \in Workers
             PROVE  IsFiniteSet(Active(w))' /\ (Cardinality(Active(w)) <= MaxConcurrent)'
  BY DEF CapacityInv
<1>0. run \in [Runners -> [Tasks -> GoodRun]] /\ w \in Runners
  BY DEF TypeInv, Runners
<1>1. CASE UNCHANGED run
  <2>1. Active(w)' \subseteq Active(w)
    BY <1>1 DEF Active, At
  <2> QED BY <2>1, ShrinkKeepsCapacity
<1>2. ASSUME NEW v \in Workers, PollClaim(v)
      PROVE  IsFiniteSet(Active(w))' /\ (Cardinality(Active(w)) <= MaxConcurrent)'
  <2>1. CASE v # w
    <3>1. Active(w)' \subseteq Active(w)
      BY <1>0, <1>2, <2>1 DEF PollClaim, Active, At
    <3> QED BY <3>1, ShrinkKeepsCapacity
  <2>2. CASE v = w
    <3>1. \A t \in Tasks : run'[w][t] = IF t \in Claimed(w) THEN [IdleRun EXCEPT !.pc = "load"]
                                        ELSE run[w][t]
      BY <1>0, <1>2, <2>2 DEF PollClaim
    <3>2. Claimed(w) \subseteq Tasks /\ batch[w] \ Active(w) \in SUBSET Nat
      BY TasksAssumption DEF Claimed, Oldest, TypeInv, TypeOK
    <3>3. Active(w)' = Active(w) \cup Claimed(w)
      <4>1. [IdleRun EXCEPT !.pc = "load"].pc = "load"
        BY DEF IdleRun
      <4> QED BY <3>1, <3>2, <4>1 DEF Active, At
    <3> DEFINE n == MaxConcurrent - Cardinality(Active(w))
    <3>4. Cardinality(Active(w)) \in Nat /\ n \in Nat /\ MaxConcurrent \in Nat
      BY FS_CardinalityType, WorkerAssumption DEF CapacityInv
    <3>5. IsFiniteSet(Claimed(w)) /\ Cardinality(Claimed(w)) <= n
      <4>1. /\ IsFiniteSet(Oldest(batch[w] \ Active(w), n))
            /\ Cardinality(Oldest(batch[w] \ Active(w), n)) <= IF n > 0 THEN n ELSE 0
        BY <3>2, <3>4, OldestBound
      <4> QED BY <3>4, <4>1 DEF Claimed
    <3>6. Active(w) \cap Claimed(w) = {}
      BY DEF Claimed, Oldest
    <3>7. /\ IsFiniteSet(Active(w) \cup Claimed(w))
          /\ Cardinality(Active(w) \cup Claimed(w)) =
               Cardinality(Active(w)) + Cardinality(Claimed(w)) - Cardinality(Active(w) \cap Claimed(w))
      BY <3>5, FS_Union DEF CapacityInv
    <3>8. Cardinality(Active(w) \cap Claimed(w)) = 0 /\ Cardinality(Claimed(w)) \in Nat
      BY <3>5, <3>6, FS_EmptySet, FS_CardinalityType
    <3> HIDE DEF n
    <3>9. Cardinality(Active(w) \cup Claimed(w)) <= MaxConcurrent
      BY <3>4, <3>5, <3>7, <3>8 DEF n
    <3> QED BY <3>3, <3>7, <3>9
  <2> QED BY <2>1, <2>2
<1>3. ASSUME NEW v \in Workers, Crash(v)
      PROVE  IsFiniteSet(Active(w))' /\ (Cardinality(Active(w)) <= MaxConcurrent)'
  <2>1. Active(w)' \subseteq Active(w)
    BY <1>0, <1>3 DEF Crash, Active, At, IdleRun
  <2> QED BY <2>1, ShrinkKeepsCapacity
<1>4. ASSUME NEW c \in Callers, NEW t \in Tasks, Resume(c, t)
      PROVE  IsFiniteSet(Active(w))' /\ (Cardinality(Active(w)) <= MaxConcurrent)'
  <2>1. c # w
    BY RunnersAssumption
  <2>2. Active(w)' \subseteq Active(w)
    BY <1>0, <1>4, <2>1 DEF Resume, Become, Active, At
  <2> QED BY <2>2, ShrinkKeepsCapacity
<1>5. ASSUME NEW v \in Runners, NEW t \in Tasks, RunStep(v, t)
      PROVE  IsFiniteSet(Active(w))' /\ (Cardinality(Active(w)) <= MaxConcurrent)'
  <2>1. /\ run[v][t].pc # "idle"
        /\ \A x \in Runners, u \in Tasks : <<x, u>> # <<v, t>> => run'[x][u] = run[x][u]
    BY <1>5, RunStepTouches
  <2>2. Active(w)' \subseteq Active(w)
    BY <1>0, <2>1 DEF Active, At
  <2> QED BY <2>2, ShrinkKeepsCapacity
<1>6. ASSUME NEW v \in Workers, PollSelect(v) PROVE UNCHANGED run
  BY <1>6 DEF PollSelect, runVars
<1> QED BY <1>1, <1>2, <1>3, <1>4, <1>5, <1>6 DEF Next, WorkerNext, vars, runVars

\* No worker ever runs more tasks than max_concurrent_tasks, whatever the rows
\* of its last SELECT have become and however many workers poll the table.
THEOREM CapacityHolds == Spec => []WorkerCapacity
<1>1. Init => CapacityInv
  <2> SUFFICES ASSUME Init PROVE CapacityInv
    OBVIOUS
  <2>1. \A w \in Workers : Active(w) = {}
    BY DEF Init, RunInit, Active, At, Runners, IdleRun
  <2> QED BY <2>1, FS_EmptySet, WorkerAssumption DEF CapacityInv
<1>2. CapacityInv => WorkerCapacity
  BY DEF CapacityInv, WorkerCapacity
<1> QED BY <1>1, <1>2, CapacityStep, TypeInvInvariant, PTL DEF Spec

-----------------------------------------------------------------------------
(***************************************************************************)
(* No task is stranded.  Somebody is always driving a task in flight: a run *)
(* that has just committed this very state, or that has read it and has the *)
(* way from it still before it.  Its next transition is then never refused, *)
(* and whoever overwrites the state takes the task over.                    *)
(***************************************************************************)
Follows(a, b) == \E i \in 1..8 : HappyPathOrder[i] = a /\ HappyPathOrder[i + 1] = b

\* Each transition of a path follows the one before, and the last is the goal.
Route(path, goal) ==
  /\ \A j \in 1..(Len(path) - 1) : Follows(path[j], path[j + 1])
  /\ path # <<>> => path[Len(path)] = goal

Routed ==
  \A w \in Runners, t \in Tasks :
    run[w][t].pc \in {"walk", "refresh"} => Route(run[w][t].path, run[w][t].goal)

Drives(rec, s) ==
  \/ rec.pc = "refresh" /\ Head(rec.path) = s
  \/ /\ rec.pc = "walk" /\ rec.row.state = s
     /\ IF rec.path = <<>> THEN rec.goal = s ELSE Follows(s, Head(rec.path))

Driven ==
  crashes = 0 =>
    \A t \in InState(InFlightStates) : \E w \in Runners : Drives(run[w][t], tasks[t].state)

\* The happy path only makes transitions that are allowed.
LEMMA FollowsAllowed == ASSUME NEW a, NEW b, Follows(a, b) PROVE CanTransition(a, b)
<1>1. PICK i \in 1..8 : HappyPathOrder[i] = a /\ HappyPathOrder[i + 1] = b
  BY DEF Follows
<1>2. \/ (a = "CREATED" /\ b = "VALIDATING")  \/ (a = "VALIDATING" /\ b = "PLANNING")
      \/ (a = "PLANNING" /\ b = "RESEARCHING")  \/ (a = "RESEARCHING" /\ b = "DRAFTING")
      \/ (a = "DRAFTING" /\ b = "VALIDATING_RESULT")  \/ (a = "VALIDATING_RESULT" /\ b = "EXECUTING")
      \/ (a = "EXECUTING" /\ b = "VERIFYING")  \/ (a = "VERIFYING" /\ b = "COMPLETED")
  <2>1. /\ HappyPathOrder[1] = "CREATED" /\ HappyPathOrder[2] = "VALIDATING"
        /\ HappyPathOrder[3] = "PLANNING" /\ HappyPathOrder[4] = "RESEARCHING"
        /\ HappyPathOrder[5] = "DRAFTING" /\ HappyPathOrder[6] = "VALIDATING_RESULT"
        /\ HappyPathOrder[7] = "EXECUTING" /\ HappyPathOrder[8] = "VERIFYING"
        /\ HappyPathOrder[9] = "COMPLETED"
    BY DEF HappyPathOrder
  <2> DEFINE j == i + 1
  <2>2. HappyPathOrder[j] = b
    BY <1>1
  <2>3. \/ (i = 1 /\ j = 2) \/ (i = 2 /\ j = 3) \/ (i = 3 /\ j = 4) \/ (i = 4 /\ j = 5)
        \/ (i = 5 /\ j = 6) \/ (i = 6 /\ j = 7) \/ (i = 7 /\ j = 8) \/ (i = 8 /\ j = 9)
    BY <1>1
  <2> HIDE DEF j
  <2> QED BY <1>1, <2>1, <2>2, <2>3
<1>3. a \notin TERMINAL_STATES /\ a \in TaskState
  BY <1>2 DEF TERMINAL_STATES, TaskState
<1>4. b \in HappyPath[a]
  BY <1>2 DEF HappyPath
<1> QED BY <1>3, <1>4 DEF CanTransition, AllowedTransitions

\* The path _walk_to computes is a route to its target.
LEMMA WalkPathRoute ==
  ASSUME NEW s, NEW g \in Goals
  PROVE  Route(WalkPath(s, g), g)
<1> DEFINE path == WalkPath(s, g)
<1>0. path \in Seq(TaskState)
  BY WalkPathTyped
<1>1. CASE s = g
  <2>1. path = <<>>
    BY <1>1 DEF WalkPath
  <2> QED BY <2>1 DEF Route
<1>2. CASE s # g /\ ~OnHappyPath(s)
  <2>1. path = <<g>>
    BY <1>2 DEF WalkPath
  <2> QED BY <2>1 DEF Route
<1>3. CASE s # g /\ OnHappyPath(s)
  <2> DEFINE a == PathIndex(s)
             b == PathIndex(g)
  <2>1. OnHappyPath(g)
    <3>1. HappyPathOrder[3] = "PLANNING" /\ HappyPathOrder[7] = "EXECUTING"
          /\ HappyPathOrder[8] = "VERIFYING" /\ HappyPathOrder[9] = "COMPLETED"
      BY DEF HappyPathOrder
    <3> QED BY <3>1, HappyPathTyped DEF OnHappyPath, Goals
  <2>2. a \in 1..9 /\ b \in 1..9 /\ HappyPathOrder[b] = g
    BY <1>3, <2>1, HappyPathTyped DEF OnHappyPath, PathIndex
  <2> HIDE DEF a, b
  <2>3. path = SubSeq(HappyPathOrder, a + 1, b)
    BY <1>3 DEF WalkPath, a, b
  <2>4. \A i \in (a + 1)..b : HappyPathOrder[i] \in TaskState
    <3>1. TAKE i \in (a + 1)..b
    <3>2. i \in 1..9
      BY <2>2
    <3> QED BY <3>2, HappyPathTyped, ElementOfSeq
  <2>5. /\ Len(path) = IF a + 1 <= b THEN b - a ELSE 0
        /\ \A i \in 1..(b - a) : path[i] = HappyPathOrder[a + i]
    <3> HIDE DEF path
    <3>1. /\ Len(path) = IF a + 1 <= b THEN b - (a + 1) + 1 ELSE 0
          /\ \A i \in 1..(b - (a + 1) + 1) : path[i] = HappyPathOrder[(a + 1) + i - 1]
      BY <2>2, <2>3, <2>4, SubSeqProperties
    <3>2. b - (a + 1) + 1 = b - a
      BY <2>2
    <3>3. Len(path) = IF a + 1 <= b THEN b - a ELSE 0
      BY <3>1, <3>2
    <3>4. ASSUME NEW i \in 1..(b - a) PROVE path[i] = HappyPathOrder[a + i]
      <4>1. i \in 1..(b - (a + 1) + 1) /\ (a + 1) + i - 1 = a + i
        BY <2>2, <3>2
      <4>2. path[i] = HappyPathOrder[(a + 1) + i - 1]
        BY <3>1, <4>1
      <4> QED BY <4>1, <4>2
    <3> QED BY <3>3, <3>4
  <2> HIDE DEF path
  <2>6. ASSUME NEW j \in 1..(Len(path) - 1) PROVE Follows(path[j], path[j + 1])
    <3>1. j \in 1..(b - a) /\ j + 1 \in 1..(b - a) /\ a + j \in 1..8 /\ a + (j + 1) = (a + j) + 1
      BY <2>2, <2>5
    <3>2. path[j] = HappyPathOrder[a + j] /\ path[j + 1] = HappyPathOrder[(a + j) + 1]
      BY <2>5, <3>1
    <3> QED BY <3>1, <3>2 DEF Follows
  <2>7. path # <<>> => path[Len(path)] = g
    <3>1. SUFFICES ASSUME path # <<>> PROVE path[Len(path)] = g
      OBVIOUS
    <3>2. Len(path) # 0
      BY <1>0, <3>1, EmptySeq DEF path
    <3>3. Len(path) = b - a /\ b - a \in 1..(b - a) /\ a + (b - a) = b
      BY <2>2, <2>5, <3>2
    <3>4. path[b - a] = HappyPathOrder[a + (b - a)]
      BY <2>5, <3>3
    <3> QED BY <2>2, <3>3, <3>4
  <2> QED BY <2>6, <2>7 DEF Route, path
<1> QED BY <1>1, <1>2, <1>3

\* From VERIFYING the path to COMPLETED is the one transition.
LEMMA LastPath == WalkPath("VERIFYING", "COMPLETED") = <<"COMPLETED">>
<1>1. /\ HappyPathOrder[1] = "CREATED" /\ HappyPathOrder[2] = "VALIDATING"
      /\ HappyPathOrder[3] = "PLANNING" /\ HappyPathOrder[4] = "RESEARCHING"
      /\ HappyPathOrder[5] = "DRAFTING" /\ HappyPathOrder[6] = "VALIDATING_RESULT"
      /\ HappyPathOrder[7] = "EXECUTING" /\ HappyPathOrder[8] = "VERIFYING"
      /\ HappyPathOrder[9] = "COMPLETED"
  BY DEF HappyPathOrder
<1>2. \A i \in 1..9 : i \in {1, 2, 3, 4, 5, 6, 7, 8, 9}
  OBVIOUS
<1>3. /\ \E i \in 1..9 : HappyPathOrder[i] = "VERIFYING"
      /\ \E i \in 1..9 : HappyPathOrder[i] = "COMPLETED"
  BY <1>1
<1>4. PathIndex("VERIFYING") \in 1..9 /\ HappyPathOrder[PathIndex("VERIFYING")] = "VERIFYING"
      /\ PathIndex("COMPLETED") \in 1..9 /\ HappyPathOrder[PathIndex("COMPLETED")] = "COMPLETED"
  BY <1>3, HappyPathTyped DEF PathIndex
<1>5. PathIndex("VERIFYING") = 8 /\ PathIndex("COMPLETED") = 9
  BY <1>1, <1>2, <1>4
<1>6. OnHappyPath("VERIFYING")
  BY <1>3, HappyPathTyped DEF OnHappyPath
<1>7. WalkPath("VERIFYING", "COMPLETED") = SubSeq(HappyPathOrder, 9, 9)
  BY <1>5, <1>6 DEF WalkPath
<1>8. \A i \in 9..9 : HappyPathOrder[i] \in TaskState
  BY <1>1 DEF TaskState
<1> DEFINE p == WalkPath("VERIFYING", "COMPLETED")
<1> HIDE DEF p
<1>9. p \in Seq(TaskState) /\ Len(p) = 1 /\ p[1] = "COMPLETED"
  <2>1. /\ p \in Seq(TaskState) /\ Len(p) = IF 9 <= 9 THEN 9 - 9 + 1 ELSE 0
        /\ \A i \in 1..(9 - 9 + 1) : p[i] = HappyPathOrder[9 + i - 1]
    BY <1>7, <1>8, SubSeqProperties DEF p
  <2> QED BY <1>1, <2>1
<1> QED BY <1>9 DEF p

\* One transition made leaves a route to the same goal.
LEMMA TailRoute ==
  ASSUME NEW path \in Seq(TaskState), NEW goal, path # <<>>, Route(path, goal)
  PROVE  /\ Route(Tail(path), goal)
         /\ IF Tail(path) = <<>> THEN goal = Head(path) ELSE Follows(Head(path), Head(Tail(path)))
<1> DEFINE rest == Tail(path)
<1>1. /\ rest \in Seq(TaskState) /\ Len(rest) = Len(path) - 1 /\ Len(path) \in Nat /\ Len(path) >= 1
      /\ \A i \in 1..Len(rest) : rest[i] = path[i + 1]
      /\ Head(path) = path[1]
  BY HeadTailProperties, EmptySeq, LenProperties
<1> HIDE DEF rest
<1>2. CASE Len(rest) = 0
  <2>1. rest = <<>> /\ Len(path) = 1
    BY <1>1, <1>2
  <2>2. path[1] = goal
    BY <2>1 DEF Route
  <2>3. Route(rest, goal)
    BY <2>1 DEF Route
  <2> QED BY <1>1, <2>1, <2>2, <2>3 DEF rest
<1>3. CASE Len(rest) # 0
  <2>1. rest # <<>> /\ Len(rest) >= 1 /\ Head(rest) = rest[1] /\ rest[1] = path[2]
        /\ Follows(path[1], path[2])
    <3>1. rest # <<>> /\ Len(rest) \in 1..Len(rest) /\ 1 \in 1..Len(rest) /\ 1 \in 1..(Len(path) - 1)
      BY <1>1, <1>3
    <3>2. rest[1] = path[1 + 1] /\ Follows(path[1], path[1 + 1])
      BY <1>1, <3>1 DEF Route
    <3> QED BY <1>1, <3>1, <3>2
  <2>2. \A j \in 1..(Len(rest) - 1) : Follows(rest[j], rest[j + 1])
    <3> SUFFICES ASSUME NEW j \in 1..(Len(rest) - 1) PROVE Follows(rest[j], rest[j + 1])
      OBVIOUS
    <3>1. j \in 1..Len(rest) /\ j + 1 \in 1..Len(rest) /\ j + 1 \in 1..(Len(path) - 1)
      BY <1>1
    <3> QED BY <1>1, <3>1 DEF Route
  <2>3. rest[Len(rest)] = goal
    <3>1. Len(rest) \in 1..Len(rest) /\ Len(rest) + 1 = Len(path) /\ path # <<>>
      BY <1>1, <1>3
    <3> QED BY <1>1, <3>1 DEF Route
  <2> QED BY <1>1, <2>1, <2>2, <2>3 DEF Route, rest
<1> QED BY <1>2, <1>3

\* Every path in hand stays a route to its goal.
LEMMA RoutedStep == TypeInv /\ Routed /\ [Next]_vars => Routed'
<1> SUFFICES ASSUME TypeInv, Routed, [Next]_vars, NEW v \in Runners, NEW u \in Tasks,
                    run'[v][u].pc \in {"walk", "refresh"}
             PROVE  Route(run'[v][u].path, run'[v][u].goal)
  BY DEF Routed
<1>0. run \in [Runners -> [Tasks -> GoodRun]] /\ run[v][u] \in GoodRun /\ run[v][u] \in Run
  BY DEF TypeInv, TypeOK
<1>1. CASE run'[v][u] = run[v][u]
  BY <1>1 DEF Routed
<1>2. ASSUME run'[v][u].pc \in {"idle", "load"} PROVE FALSE
  BY <1>2
<1>3. IdleRun.pc = "idle" /\ [IdleRun EXCEPT !.pc = "load"].pc = "load"
  BY DEF IdleRun
<1>4. ASSUME NEW w \in Workers, PollSelect(w) \/ PollClaim(w) \/ Crash(w)
      PROVE  run'[v][u] = run[v][u]
  <2>1. PollSelect(w) => run'[v][u] = run[v][u]
    BY DEF PollSelect, runVars
  <2>2. ASSUME PollClaim(w) PROVE run'[v][u] = run[v][u]
    <3>1. \/ run'[v][u] = run[v][u]
          \/ run'[v][u] = [IdleRun EXCEPT !.pc = "load"]
      BY <1>0, <2>2 DEF PollClaim
    <3> QED BY <1>2, <1>3, <3>1
  <2>3. ASSUME Crash(w) PROVE run'[v][u] = run[v][u]
    <3>1. run'[v][u] = run[v][u] \/ run'[v][u] = IdleRun
      BY <1>0, <2>3 DEF Crash
    <3> QED BY <1>2, <1>3, <3>1
  <2> QED BY <1>4, <2>1, <2>2, <2>3
<1>5. ASSUME NEW c \in Callers, NEW t \in Tasks, Resume(c, t)
      PROVE  run'[v][u] = run[v][u]
  BY <1>0, <1>2, <1>3, <1>5 DEF Resume, Become
<1>6. ASSUME NEW w \in Runners, NEW t \in Tasks, RunStep(w, t)
      PROVE  Route(run'[v][u].path, run'[v][u].goal)
  <2>1. CASE <<v, u>> # <<w, t>>
    BY <1>1, <1>6, <2>1, RunStepTouches
  <2>2. CASE v = w /\ u = t
    <3> DEFINE rec == run[v][u]
    <3>1. \A new : Become(v, u, new) => run'[v][u] = new
      BY <1>0 DEF Become
    <3>2. \A pc : Goto(v, u, pc) => run'[v][u] = [rec EXCEPT !.pc = pc]
      BY <1>0 DEF Goto
    <3>3. ASSUME NEW new \in Run, NEW g \in Goals, Become(v, u, WalkTo(new, g))
          PROVE  Route(run'[v][u].path, run'[v][u].goal)
      <4>1. WalkTo(new, g).path = WalkPath(new.row.state, g) /\ WalkTo(new, g).goal = g
        BY <3>3 DEF WalkTo, Run
      <4> QED BY <3>1, <3>3, <4>1, WalkPathRoute
    <3>4. ASSUME NEW new, Become(v, u, new), new.pc \notin {"walk", "refresh"}
          PROVE  FALSE
      BY <3>1, <3>4
    <3>5. ASSUME NEW pc, Goto(v, u, pc), pc \notin {"walk", "refresh"}
          PROVE  FALSE
      <4>1. [rec EXCEPT !.pc = pc].pc = pc
        BY <1>0 DEF Run
      <4> QED BY <3>2, <3>5, <4>1
    <3>6. ASSUME Become(v, u, IdleRun) PROVE FALSE
      BY <1>3, <3>4, <3>6
    <3>7. CASE Load(w, t)
      <4> DEFINE new == [rec EXCEPT !.row = tasks[t]]
      <4>1. new \in Run /\ [new EXCEPT !.pc = "plan"].pc = "plan"
        BY <1>0 DEF TypeInv, TypeOK, Run
      <4> QED BY <2>2, <3>3, <3>4, <3>7, <4>1 DEF Load, Goals
    <3>8. CASE Snapshot(w, t)
      <4> DEFINE new == [rec EXCEPT !.granted = ApprovedActions(t)]
      <4>1. Become(v, u, WalkTo(new, "EXECUTING"))
        BY <2>2, <3>8 DEF Snapshot
      <4>2. WalkTo(new, "EXECUTING").path = WalkPath(new.row.state, "EXECUTING")
            /\ WalkTo(new, "EXECUTING").goal = "EXECUTING"
        BY <1>0 DEF WalkTo, Run
      <4> QED BY <3>1, <4>1, <4>2, WalkPathRoute DEF Goals
    <3>9. CASE Arrive(w, t) \/ PlanDone(w, t)
      BY <1>0, <2>2, <3>3, <3>5, <3>9 DEF Arrive, PlanDone, Goals
    <3>10. CASE Walk(w, t)
      <4>1. run'[v][u].path = rec.path /\ run'[v][u].goal = rec.goal
        BY <1>0, <2>2, <3>2, <3>10 DEF Walk, Run
      <4> QED BY <2>2, <3>10, <4>1 DEF Walk, At, Routed
    <3>11. CASE Refresh(w, t)
      <4> DEFINE new == [rec EXCEPT !.row = tasks[t], !.path = Tail(rec.path), !.pc = "walk"]
      <4>1. run'[v][u] = new /\ rec.pc = "refresh"
        BY <2>2, <3>1, <3>11 DEF Refresh, At
      <4>2. new.path = Tail(rec.path) /\ new.goal = rec.goal
        BY <1>0 DEF Run
      <4>3. rec.path # <<>> /\ rec.path \in Seq(TaskState) /\ Route(rec.path, rec.goal)
        BY <1>0, <4>1 DEF GoodRun, Run, Routed
      <4> HIDE DEF new
      <4> QED BY <4>1, <4>2, <4>3, TailRoute
    <3>12. CASE \/ WalkRefused(w, t) \/ PlannerFails(w, t) \/ LimitReached(w, t) \/ AskApproval(w, t)
                \/ StepBegin(w, t) \/ NoGraph(w, t) \/ StepFails(w, t) \/ PersistResult(w, t)
                \/ Pause(w, t) \/ Handle(w, t) \/ HandleRefused(w, t) \/ PersistError(w, t)
      BY <2>2, <3>5, <3>6, <3>12
      DEF WalkRefused, PlannerFails, LimitReached, AskApproval, StepBegin, NoGraph, StepFails,
          PersistResult, Pause, Handle, HandleRefused, PersistError
    <3>13. CASE PlanCached(w, t) \/ \E p \in Plans : PlanMade(w, t, p)
      <4>1. PICK p, pc : Become(v, u, [rec EXCEPT !.plan = p, !.pc = pc]) /\ pc \in {"snapshot", "planned"}
        BY <2>2, <3>13, Zenon DEF PlanCached, PlanMade
      <4>2. [rec EXCEPT !.plan = p, !.pc = pc].pc = pc
        BY <1>0 DEF Run
      <4> QED BY <3>4, <4>1, <4>2
    <3>14. CASE RefreshPlanned(w, t) \/ RefreshAsked(w, t)
      <4>1. PICK pc : Become(v, u, [rec EXCEPT !.row = tasks[t], !.pc = pc]) /\ pc \in {"snapshot", "pause"}
        BY <2>2, <3>14, Zenon DEF RefreshPlanned, RefreshAsked
      <4>2. [rec EXCEPT !.row = tasks[t], !.pc = pc].pc = pc
        BY <1>0 DEF Run
      <4> QED BY <3>4, <4>1, <4>2
    <3>15. CASE AskRefused(w, t) \/ StepSucceeds(w, t)
      <4>1. [rec EXCEPT !.asking = TRUE, !.pc = "fail"].pc = "fail"
            /\ [rec EXCEPT !.done = @ + 1, !.pc = "step"].pc = "step"
        BY <1>0 DEF Run
      <4> QED BY <2>2, <3>4, <3>15, <4>1 DEF AskRefused, StepSucceeds
    <3> QED BY <1>6, <2>2, <3>7, <3>8, <3>9, <3>10, <3>11, <3>12, <3>13, <3>14, <3>15 DEF RunStep
  <2> QED BY <2>1, <2>2
<1>7. CASE UNCHANGED run
  BY <1>1, <1>7
<1> QED BY <1>1, <1>4, <1>5, <1>6, <1>7 DEF Next, WorkerNext, vars, runVars

\* A run puts its task in another state by a walk, or stops it.
StopStates == {"WAITING_FOR_APPROVAL", "FAILED", "TIMED_OUT"}

LEMMA RunStepState ==
  ASSUME TypeInv, NEW w \in Runners, NEW t \in Tasks, RunStep(w, t), NEW u \in Tasks
  PROVE  \/ tasks'[u].state = tasks[u].state
         \/ u = t /\ (tasks'[u].state \in StopStates \/ Walk(w, t))
<1>0. tasks \in [Tasks -> TaskRow]
  BY DEF TypeInv, TypeOK
<1>1. ASSUME NEW s, SetState(t, s), s \in StopStates \/ Walk(w, t)
      PROVE  \/ tasks'[u].state = tasks[u].state
             \/ u = t /\ (tasks'[u].state \in StopStates \/ Walk(w, t))
  <2>1. CASE u = t
    <3>1. tasks'[u].state = s
      BY <1>0, <1>1, <2>1 DEF SetState, TaskRow
    <3> QED BY <1>1, <2>1, <3>1
  <2>2. CASE u # t
    BY <1>0, <1>1, <2>2 DEF SetState
  <2> QED BY <2>1, <2>2
<1>2. ASSUME NEW p, NEW r, SaveResult(t, p, r) PROVE tasks'[u].state = tasks[u].state
  <2>1. CASE u = t
    BY <1>0, <1>2, <2>1 DEF SaveResult, TaskRow
  <2>2. CASE u # t
    BY <1>0, <1>2, <2>2 DEF SaveResult
  <2> QED BY <2>1, <2>2
<1>3. CASE \/ Load(w, t) \/ Refresh(w, t) \/ WalkRefused(w, t) \/ Arrive(w, t) \/ PlanCached(w, t)
           \/ PlannerFails(w, t) \/ RefreshPlanned(w, t) \/ Snapshot(w, t) \/ LimitReached(w, t)
           \/ AskRefused(w, t) \/ StepBegin(w, t) \/ NoGraph(w, t) \/ StepSucceeds(w, t)
           \/ StepFails(w, t) \/ PlanDone(w, t) \/ RefreshAsked(w, t) \/ HandleRefused(w, t)
  BY <1>3 DEF Load, Refresh, WalkRefused, Arrive, PlanCached, PlannerFails, RefreshPlanned, Snapshot,
              LimitReached, AskRefused, StepBegin, NoGraph, StepSucceeds, StepFails, PlanDone,
              RefreshAsked, HandleRefused, storeVars
<1>4. CASE Walk(w, t)
  <2>1. SetState(t, Head(run[w][t].path))
    BY <1>4 DEF Walk
  <2> QED BY <1>1, <1>4, <2>1
<1>5. CASE AskApproval(w, t) \/ Pause(w, t) \/ Handle(w, t)
  <2>1. \/ SetState(t, "WAITING_FOR_APPROVAL") \/ SetState(t, EndState(w, t)) \/ UNCHANGED tasks
    <3>1. Pause(w, t) => SetState(t, "WAITING_FOR_APPROVAL") \/ UNCHANGED tasks
      BY DEF Pause
    <3>2. AskApproval(w, t) => SetState(t, "WAITING_FOR_APPROVAL")
      BY DEF AskApproval
    <3>3. Handle(w, t) => SetState(t, EndState(w, t))
      BY DEF Handle
    <3> QED BY <1>5, <3>1, <3>2, <3>3
  <2>2. "WAITING_FOR_APPROVAL" \in StopStates /\ EndState(w, t) \in StopStates
    BY DEF StopStates, EndState
  <2>3. CASE UNCHANGED tasks
    BY <2>3
  <2> QED BY <1>1, <2>1, <2>2, <2>3
<1>6. CASE PersistResult(w, t) \/ \E p \in Plans : PlanMade(w, t, p)
  BY <1>2, <1>6, Zenon DEF PersistResult, PlanMade
<1>7. CASE PersistError(w, t)
  BY <1>0, <1>7 DEF PersistError, TaskRow
<1> QED BY <1>3, <1>4, <1>5, <1>6, <1>7 DEF RunStep

\* A run that drives a task goes on driving it until it commits the next state.
LEMMA DriverGoesOn ==
  ASSUME TypeInv, Routed, NEW w \in Runners, NEW t \in Tasks, tasks[t].state \in InFlightStates,
         Drives(run[w][t], tasks[t].state),
         Refresh(w, t) \/ WalkRefused(w, t) \/ Arrive(w, t)
  PROVE  Drives(run'[w][t], tasks[t].state)
<1> DEFINE rec == run[w][t]
           s == tasks[t].state
<1>0. /\ run \in [Runners -> [Tasks -> GoodRun]] /\ rec \in GoodRun /\ rec \in Run
      /\ tasks[t] \in TaskRow
  BY DEF TypeInv, TypeOK
<1>1. CASE Refresh(w, t)
  <2> DEFINE new == [rec EXCEPT !.row = tasks[t], !.path = Tail(rec.path), !.pc = "walk"]
  <2>1. run'[w][t] = new /\ rec.pc = "refresh"
    BY <1>0, <1>1 DEF Refresh, Become, At
  <2>2. new.pc = "walk" /\ new.row = tasks[t] /\ new.path = Tail(rec.path) /\ new.goal = rec.goal
    BY <1>0 DEF Run
  <2>3. rec.path # <<>> /\ rec.path \in Seq(TaskState) /\ Route(rec.path, rec.goal)
    BY <1>0, <2>1 DEF GoodRun, Run, Routed
  <2>4. Head(rec.path) = s
    BY <2>1 DEF Drives
  <2>5. IF Tail(rec.path) = <<>> THEN rec.goal = Head(rec.path)
        ELSE Follows(Head(rec.path), Head(Tail(rec.path)))
    BY <2>3, TailRoute
  <2> HIDE DEF new
  <2> QED BY <2>1, <2>2, <2>4, <2>5 DEF Drives
<1>2. CASE WalkRefused(w, t)
  <2>1. rec.path # <<>> /\ rec.row.state = s /\ Follows(s, Head(rec.path))
    BY <1>2 DEF WalkRefused, At, Drives
  <2> QED BY <1>2, <2>1, FollowsAllowed DEF WalkRefused
<1>3. CASE Arrive(w, t)
  <2>1. rec.pc = "walk" /\ rec.path = <<>> /\ rec.row.state = s /\ rec.goal = s
    BY <1>3 DEF Arrive, At, Drives
  <2>2. s = "VERIFYING"
    BY <1>3, <2>1 DEF Arrive, InFlightStates
  <2>3. run'[w][t] = WalkTo(rec, "COMPLETED")
    BY <1>0, <1>3, <2>1, <2>2 DEF Arrive, Become
  <2>4. /\ WalkTo(rec, "COMPLETED").pc = "walk" /\ WalkTo(rec, "COMPLETED").row = rec.row
        /\ WalkTo(rec, "COMPLETED").path = <<"COMPLETED">>
    BY <1>0, <2>1, <2>2, LastPath DEF WalkTo, Run
  <2>5. Follows("VERIFYING", "COMPLETED")
    <3>1. HappyPathOrder[8] = "VERIFYING" /\ HappyPathOrder[8 + 1] = "COMPLETED"
      BY DEF HappyPathOrder
    <3> QED BY <3>1 DEF Follows
  <2> QED BY <2>1, <2>2, <2>3, <2>4, <2>5 DEF Drives
<1> QED BY <1>1, <1>2, <1>3

LEMMA DrivenStep == TypeInv /\ Routed /\ Driven /\ [Next]_vars => Driven'
<1> SUFFICES ASSUME TypeInv, Routed, Driven, [Next]_vars, crashes' = 0,
                    NEW u \in Tasks, tasks'[u].state \in InFlightStates
             PROVE  \E v \in Runners : Drives(run'[v][u], tasks'[u].state)
  BY DEF Driven, InState
<1>0. /\ run \in [Runners -> [Tasks -> GoodRun]] /\ tasks \in [Tasks -> TaskRow]
      /\ crashes \in Nat
  BY WorkerAssumption DEF TypeInv, TypeOK
<1>1. crashes = 0
  BY <1>0 DEF Next, WorkerNext, PollSelect, PollClaim, Crash, Resume, vars, workerVars
<1>2. ASSUME tasks'[u].state = tasks[u].state,
             \A v \in Runners : run[v][u].pc \in {"walk", "refresh"} => run'[v][u] = run[v][u]
      PROVE  \E v \in Runners : Drives(run'[v][u], tasks'[u].state)
  <2>1. PICK v \in Runners : Drives(run[v][u], tasks[u].state)
    BY <1>1, <1>2 DEF Driven, InState
  <2> QED BY <1>2, <2>1 DEF Drives
<1>3. ASSUME NEW w \in Workers, PollSelect(w) \/ PollClaim(w) \/ Crash(w)
      PROVE  \E v \in Runners : Drives(run'[v][u], tasks'[u].state)
  <2>1. tasks' = tasks /\ ~Crash(w)
    BY <1>1, <1>3 DEF PollSelect, PollClaim, Crash, storeVars
  <2>2. ASSUME NEW v \in Runners, run[v][u].pc \in {"walk", "refresh"} PROVE run'[v][u] = run[v][u]
    <3>1. CASE PollSelect(w)
      BY <3>1 DEF PollSelect, runVars
    <3>2. CASE PollClaim(w)
      <4>1. v = w => u \notin Claimed(w)
        BY <2>2 DEF Claimed, Oldest, Active, At
      <4> QED BY <1>0, <3>2, <4>1 DEF PollClaim
    <3> QED BY <1>3, <2>1, <3>1, <3>2
  <2> QED BY <1>2, <2>1, <2>2
<1>4. ASSUME NEW c \in Callers, NEW t \in Tasks, Resume(c, t)
      PROVE  \E v \in Runners : Drives(run'[v][u], tasks'[u].state)
  <2>1. tasks' = tasks
    BY <1>4 DEF Resume, storeVars
  <2>2. \A v \in Runners : run[v][u].pc \in {"walk", "refresh"} => run'[v][u] = run[v][u]
    BY <1>0, <1>4 DEF Resume, Become, At
  <2> QED BY <1>2, <2>1, <2>2
<1>5. ASSUME NEW w \in Runners, NEW t \in Tasks, RunStep(w, t)
      PROVE  \E v \in Runners : Drives(run'[v][u], tasks'[u].state)
  <2>1. \A v \in Runners : <<v, u>> # <<w, t>> => run'[v][u] = run[v][u]
    BY <1>5, RunStepTouches
  <2>2. CASE u # t
    BY <1>2, <1>5, <2>1, <2>2, RunStepState
  <2>3. CASE u = t /\ Walk(w, t)
    <3>1. run'[w][u] = [run[w][u] EXCEPT !.pc = "refresh"]
      BY <1>0, <2>3 DEF Walk, Goto
    <3>2. run'[w][u].pc = "refresh" /\ run'[w][u].path = run[w][u].path
      BY <3>1, <1>0 DEF GoodRun, Run
    <3>3. tasks'[u].state = Head(run[w][u].path)
      BY <1>0, <2>3 DEF Walk, SetState, TaskRow
    <3> QED BY <3>2, <3>3 DEF Drives
  <2>4. CASE u = t /\ ~Walk(w, t)
    <3>1. tasks'[u].state = tasks[u].state
      BY <1>5, <2>4, RunStepState DEF StopStates, InFlightStates
    <3>2. CASE Refresh(w, t) \/ WalkRefused(w, t) \/ Arrive(w, t)
      <4>1. PICK v \in Runners : Drives(run[v][u], tasks[u].state)
        BY <1>1, <3>1 DEF Driven, InState
      <4>2. CASE v = w
        BY <2>4, <3>1, <3>2, <4>1, <4>2, DriverGoesOn
      <4>3. CASE v # w
        BY <2>1, <3>1, <4>1, <4>3
      <4> QED BY <4>2, <4>3
    <3>3. CASE ~(Refresh(w, t) \/ WalkRefused(w, t) \/ Arrive(w, t))
      <4>1. run[w][t].pc \notin {"walk", "refresh"}
        BY <1>5, <2>4, <3>3, RunStepPlaces
      <4> QED BY <1>2, <2>1, <2>4, <3>1, <4>1
    <3> QED BY <3>2, <3>3
  <2> QED BY <2>2, <2>3, <2>4
<1>6. ASSUME ClientNext, UNCHANGED run
      PROVE  \E v \in Runners : Drives(run'[v][u], tasks'[u].state)
  <2>1. ASSUME NEW t, NEW s, SetState(t, s), s \notin InFlightStates
        PROVE  tasks'[u].state = tasks[u].state
    <3>1. u = t => tasks'[u].state = s
      BY <1>0, <2>1 DEF SetState, TaskRow
    <3>2. CASE u = t
      BY <1>0, <2>1, <3>1, <3>2
    <3>3. CASE u # t
      <4>1. tasks' = [tasks EXCEPT ![t].state = s]
        BY <2>1 DEF SetState
      <4>2. tasks'[u] = tasks[u]
        BY <1>0, <3>3, <4>1
      <4> QED BY <4>2
    <3> QED BY <3>2, <3>3
  <2>2. \A v : DecisionTarget(v) \notin InFlightStates
    BY DEF DecisionTarget, InFlightStates
  <2>3. "CANCELLED" \notin InFlightStates
    BY DEF InFlightStates
  <2>4. \/ UNCHANGED tasks
        \/ \E t : SetState(t, "CANCELLED") \/ \E v : SetState(t, DecisionTarget(v))
    BY <1>6, Zenon DEF ClientNext, CancelCommit, CancelRead, DecideFind, DecideLock, DecideRefused,
                DecideCommit, storeVars
  <2>5. tasks'[u].state = tasks[u].state
    BY <2>1, <2>2, <2>3, <2>4
  <2> QED BY <1>2, <1>6, <2>5
<1>7. ASSUME NEW t \in Tasks, CreateTask(t), UNCHANGED run
      PROVE  \E v \in Runners : Drives(run'[v][u], tasks'[u].state)
  <2>1. u = t => tasks'[u].state = "CREATED"
    BY <1>0, <1>7 DEF CreateTask, SetState, TaskRow
  <2>2. u # t
    BY <2>1 DEF InFlightStates
  <2>3. tasks'[u].state = tasks[u].state
    BY <1>0, <1>7, <2>2 DEF CreateTask, SetState
  <2> QED BY <1>2, <1>7, <2>3
<1>8. CASE UNCHANGED vars
  BY <1>2, <1>8 DEF vars, storeVars, runVars
<1> QED BY <1>3, <1>4, <1>5, <1>6, <1>7, <1>8 DEF Next, WorkerNext, runVars

\* As long as no process dies, a task in a state that only a run can move on
\* has a run at work on it, for any number of workers and callers that
\* overwrite each other's states and of clients that cancel and decide.
THEOREM NeverStranded == Spec => []NotStranded
<1> DEFINE FlightInv == TypeInv /\ Routed /\ Driven
<1>1. Init => FlightInv
  <2> SUFFICES ASSUME Init PROVE FlightInv
    OBVIOUS
  <2>1. \A w \in Runners, t \in Tasks : run[w][t].pc = "idle"
    BY DEF Init, RunInit, IdleRun
  <2>2. \A t \in Tasks : tasks[t].state = "absent"
    BY DEF Init, StoreInit, NoRow
  <2>3. Routed
    BY <2>1 DEF Routed
  <2>4. Driven
    BY <2>2 DEF Driven, InState, InFlightStates
  <2> QED BY <2>3, <2>4, InitTypeInv
<1>2. FlightInv /\ [Next]_vars => FlightInv'
  BY NextTypeInv, RoutedStep, DrivenStep
<1>3. FlightInv => NotStranded
  BY DEF Driven, Drives, NotStranded, At
<1> HIDE DEF FlightInv
<1> QED BY <1>1, <1>2, <1>3, PTL DEF Spec
-----------------------------------------------------------------------------
(***************************************************************************)
(* Every run is finite.  StepsLeft bounds the steps a run can still take,   *)
(* whatever plan the planner made and whatever others do to the task: a     *)
(* walk takes two steps per transition and each iteration of the plan two,  *)
(* and the limit bounds the iterations.                                     *)
(***************************************************************************)
Walking(rec) == rec.pc \in {"walk", "refresh"}

\* Before the end of the loop over the plan.
Looping(rec) ==
  \/ rec.pc \in {"load", "plan", "planned", "snapshot", "step", "invoke"}
  \/ Walking(rec) /\ rec.goal \in {"PLANNING", "EXECUTING"}

PhaseWeight ==
  [idle |-> 0, report |-> 1, pause |-> 1, asked |-> 2, fail |-> 2, timeout |-> 2,
   persist |-> 3, invoke |-> 37, step |-> 38, snapshot |-> 56, planned |-> 57,
   plan |-> 58, load |-> 76]

GoalWeight == [COMPLETED |-> 3, VERIFYING |-> 20, EXECUTING |-> 38, PLANNING |-> 58]

Transitions(rec) == Len(rec.path)

Phase(rec) ==
  IF Walking(rec)
  THEN GoalWeight[rec.goal] + 2 * Transitions(rec) + (IF rec.pc = "walk" THEN 1 ELSE 0)
  ELSE PhaseWeight[rec.pc]

StepsLeft(rec) ==
  Phase(rec) + (IF Looping(rec) THEN 2 * (MaxIterations - rec.done) ELSE 0)

MostSteps == 76 + 2 * MaxIterations

\* A path never has more than the happy path before it, and no iteration begins
\* at the limit.
Bounded(rec) ==
  /\ rec.done <= MaxIterations
  /\ rec.pc = "invoke" => rec.done < MaxIterations
  /\ Walking(rec) => rec.goal \in Goals /\ Transitions(rec) <= 8

LEMMA Weights ==
  /\ PhaseWeight["idle"] = 0 /\ PhaseWeight["report"] = 1 /\ PhaseWeight["pause"] = 1
  /\ PhaseWeight["asked"] = 2 /\ PhaseWeight["fail"] = 2 /\ PhaseWeight["timeout"] = 2
  /\ PhaseWeight["persist"] = 3 /\ PhaseWeight["invoke"] = 37 /\ PhaseWeight["step"] = 38
  /\ PhaseWeight["snapshot"] = 56 /\ PhaseWeight["planned"] = 57 /\ PhaseWeight["plan"] = 58
  /\ PhaseWeight["load"] = 76
  /\ GoalWeight["COMPLETED"] = 3 /\ GoalWeight["VERIFYING"] = 20
  /\ GoalWeight["EXECUTING"] = 38 /\ GoalWeight["PLANNING"] = 58
BY DEF PhaseWeight, GoalWeight

LEMMA GoalRange ==
  ASSUME NEW g \in Goals
  PROVE  /\ GoalWeight[g] \in 3..58
         /\ g \notin {"PLANNING", "EXECUTING"} => GoalWeight[g] <= 20
<1>1. g = "COMPLETED" \/ g = "VERIFYING" \/ g = "EXECUTING" \/ g = "PLANNING"
  BY DEF Goals
<1> QED BY <1>1, Weights

LEMMA PhaseRange ==
  ASSUME NEW rec \in Run, ~Walking(rec)
  PROVE  PhaseWeight[rec.pc] \in 0..76 /\ (rec.pc # "idle" => PhaseWeight[rec.pc] > 0)
<1>1. \/ rec.pc = "idle" \/ rec.pc = "load" \/ rec.pc = "plan" \/ rec.pc = "planned"
      \/ rec.pc = "snapshot" \/ rec.pc = "step" \/ rec.pc = "invoke" \/ rec.pc = "asked"
      \/ rec.pc = "pause" \/ rec.pc = "persist" \/ rec.pc = "fail" \/ rec.pc = "timeout"
      \/ rec.pc = "report"
  BY DEF Run, PCs, Walking
<1> QED BY <1>1, Weights

\* What is left of a bounded run.
LEMMA StepsOfRun ==
  ASSUME NEW rec \in Run, Bounded(rec)
  PROVE  /\ StepsLeft(rec) \in 0..MostSteps
         /\ rec.pc # "idle" => StepsLeft(rec) > 0
<1>1. /\ rec.done \in Nat /\ MaxIterations \in Nat /\ rec.done <= MaxIterations
      /\ Transitions(rec) \in Nat
  BY LimitsAssumption, LenProperties DEF Run, Bounded, Transitions
<1> DEFINE phase == Phase(rec)
<1>2. /\ phase \in 0..76
      /\ rec.pc # "idle" => phase > 0
  <2>1. CASE Walking(rec)
    <3> DEFINE weight == GoalWeight[rec.goal]
    <3>1. rec.goal \in Goals /\ Transitions(rec) <= 8
      BY <2>1 DEF Bounded, Walking
    <3>2. weight \in 3..58
      BY <3>1, GoalRange
    <3>3. phase = weight + 2 * Transitions(rec) + (IF rec.pc = "walk" THEN 1 ELSE 0)
      BY <2>1 DEF Phase
    <3> HIDE DEF phase, weight
    <3> QED BY <1>1, <3>1, <3>2, <3>3
  <2>2. CASE ~Walking(rec)
    <3>1. phase = PhaseWeight[rec.pc]
      BY <2>2 DEF Phase
    <3> QED BY <2>2, <3>1, PhaseRange
  <2> QED BY <2>1, <2>2
<1>3. StepsLeft(rec) = phase \/ StepsLeft(rec) = phase + 2 * (MaxIterations - rec.done)
  <2>1. phase + 0 = phase
    BY <1>2
  <2> QED BY <2>1 DEF StepsLeft
<1> HIDE DEF phase
<1> QED BY <1>1, <1>2, <1>3 DEF MostSteps

\* The path of a walk is at most as long as the happy path.
LEMMA WalkPathShort ==
  ASSUME NEW s, NEW g \in Goals
  PROVE  Len(WalkPath(s, g)) \in 0..8
<1> DEFINE path == WalkPath(s, g)
<1>1. CASE s = g \/ ~OnHappyPath(s)
  <2>1. path = <<>> \/ path = <<g>>
    BY <1>1 DEF WalkPath
  <2> QED BY <2>1
<1>2. CASE s # g /\ OnHappyPath(s)
  <2> DEFINE a == PathIndex(s)
             b == PathIndex(g)
  <2>1. OnHappyPath(g)
    <3>1. HappyPathOrder[3] = "PLANNING" /\ HappyPathOrder[7] = "EXECUTING"
          /\ HappyPathOrder[8] = "VERIFYING" /\ HappyPathOrder[9] = "COMPLETED"
      BY DEF HappyPathOrder
    <3> QED BY <3>1, HappyPathTyped DEF OnHappyPath, Goals
  <2>2. a \in 1..9 /\ b \in 1..9
    BY <1>2, <2>1, HappyPathTyped DEF OnHappyPath, PathIndex
  <2>3. path = SubSeq(HappyPathOrder, a + 1, b)
    BY <1>2 DEF WalkPath
  <2> HIDE DEF a, b, path
  <2>4. \A i \in (a + 1)..b : HappyPathOrder[i] \in TaskState
    <3>1. TAKE i \in (a + 1)..b
    <3>2. i \in 1..9
      BY <2>2
    <3> QED BY <3>2, HappyPathTyped, ElementOfSeq
  <2>5. Len(path) = IF a + 1 <= b THEN b - (a + 1) + 1 ELSE 0
    BY <2>2, <2>3, <2>4, SubSeqProperties
  <2> QED BY <2>2, <2>5 DEF path
<1> QED BY <1>1, <1>2

\* A walk to a goal weighs less than what lies before it.
LEMMA WalkBegins ==
  ASSUME NEW rec \in Run, Bounded(rec), NEW g \in Goals, NEW new, new = WalkTo(rec, g)
  PROVE  /\ Bounded(new)
         /\ StepsLeft(new) <= GoalWeight[g] + 17 +
              (IF g \in {"PLANNING", "EXECUTING"} THEN 2 * (MaxIterations - rec.done) ELSE 0)
<1>1. /\ new.pc = "walk" /\ new.goal = g /\ new.done = rec.done
      /\ new.path = WalkPath(rec.row.state, g)
  BY DEF WalkTo, Run
<1>2. Transitions(new) \in 0..8
  BY <1>1, WalkPathShort DEF Transitions
<1>3. rec.done \in Nat /\ MaxIterations \in Nat /\ rec.done <= MaxIterations
  BY LimitsAssumption DEF Run, Bounded
<1>4. Bounded(new)
  BY <1>1, <1>2, <1>3 DEF Bounded, Walking
<1> DEFINE weight == GoalWeight[g]
           rounds == IF g \in {"PLANNING", "EXECUTING"} THEN 2 * (MaxIterations - rec.done) ELSE 0
<1>5. weight \in 3..58
  BY GoalRange
<1>6. rounds \in Nat
  BY <1>3
<1>7. Phase(new) = weight + 2 * Transitions(new) + 1
  BY <1>1 DEF Phase, Walking
<1>8. StepsLeft(new) = Phase(new) + rounds
  BY <1>1 DEF StepsLeft, Looping, Walking
<1> HIDE DEF weight, rounds
<1>9. StepsLeft(new) <= weight + 17 + rounds
  BY <1>2, <1>5, <1>6, <1>7, <1>8
<1> QED BY <1>4, <1>9 DEF weight, rounds

\* Moving on, outside of walks, to a phase that weighs less.
LEMMA PhaseShrinks ==
  ASSUME NEW rec \in Run, NEW new \in Run, Bounded(rec), new.done = rec.done,
         ~Walking(new), new.pc # "invoke", NEW n \in Int, n = Phase(rec),
         PhaseWeight[new.pc] < n, Looping(new) => Looping(rec)
  PROVE  Bounded(new) /\ StepsLeft(new) < StepsLeft(rec)
<1>1. rec.done \in Nat /\ MaxIterations \in Nat /\ rec.done <= MaxIterations
  BY LimitsAssumption DEF Run, Bounded
<1> DEFINE weight == PhaseWeight[new.pc]
<1>2. weight \in Int /\ Phase(new) = weight
  BY PhaseRange DEF Phase
<1>3. Bounded(new)
  BY <1>1 DEF Bounded, Walking
<1> HIDE DEF weight
<1>4. weight < n
  BY DEF weight
<1>5. \/ StepsLeft(new) = weight
      \/ Looping(rec) /\ StepsLeft(new) = weight + 2 * (MaxIterations - rec.done)
  BY <1>2 DEF StepsLeft
<1>6. StepsLeft(rec) = IF Looping(rec) THEN n + 2 * (MaxIterations - rec.done) ELSE n
  BY DEF StepsLeft
<1> QED BY <1>1, <1>2, <1>3, <1>4, <1>5, <1>6

\* Every step of a run brings it nearer to its end.
LEMMA RunStepShrinks ==
  ASSUME TypeInv, NEW w \in Runners, NEW t \in Tasks, RunStep(w, t), Bounded(run[w][t])
  PROVE  Bounded(run'[w][t]) /\ StepsLeft(run'[w][t]) < StepsLeft(run[w][t])
<1> DEFINE rec == run[w][t]
           new == run'[w][t]
           rounds == 2 * (MaxIterations - rec.done)
           Shrinks == Bounded(new) /\ StepsLeft(new) < StepsLeft(rec)
<1>0. /\ run \in [Runners -> [Tasks -> GoodRun]] /\ rec \in Run /\ rec \in GoodRun /\ new \in Run
      /\ tasks[t] \in TaskRow
  <2>1. RunStepEnds
    BY RunStepTyped
  <2> QED BY <2>1 DEF RunStepEnds, TypeInv, TypeOK, GoodRun
<1>1. \A r : Become(w, t, r) => new = r
  BY <1>0 DEF Become
<1>2. \A pc : Goto(w, t, pc) => /\ new.pc = pc /\ new.done = rec.done
                                /\ new.path = rec.path /\ new.goal = rec.goal
  BY <1>0 DEF Goto, Run
<1>3. rec.done \in Nat /\ MaxIterations \in Nat /\ rec.done <= MaxIterations
  BY <1>0, LimitsAssumption DEF Bounded, Run
<1>4. ASSUME Become(w, t, IdleRun), rec.pc # "idle" PROVE Shrinks
  <2>1. new.pc = "idle" /\ new.done = 0
    BY <1>1, <1>4 DEF IdleRun
  <2> HIDE DEF new
  <2>2. Bounded(new)
    BY <1>3, <2>1 DEF Bounded, Walking
  <2>3. StepsLeft(new) = 0
    <3>1. PhaseWeight[new.pc] = 0
      BY <2>1, Weights
    <3> QED BY <2>1, <3>1 DEF StepsLeft, Phase, Walking, Looping
  <2>4. StepsLeft(rec) > 0
    BY <1>0, <1>4, StepsOfRun
  <2> QED BY <2>2, <2>3, <2>4
<1>5. ASSUME new.done = rec.done,
             \/ rec.pc = "load" /\ new.pc = "plan"
             \/ rec.pc = "plan" /\ new.pc \in {"planned", "snapshot"}
             \/ rec.pc = "planned" /\ new.pc = "snapshot"
             \/ rec.pc = "step" /\ new.pc \in {"timeout", "asked", "fail"}
             \/ rec.pc = "invoke" /\ new.pc = "fail"
             \/ rec.pc = "asked" /\ new.pc = "pause"
             \/ rec.pc \in {"fail", "timeout"} /\ new.pc = "report"
      PROVE  Shrinks
  <2> HIDE DEF rec, new
  <2>1. ~Walking(rec) /\ ~Walking(new) /\ new.pc # "invoke" /\ (Looping(new) => Looping(rec))
    BY <1>5 DEF Walking, Looping
  <2>2. PhaseWeight[new.pc] < PhaseWeight[rec.pc] /\ PhaseWeight[rec.pc] \in Int
    BY <1>5, Weights
  <2>3. Phase(rec) = PhaseWeight[rec.pc] /\ Phase(rec) \in Int
    BY <2>1, <2>2 DEF Phase
  <2>4. Bounded(rec)
    BY DEF rec
  <2> QED BY <1>0, <1>5, <2>1, <2>2, <2>3, <2>4, PhaseShrinks
<1>6. ASSUME rec.pc = "walk", new.done = rec.done,
             \/ new.pc = "fail"
             \/ /\ Transitions(rec) = 0
                /\ \/ rec.goal = "PLANNING" /\ new.pc = "plan"
                   \/ rec.goal = "EXECUTING" /\ new.pc = "step"
                   \/ rec.goal = "COMPLETED" /\ new.pc = "persist"
      PROVE  Shrinks
  <2>1. Bounded(rec) /\ Transitions(rec) \in Nat
    BY <1>0, LenProperties DEF Run, Transitions
  <2> HIDE DEF rec, new
  <2>2. Walking(rec) /\ ~Walking(new) /\ new.pc # "invoke" /\ (Looping(new) => Looping(rec))
    BY <1>6 DEF Walking, Looping
  <2>3. rec.goal \in Goals
    BY <2>1, <2>2 DEF Bounded
  <2>4. GoalWeight[rec.goal] \in 3..58
    BY <2>3, GoalRange
  <2>5. Phase(rec) = GoalWeight[rec.goal] + 2 * Transitions(rec) + 1
    BY <1>6, <2>2 DEF Phase
  <2>6. Phase(rec) \in Int
    BY <2>1, <2>4, <2>5
  <2>7. PhaseWeight[new.pc] < Phase(rec)
    <3>1. CASE new.pc = "fail"
      <4>1. PhaseWeight[new.pc] = 2
        BY <3>1, Weights
      <4> QED BY <2>1, <2>4, <2>5, <4>1
    <3>2. CASE new.pc # "fail"
      <4>1. Transitions(rec) = 0 /\ PhaseWeight[new.pc] \in Int
            /\ PhaseWeight[new.pc] < GoalWeight[rec.goal] + 1
        BY <1>6, <3>2, Weights
      <4> QED BY <2>4, <2>5, <4>1
    <3> QED BY <3>1, <3>2
  <2> QED BY <1>0, <1>6, <2>1, <2>2, <2>6, <2>7, PhaseShrinks
<1>7. ASSUME NEW r \in Run, NEW g \in Goals, Become(w, t, WalkTo(r, g)), Bounded(r),
             r.done = rec.done, ~Walking(rec) \/ Transitions(rec) = 0,
             \/ rec.pc = "load" /\ g = "PLANNING"
             \/ rec.pc = "snapshot" /\ g = "EXECUTING"
             \/ rec.pc = "step" /\ g = "VERIFYING"
             \/ rec.pc = "walk" /\ rec.goal = "VERIFYING" /\ g = "COMPLETED"
      PROVE  Shrinks
  <2>1. new = WalkTo(r, g)
    BY <1>1, <1>7
  <2> HIDE DEF rec, new, rounds
  <2>2. rounds \in Nat /\ rounds = 2 * (MaxIterations - r.done)
    BY <1>3, <1>7 DEF rounds
  <2>3. /\ Bounded(new)
        /\ StepsLeft(new) <= GoalWeight[g] + 17 +
             (IF g \in {"PLANNING", "EXECUTING"} THEN rounds ELSE 0)
    BY <1>7, <2>1, <2>2, WalkBegins
  <2>4. StepsLeft(rec) = Phase(rec) + (IF Looping(rec) THEN rounds ELSE 0)
    BY DEF StepsLeft, rounds
  <2>5. StepsLeft(new) \in Int
    BY <1>0, <2>3, StepsOfRun
  <2>6. CASE rec.pc = "load"
    <3>1. Phase(rec) = 76 /\ Looping(rec)
      BY <2>6, Weights DEF Phase, Walking, Looping
    <3>2. g = "PLANNING" /\ GoalWeight[g] = 58
      BY <1>7, <2>6, Weights
    <3> QED BY <2>2, <2>3, <2>4, <2>5, <3>1, <3>2
  <2>7. CASE rec.pc = "snapshot"
    <3>1. Phase(rec) = 56 /\ Looping(rec)
      BY <2>7, Weights DEF Phase, Walking, Looping
    <3>2. g = "EXECUTING" /\ GoalWeight[g] = 38
      BY <1>7, <2>7, Weights
    <3> QED BY <2>2, <2>3, <2>4, <2>5, <3>1, <3>2
  <2>8. CASE rec.pc = "step"
    <3>1. Phase(rec) = 38 /\ Looping(rec)
      BY <2>8, Weights DEF Phase, Walking, Looping
    <3>2. g = "VERIFYING" /\ GoalWeight[g] = 20
      BY <1>7, <2>8, Weights
    <3> QED BY <2>2, <2>3, <2>4, <2>5, <3>1, <3>2
  <2>9. CASE rec.pc = "walk"
    <3>1. g = "COMPLETED" /\ GoalWeight[g] = 3 /\ rec.goal = "VERIFYING" /\ Transitions(rec) = 0
      BY <1>7, <2>9, Weights DEF Walking
    <3>2. GoalWeight[rec.goal] = 20
      BY <3>1, Weights
    <3>3. Phase(rec) = 21 /\ ~Looping(rec)
      BY <2>9, <3>1, <3>2 DEF Phase, Walking, Looping
    <3> QED BY <2>3, <2>4, <2>5, <3>1, <3>3
  <2> QED BY <1>7, <2>6, <2>7, <2>8, <2>9
<1>8. CASE \/ WalkRefused(w, t) \/ PlannerFails(w, t) \/ PersistResult(w, t) \/ Pause(w, t)
           \/ HandleRefused(w, t) \/ PersistError(w, t)
  <2>1. CASE Become(w, t, IdleRun)
    BY <1>4, <1>8, <2>1
    DEF WalkRefused, PlannerFails, PersistResult, Pause, HandleRefused, PersistError, At
  <2>2. CASE WalkRefused(w, t) /\ Goto(w, t, "fail")
    BY <1>2, <1>6, <2>2 DEF WalkRefused, At
  <2> QED BY <1>8, <2>1, <2>2
          DEF WalkRefused, PlannerFails, PersistResult, Pause, HandleRefused, PersistError
<1>9. CASE \/ PlanCached(w, t) \/ (\E p \in Plans : PlanMade(w, t, p)) \/ RefreshPlanned(w, t)
           \/ AskRefused(w, t) \/ RefreshAsked(w, t)
  <2>1. CASE PlanCached(w, t) \/ \E p \in Plans : PlanMade(w, t, p)
    <3>1. PICK p, pc : /\ Become(w, t, [rec EXCEPT !.plan = p, !.pc = pc])
                       /\ rec.pc = "plan" /\ pc \in {"snapshot", "planned"}
      BY <2>1, Zenon DEF PlanCached, PlanMade, At
    <3> DEFINE r == [rec EXCEPT !.plan = p, !.pc = pc]
    <3>2. new = r
      BY <1>1, <3>1
    <3>3. r.pc = pc /\ r.done = rec.done
      BY <1>0, PlanGiven
    <3>4. new.pc = pc /\ new.done = rec.done
      BY <3>2, <3>3
    <3>5. rec.pc = "plan" /\ new.pc \in {"planned", "snapshot"}
      BY <3>1, <3>4
    <3> HIDE DEF r
    <3> QED BY <1>5, <3>4, <3>5
  <2>2. CASE RefreshPlanned(w, t) \/ RefreshAsked(w, t)
    <3>1. PICK pc : /\ Become(w, t, [rec EXCEPT !.row = tasks[t], !.pc = pc])
                    /\ \/ rec.pc = "planned" /\ pc = "snapshot"
                       \/ rec.pc = "asked" /\ pc = "pause"
      BY <2>2, Zenon DEF RefreshPlanned, RefreshAsked, At
    <3> DEFINE r == [rec EXCEPT !.row = tasks[t], !.pc = pc]
    <3>2. new = r
      BY <1>1, <3>1
    <3>3. r.pc = pc /\ r.done = rec.done
      BY <1>0, RowRead
    <3>4. new.pc = pc /\ new.done = rec.done
      BY <3>2, <3>3
    <3>5. \/ rec.pc = "planned" /\ new.pc = "snapshot"
          \/ rec.pc = "asked" /\ new.pc = "pause"
      BY <3>1, <3>4
    <3> HIDE DEF r
    <3> QED BY <1>5, <3>4, <3>5
  <2>3. CASE AskRefused(w, t)
    <3> DEFINE r == [rec EXCEPT !.asking = TRUE, !.pc = "fail"]
    <3>1. new = r /\ rec.pc = "step"
      BY <1>1, <2>3 DEF AskRefused, HasStep, At
    <3>2. r.pc = "fail" /\ r.done = rec.done
      BY <1>0 DEF Run
    <3> HIDE DEF r
    <3> QED BY <1>5, <3>1, <3>2
  <2> QED BY <1>9, <2>1, <2>2, <2>3
<1>10. CASE \/ LimitReached(w, t) \/ AskApproval(w, t) \/ NoGraph(w, t) \/ StepFails(w, t)
            \/ Handle(w, t)
  BY <1>2, <1>5, <1>10 DEF LimitReached, AskApproval, NoGraph, StepFails, Handle, HasStep, At
<1>11. CASE Load(w, t)
  <2> DEFINE r == [rec EXCEPT !.row = tasks[t]]
  <2>1. r \in Run /\ r.done = rec.done /\ r.pc = rec.pc /\ rec.pc = "load"
    BY <1>0, <1>11 DEF Load, At, Run
  <2>2. Bounded(r)
    BY <1>3, <2>1 DEF Bounded, Walking
  <2> HIDE DEF r
  <2> DEFINE planning == [r EXCEPT !.pc = "plan"]
  <2> HIDE DEF planning
  <2>3. CASE Become(w, t, WalkTo(r, "PLANNING"))
    BY <1>7, <2>1, <2>2, <2>3 DEF Goals, Walking
  <2>4. CASE Become(w, t, planning)
    <3>1. new = planning
      BY <1>1, <2>4
    <3>2. planning.pc = "plan" /\ planning.done = rec.done
      BY <2>1 DEF Run, planning
    <3> QED BY <1>5, <2>1, <3>1, <3>2
  <2> QED BY <1>11, <2>3, <2>4 DEF Load, r, planning
<1>12. CASE Snapshot(w, t)
  <2> DEFINE r == [rec EXCEPT !.granted = ApprovedActions(t)]
  <2>1. r.done = rec.done /\ r.pc = rec.pc /\ rec.pc = "snapshot"
    BY <1>0, <1>12 DEF Snapshot, At, Run
  <2>2. r \in Run
    <3>1. \A a \in DOMAIN approvals : approvals[a] \in Approval
      BY ElementOfSeq DEF TypeInv, TypeOK
    <3>2. ApprovedActions(t) \subseteq StepNames
      BY <3>1 DEF ApprovedActions, Approval
    <3> QED BY <1>0, <3>2 DEF Run
  <2>3. Bounded(r)
    BY <1>3, <2>1 DEF Bounded, Walking
  <2> QED BY <1>7, <1>12, <2>1, <2>2, <2>3 DEF Snapshot, Goals, Walking
<1>13. CASE PlanDone(w, t)
  <2>1. rec.pc = "step" /\ Become(w, t, WalkTo(rec, "VERIFYING"))
    BY <1>13 DEF PlanDone, At
  <2> QED BY <1>0, <1>7, <2>1 DEF Goals, Walking
<1>14. CASE Arrive(w, t)
  <2>1. rec.pc = "walk" /\ Transitions(rec) = 0
    BY <1>14 DEF Arrive, At, Transitions
  <2>2. CASE rec.goal = "VERIFYING" /\ Become(w, t, WalkTo(rec, "COMPLETED"))
    BY <1>0, <1>7, <2>1, <2>2 DEF Goals
  <2> QED BY <1>2, <1>6, <1>14, <2>1, <2>2 DEF Arrive
<1>15. CASE Walk(w, t) \/ Refresh(w, t)
  <2>1. /\ new.goal = rec.goal /\ new.done = rec.done /\ Walking(rec) /\ Walking(new)
        /\ \/ rec.pc = "walk" /\ new.pc = "refresh" /\ new.path = rec.path
           \/ rec.pc = "refresh" /\ new.pc = "walk" /\ new.path = Tail(rec.path)
    <3>1. CASE Walk(w, t)
      BY <1>2, <3>1 DEF Walk, At, Walking
    <3>2. CASE Refresh(w, t)
      <4> DEFINE r == [rec EXCEPT !.row = tasks[t], !.path = Tail(rec.path), !.pc = "walk"]
      <4>1. new = r /\ rec.pc = "refresh"
        BY <1>1, <3>2 DEF Refresh, At
      <4>2. r.goal = rec.goal /\ r.done = rec.done /\ r.pc = "walk" /\ r.path = Tail(rec.path)
        BY <1>0 DEF Run
      <4> QED BY <4>1, <4>2 DEF Walking
    <3> QED BY <1>15, <3>1, <3>2
  <2>2. /\ Transitions(rec) \in Nat
        /\ Transitions(new) = IF rec.pc = "walk" THEN Transitions(rec) ELSE Transitions(rec) - 1
    <3>1. rec.path \in Seq(TaskState) /\ (rec.pc = "refresh" => rec.path # <<>>)
      BY <1>0 DEF GoodRun, Run
    <3>2. Len(rec.path) \in Nat /\ (rec.path # <<>> => Len(Tail(rec.path)) = Len(rec.path) - 1)
      BY <3>1, LenProperties, HeadTailProperties
    <3> QED BY <2>1, <3>1, <3>2 DEF Transitions
  <2> HIDE DEF rec, new
  <2>3. Bounded(rec) /\ rec.goal \in Goals /\ Transitions(rec) <= 8
    BY <2>1 DEF Bounded, rec
  <2>4. Bounded(new)
    BY <1>3, <2>1, <2>2, <2>3 DEF Bounded
  <2> DEFINE weight == GoalWeight[rec.goal]
  <2>5. weight \in Int
    BY <2>3, GoalRange
  <2>6. /\ Phase(rec) = weight + 2 * Transitions(rec) + (IF rec.pc = "walk" THEN 1 ELSE 0)
        /\ Phase(new) = weight + 2 * Transitions(new) + (IF new.pc = "walk" THEN 1 ELSE 0)
    BY <2>1 DEF Phase
  <2>7. Looping(new) <=> Looping(rec)
    BY <2>1 DEF Looping
  <2> HIDE DEF weight, rounds
  <2>8. /\ StepsLeft(rec) = Phase(rec) + (IF Looping(rec) THEN rounds ELSE 0)
        /\ StepsLeft(new) = Phase(new) + (IF Looping(rec) THEN rounds ELSE 0)
    BY <2>1, <2>7 DEF StepsLeft, rounds
  <2>9. rounds \in Int
    BY <1>3 DEF rounds
  <2>10. Phase(new) < Phase(rec) /\ Phase(new) \in Int /\ Phase(rec) \in Int
    BY <2>1, <2>2, <2>5, <2>6
  <2>11. StepsLeft(new) < StepsLeft(rec)
    BY <2>8, <2>9, <2>10
  <2> QED BY <2>4, <2>11 DEF rec, new
<1>16. CASE StepBegin(w, t) \/ StepSucceeds(w, t)
  <2>1. \/ /\ rec.pc = "step" /\ new.pc = "invoke" /\ new.done = rec.done
           /\ rec.done < MaxIterations
        \/ rec.pc = "invoke" /\ new.pc = "step" /\ new.done = rec.done + 1
    <3>1. CASE StepBegin(w, t)
      BY <1>2, <1>3, <3>1 DEF StepBegin, HasStep, OverLimit, At
    <3>2. CASE StepSucceeds(w, t)
      <4> DEFINE r == [rec EXCEPT !.done = @ + 1, !.pc = "step"]
      <4>1. new = r /\ rec.pc = "invoke" /\ r.pc = "step" /\ r.done = rec.done + 1
        BY <1>0, <1>1, <3>2 DEF StepSucceeds, At, Run
      <4> QED BY <4>1
    <3> QED BY <1>16, <3>1, <3>2
  <2>2. rec.pc = "invoke" => rec.done < MaxIterations
    BY DEF Bounded
  <2> HIDE DEF rec, new
  <2>3. Bounded(new) /\ ~Walking(new) /\ ~Walking(rec) /\ Looping(new) /\ Looping(rec)
    BY <1>3, <2>1, <2>2 DEF Bounded, Walking, Looping
  <2>4. StepsLeft(new) = PhaseWeight[new.pc] + 2 * (MaxIterations - new.done)
    BY <2>3 DEF StepsLeft, Phase
  <2>5. StepsLeft(rec) = PhaseWeight[rec.pc] + 2 * (MaxIterations - rec.done)
    BY <2>3 DEF StepsLeft, Phase
  <2>6. PhaseWeight["step"] = 38 /\ PhaseWeight["invoke"] = 37
    BY Weights
  <2>7. StepsLeft(new) < StepsLeft(rec)
    BY <1>3, <2>1, <2>4, <2>5, <2>6
  <2> QED BY <2>3, <2>7 DEF rec, new
<1> QED
  BY <1>8, <1>9, <1>10, <1>11, <1>12, <1>13, <1>14, <1>15, <1>16 DEF RunStep

\* What begins, ends or is left alone stays bounded.
LEMMA BoundedStep ==
  ASSUME TypeInv, \A w \in Runners, t \in Tasks : Bounded(run[w][t]), [Next]_vars,
         NEW v \in Runners, NEW u \in Tasks
  PROVE  /\ Bounded(run'[v][u])
         /\ \/ run[v][u].pc = "idle" \/ run'[v][u] \in {run[v][u], IdleRun}
            \/ RunStep(v, u) /\ StepsLeft(run'[v][u]) < StepsLeft(run[v][u])
<1> DEFINE begun == [IdleRun EXCEPT !.pc = "load"]
           Good == /\ Bounded(run'[v][u])
                   /\ \/ run[v][u].pc = "idle" \/ run'[v][u] \in {run[v][u], IdleRun}
                      \/ RunStep(v, u) /\ StepsLeft(run'[v][u]) < StepsLeft(run[v][u])
<1>0. run \in [Runners -> [Tasks -> GoodRun]]
  BY DEF TypeInv
<1>1. Bounded(IdleRun) /\ Bounded(begun)
  <2>1. /\ IdleRun.pc = "idle" /\ IdleRun.done = 0
        /\ begun.pc = "load" /\ begun.done = 0
    BY DEF IdleRun
  <2> QED BY <2>1, LimitsAssumption DEF Bounded, Walking
<1>2. CASE run'[v][u] \in {run[v][u], IdleRun}
  BY <1>1, <1>2
<1>3. CASE run[v][u].pc = "idle" /\ run'[v][u] = begun
  BY <1>1, <1>3
<1>4. ASSUME NEW w \in Workers, PollSelect(w) \/ PollClaim(w) \/ Crash(w)
      PROVE  Good
  <2>1. CASE PollSelect(w)
    BY <1>2, <2>1 DEF PollSelect, runVars
  <2>2. CASE PollClaim(w)
    <3>1. run'[v][u] = IF v = w /\ u \in Claimed(w) THEN begun ELSE run[v][u]
      BY <1>0, <2>2 DEF PollClaim
    <3>2. u \in Claimed(v) => run[v][u].pc = "idle"
      BY DEF Claimed, Oldest, Active, At
    <3> QED BY <1>2, <1>3, <3>1, <3>2
  <2>3. CASE Crash(w)
    <3>1. run'[v][u] = IF v = w THEN IdleRun ELSE run[v][u]
      BY <1>0, <2>3 DEF Crash
    <3> QED BY <1>2, <3>1
  <2> QED BY <1>4, <2>1, <2>2, <2>3
<1>5. ASSUME NEW c \in Callers, NEW t \in Tasks, Resume(c, t)
      PROVE  Good
  <2>1. /\ run'[v][u] = IF v = c /\ u = t THEN begun ELSE run[v][u]
        /\ run[c][t].pc = "idle"
    BY <1>0, <1>5 DEF Resume, Become, At
  <2> QED BY <1>2, <1>3, <2>1
<1>6. ASSUME NEW w \in Runners, NEW t \in Tasks, RunStep(w, t)
      PROVE  Good
  <2>1. CASE <<v, u>> # <<w, t>>
    BY <1>2, <1>6, <2>1, RunStepTouches
  <2>2. CASE v = w /\ u = t
    BY <1>6, <2>2, RunStepShrinks
  <2> QED BY <2>1, <2>2
<1>7. CASE UNCHANGED run
  BY <1>2, <1>7
<1> QED BY <1>4, <1>5, <1>6, <1>7 DEF Next, WorkerNext, vars, runVars

(***************************************************************************)
(* The safety part of RunsEnd.  A run under way never has more than         *)
(* MostSteps steps left, each of its own steps leaves it fewer, and nobody  *)
(* else gives it more: cancellations, decisions, other runs and new plans   *)
(* do not touch it, and a death ends it.  No gate, limit, handler or stale  *)
(* copy makes run() loop, for any plans, graphs and limits.                 *)
(***************************************************************************)
THEOREM RunsAreFinite ==
  Spec => /\ [](\A w \in Runners, t \in Tasks : StepsLeft(run[w][t]) \in 0..MostSteps)
          /\ [][\A w \in Runners, t \in Tasks :
                  \/ run[w][t].pc = "idle" \/ run'[w][t] \in {run[w][t], IdleRun}
                  \/ RunStep(w, t) /\ StepsLeft(run'[w][t]) < StepsLeft(run[w][t])]_vars
<1> DEFINE AllBounded == \A w \in Runners, t \in Tasks : Bounded(run[w][t])
           Nearer == \A w \in Runners, t \in Tasks :
                       \/ run[w][t].pc = "idle" \/ run'[w][t] \in {run[w][t], IdleRun}
                       \/ RunStep(w, t) /\ StepsLeft(run'[w][t]) < StepsLeft(run[w][t])
           Few == \A w \in Runners, t \in Tasks : StepsLeft(run[w][t]) \in 0..MostSteps
<1>1. Init => AllBounded
  <2>1. IdleRun.pc = "idle" /\ IdleRun.done = 0
    BY DEF IdleRun
  <2>2. Bounded(IdleRun)
    BY <2>1, LimitsAssumption DEF Bounded, Walking
  <2> QED BY <2>2 DEF Init, RunInit
<1>2. TypeInv /\ AllBounded /\ [Next]_vars => AllBounded' /\ Nearer
  BY BoundedStep
<1>3. TypeInv /\ AllBounded => Few
  <2> SUFFICES ASSUME TypeInv, AllBounded, NEW w \in Runners, NEW t \in Tasks
               PROVE  StepsLeft(run[w][t]) \in 0..MostSteps
    OBVIOUS
  <2>1. run[w][t] \in Run /\ Bounded(run[w][t])
    BY DEF TypeInv, GoodRun
  <2> QED BY <2>1, StepsOfRun
<1> HIDE DEF AllBounded, Nearer, Few
<1>4. Spec => []Few /\ [][Nearer]_vars
  BY <1>1, <1>2, <1>3, TypeInvInvariant, PTL DEF Spec
<1> QED BY <1>4 DEF Few, Nearer

=============================================================================
