------------------------------- MODULE TaskApi --------------------------------
(***************************************************************************)
(* The HTTP requests that write tasks and approvals: cancel a task, decide  *)
(* an approval.  Every request has a session of its own, so its first read  *)
(* of a row is a SELECT; it validates the transition against that copy and  *)
(* commits later.  Other transactions may commit in between.                *)
(***************************************************************************)
EXTENDS TaskStore

CONSTANTS
  Cancellers,   \* clients of POST /tasks/{id}/cancel
  Deciders      \* clients of POST /tasks/{id}/approval

ASSUME ClientsAssumption == Cancellers \cap Deciders = {}

Clients == Cancellers \cup Deciders

VARIABLE request   \* request[c]: the request of client c being served

apiVars == <<request>>

Verdicts == {"approved", "rejected"}

NoRequest == [pc |-> "idle", task |-> 0, approval |-> 0, verdict |-> "approved"]

Request == [pc : {"idle", "cancelling", "found", "locked"}, task : Tasks \cup {0},
            approval : Nat, verdict : Verdicts]

ApiInit == request = [c \in Clients |-> NoRequest]

Idle(c) == request[c].pc = "idle"

\* cancel_task: get_task, can_cancel and transition() on the copy just read.
\* A state that is not cancellable answers 409 and changes nothing.
CancelRead(c, t) ==
  /\ Idle(c)
  /\ tasks[t].state # "absent"
  /\ CanCancel(tasks[t].state)
  /\ CanTransition(tasks[t].state, "CANCELLED")
  /\ request' = [request EXCEPT ![c] = [NoRequest EXCEPT !.pc = "cancelling",
                                                         !.task = t]]
  /\ UNCHANGED storeVars

CancelCommit(c) ==
  /\ request[c].pc = "cancelling"
  /\ SetState(request[c].task, "CANCELLED")
  /\ request' = [request EXCEPT ![c] = NoRequest]
  /\ UNCHANGED <<approvals, approvedOnce>>

\* The route looks an approval up, then calls decide().
DecideFind(c, t, verdict) ==
  /\ Idle(c)
  /\ \E a \in LatestPending(t) :
       request' = [request EXCEPT ![c] = [pc |-> "found", task |-> t,
                                          approval |-> a, verdict |-> verdict]]
  /\ UNCHANGED storeVars

DecisionTarget(verdict) == IF verdict = "approved" THEN "EXECUTING" ELSE "CANCELLED"

\* Loading the task flushes the new status first, so a request holds the row
\* lock of its approval from here to its commit.
ApprovalUnlocked(c) ==
  \A d \in Clients : ~(request[d].pc = "locked"
                       /\ request[d].approval = request[c].approval)

DecisionAllowed(c) ==
  CanTransition(tasks[request[c].task].state, DecisionTarget(request[c].verdict))

DecideLock(c) ==
  /\ request[c].pc = "found"
  /\ ApprovalUnlocked(c)
  /\ DecisionAllowed(c)
  /\ request' = [request EXCEPT ![c].pc = "locked"]
  /\ UNCHANGED storeVars

\* InvalidStateTransitionError: the flushed status is rolled back.
DecideRefused(c) ==
  /\ request[c].pc = "found"
  /\ ApprovalUnlocked(c)
  /\ ~DecisionAllowed(c)
  /\ request' = [request EXCEPT ![c] = NoRequest]
  /\ UNCHANGED storeVars

\* One transaction: the status and the state.
DecideCommit(c) ==
  LET q == request[c]
      a == approvals[q.approval]
  IN  /\ q.pc = "locked"
      /\ approvals' = [approvals EXCEPT ![q.approval].status = q.verdict]
      /\ SetState(q.task, DecisionTarget(q.verdict))
      /\ approvedOnce' = IF q.verdict = "approved"
                         THEN approvedOnce \cup {<<a.task, a.action, a.target>>}
                         ELSE approvedOnce
      /\ request' = [request EXCEPT ![c] = NoRequest]

ClientNext ==
  \/ \E c \in Cancellers : CancelCommit(c) \/ \E t \in Tasks : CancelRead(c, t)
  \/ \E c \in Deciders :
       \/ \E t \in Tasks, v \in Verdicts : DecideFind(c, t, v)
       \/ DecideLock(c)
       \/ DecideRefused(c)
       \/ DecideCommit(c)
=============================================================================
