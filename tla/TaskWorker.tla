------------------------------ MODULE TaskWorker ------------------------------
(***************************************************************************)
(* TaskWorker: the poll loop that claims CREATED tasks and runs the         *)
(* orchestrator for each, and the death of a worker process.                *)
(***************************************************************************)
EXTENDS OrchestratorRun

CONSTANTS
  MaxConcurrent,   \* max_concurrent_tasks
  MaxCrashes,      \* bound: how often worker processes die
  MaxResumes       \* bound: how often callers run a task again

ASSUME WorkerAssumption ==
  MaxConcurrent \in Nat /\ MaxCrashes \in Nat /\ MaxResumes \in Nat

VARIABLES
  batch,      \* batch[w]: the rows the last SELECT of w returned
  crashes, resumes

workerVars == <<batch, crashes, resumes>>

WorkerInit ==
  /\ batch = [w \in Workers |-> {}]
  /\ crashes = 0
  /\ resumes = 0

\* Mutant: an entry of _active_tasks is never popped.
ActiveNeverPopped(w) ==
  {t \in Tasks : ~At(w, t, "idle") \/ tasks[t].state \notin {"absent", "CREATED"}}

\* _active_tasks: the runs of w that have not left _run_task.
Active(w) == {t \in Tasks : ~At(w, t, "idle")}

\* The first n members of S in the order of the ids.
Oldest(S, n) == {t \in S : Cardinality({u \in S : u < t}) < n}

\* _poll_once: the SELECT takes no lock on the rows it returns.
PollSelect(w) ==
  /\ batch[w] = {}
  /\ InState({"CREATED"}) # {}
  /\ batch' = [batch EXCEPT ![w] = Oldest(InState({"CREATED"}), MaxConcurrent)]
  /\ UNCHANGED <<storeVars, runVars, crashes, resumes>>

\* Mutant: the bound on _active_tasks is not checked inside the loop.
ClaimedUnbounded(w) == batch[w] \ Active(w)

Claimed(w) == Oldest(batch[w] \ Active(w), MaxConcurrent - Cardinality(Active(w)))

\* _poll_once: the loop over the rows, which does not await.
PollClaim(w) ==
  /\ batch[w] # {}
  /\ run' = [run EXCEPT ![w] =
               [t \in Tasks |-> IF t \in Claimed(w)
                                THEN [IdleRun EXCEPT !.pc = "load"] ELSE run[w][t]]]
  /\ batch' = [batch EXCEPT ![w] = {}]
  /\ UNCHANGED <<storeVars, performed, crashes, resumes>>

\* The process dies: its sessions are rolled back, _active_tasks is lost.
Crash(w) ==
  /\ crashes < MaxCrashes
  /\ crashes' = crashes + 1
  /\ run' = [run EXCEPT ![w] = [t \in Tasks |-> IdleRun]]
  /\ batch' = [batch EXCEPT ![w] = {}]
  /\ UNCHANGED <<storeVars, performed, resumes>>

\* Running a task again once its approval has put it back to EXECUTING.  No
\* production code does this; the integration tests do.
Resume(c, t) ==
  /\ resumes < MaxResumes
  /\ At(c, t, "idle")
  /\ tasks[t].state = "EXECUTING"
  /\ resumes' = resumes + 1
  /\ Become(c, t, [IdleRun EXCEPT !.pc = "load"])
  /\ UNCHANGED <<storeVars, performed, batch, crashes>>

WorkerNext ==
  \/ \E w \in Workers : PollSelect(w) \/ PollClaim(w) \/ Crash(w)
  \/ \E c \in Callers, t \in Tasks : Resume(c, t)
  \/ \E w \in Runners, t \in Tasks : RunStep(w, t) /\ UNCHANGED workerVars
=============================================================================
