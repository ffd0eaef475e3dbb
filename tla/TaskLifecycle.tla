----------------------------- MODULE TaskLifecycle ----------------------------
(***************************************************************************)
(* What a reader of tasks.state may rely on whatever the writers interleave: *)
(* a row is created once, and a state is entered only by an allowed         *)
(* transition from a state the row has been in.  So no phase is entered     *)
(* before one of its predecessors has been reached: COMPLETED needs         *)
(* VERIFYING, EXECUTING needs a validated result, an approval or a          *)
(* verification.  The stronger promise, a transition from the state the row *)
(* is in now, is not kept: see TerminalIsFinal in module TaskSystem.        *)
(***************************************************************************)
EXTENDS TaskStates

CONSTANT Tasks

VARIABLES state, visited

Init ==
  /\ state = [t \in Tasks |-> "absent"]
  /\ visited = [t \in Tasks |-> {}]

Enter(t, s) ==
  /\ state' = [state EXCEPT ![t] = s]
  /\ visited' = [visited EXCEPT ![t] = @ \cup {s}]

Create(t) == state[t] = "absent" /\ Enter(t, "CREATED")

Move(t, target) ==
  /\ \E s \in visited[t] : CanTransition(s, target)
  /\ Enter(t, target)

Next == \E t \in Tasks : Create(t) \/ \E target \in TaskState : Move(t, target)

Spec == Init /\ [][Next]_<<state, visited>>
=============================================================================
