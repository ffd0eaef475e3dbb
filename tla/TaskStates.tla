------------------------------ MODULE TaskStates ------------------------------
(***************************************************************************)
(* The task state machine of app/domain/state_machine.py and the order in  *)
(* which the orchestrator walks it.  Constant-level: shared by the          *)
(* services, the orchestrator, the worker and the abstract life cycle.      *)
(***************************************************************************)
EXTENDS Integers, Sequences

TaskState == {"CREATED", "VALIDATING", "PLANNING", "RESEARCHING", "DRAFTING",
              "VALIDATING_RESULT", "WAITING_FOR_APPROVAL", "EXECUTING",
              "VERIFYING", "COMPLETED", "FAILED", "CANCELLED", "TIMED_OUT",
              "BLOCKED"}

TERMINAL_STATES == {"COMPLETED", "FAILED", "CANCELLED", "TIMED_OUT"}

\* BLOCKED may still be cancelled: it is not in TERMINAL_STATES.
CANCELLABLE_STATES == {"CREATED", "VALIDATING", "PLANNING", "RESEARCHING",
                       "DRAFTING", "VALIDATING_RESULT",
                       "WAITING_FOR_APPROVAL", "EXECUTING", "VERIFYING",
                       "BLOCKED"}

\* _HAPPY_PATH: the forward moves of each state.
HappyPath ==
  [CREATED              |-> {"VALIDATING", "CANCELLED"},
   VALIDATING           |-> {"PLANNING"},
   PLANNING             |-> {"RESEARCHING", "DRAFTING"},
   RESEARCHING          |-> {"DRAFTING", "PLANNING"},
   DRAFTING             |-> {"VALIDATING_RESULT"},
   VALIDATING_RESULT    |-> {"WAITING_FOR_APPROVAL", "EXECUTING", "DRAFTING"},
   WAITING_FOR_APPROVAL |-> {"EXECUTING", "CANCELLED"},
   EXECUTING            |-> {"VERIFYING", "WAITING_FOR_APPROVAL"},
   VERIFYING            |-> {"COMPLETED", "EXECUTING"},
   COMPLETED |-> {}, FAILED |-> {}, CANCELLED |-> {}, TIMED_OUT |-> {},
   BLOCKED   |-> {}]

EscalationTargets == {"FAILED", "TIMED_OUT", "BLOCKED", "CANCELLED"}

AllowedTransitions ==
  [s \in TaskState |->
     HappyPath[s] \cup (IF s \in TERMINAL_STATES THEN {} ELSE EscalationTargets)]

CanTransition(current, target) ==
  /\ current \notin TERMINAL_STATES
  /\ target \in AllowedTransitions[current]

CanCancel(current) == current \in CANCELLABLE_STATES

-----------------------------------------------------------------------------
(* Orchestrator._HAPPY_PATH_ORDER and _walk_to.                             *)

HappyPathOrder == <<"CREATED", "VALIDATING", "PLANNING", "RESEARCHING",
                    "DRAFTING", "VALIDATING_RESULT", "EXECUTING",
                    "VERIFYING", "COMPLETED">>

OnHappyPath(s) == \E i \in 1..Len(HappyPathOrder) : HappyPathOrder[i] = s

PathIndex(s) == CHOOSE i \in 1..Len(HappyPathOrder) : HappyPathOrder[i] = s

(***************************************************************************)
(* The transitions _walk_to(target) will ask for, decided once from the     *)
(* state the session holds: none when it is already there or beyond, a      *)
(* direct jump when the state is off the path (WAITING_FOR_APPROVAL or a    *)
(* failure state), otherwise every state in between.                        *)
(***************************************************************************)
WalkPath(current, target) ==
  IF current = target THEN <<>>
  ELSE IF OnHappyPath(current)
       THEN SubSeq(HappyPathOrder, PathIndex(current) + 1, PathIndex(target))
       ELSE <<target>>
=============================================================================
