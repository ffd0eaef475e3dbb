----------------------------- MODULE MCTaskSystem -----------------------------
(* Constants for model checking TaskSystem. *)
EXTENDS TaskSystem

Research == [name |-> "research", agent |-> "research", requires_approval |-> FALSE]
Publish  == [name |-> "publish", agent |-> "social", requires_approval |-> TRUE]

MCAgents == {"research", "social"}
MCStepNames == {"research", "publish"}
MCPlans == {<<>>, <<Publish>>, <<Research, Publish>>}
ShortPlans == {<<Publish>>, <<Research>>}
=============================================================================
