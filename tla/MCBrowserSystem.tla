---------------------------- MODULE MCBrowserSystem ----------------------------
(* Constants for model checking BrowserSystem. *)
EXTENDS BrowserSystem

Cast(clients, calls, events, faulty) ==
  [clients |-> clients, calls |-> calls, events |-> events, faults |-> faulty]

\* All clients and a fault but no tool calls; a run that stops the manager
\* under the calls of a user; a user alone, whose pages crash, close and open.
MCCasts ==
  {Cast(Clients, 0, 0, MaxFaults), Cast(Users, 4, 1, 0), Cast(Users, 3, 2, 0)} \cup
  {Cast({r} \cup Users, 2, 0, 0) : r \in {CHOOSE r \in Runs : TRUE}}
=============================================================================
