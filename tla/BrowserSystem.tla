---------------------------- MODULE BrowserSystem ----------------------------
(***************************************************************************)
(* One BrowserSessionManager with its runs, its routes and the tool calls   *)
(* on its sessions.                                                         *)
(***************************************************************************)
EXTENDS BrowserTabs

CONSTANT
  Casts   \* bound: who takes part, with how many calls, page events and faults

ASSUME CastsAssumption ==
  Casts \subseteq [clients : SUBSET Clients, calls : Nat, events : Nat, faults : 0..MaxFaults]

VARIABLE
  cast   \* the clients that may come, and what is left of the rest

vars == <<managerVars, tabVars, cast>>

Init ==
  /\ ManagerInit
  /\ TabsInit
  /\ cast \in Casts

Arrive(c) == c \in cast.clients /\ UNCHANGED <<tabVars, cast>>

Open ==
  \/ \E r \in Runs : OpenRun(r) /\ Arrive(r)
  \/ \E u \in Users : OpenRoute(u) /\ Arrive(u)

Close ==
  /\ \/ \E r \in Runs : CloseRun(r)
     \/ \E u \in Users : CloseRoute(u)
  /\ UNCHANGED <<tabVars, cast>>

Manage(c) == ManagerStep(c) /\ faults' <= cast.faults /\ UNCHANGED <<tabVars, cast>>

MakeCall(k, u) ==
  /\ cast.calls > 0
  /\ cast' = [cast EXCEPT !.calls = @ - 1]
  /\ EnterCall(k, u)
  /\ UNCHANGED managerVars

ServeCall(k) == CallStep(k) /\ UNCHANGED <<managerVars, cast>>

Happen ==
  /\ cast.events > 0
  /\ cast' = [cast EXCEPT !.events = @ - 1]
  /\ \E u \in Users : PageEvent(u)
  /\ UNCHANGED managerVars

Next ==
  \/ Open \/ Close \/ Happen
  \/ \E c \in Clients : Manage(c)
  \/ \E k \in Callers : ServeCall(k) \/ \E u \in Users : MakeCall(k, u)

Spec == Init /\ [][Next]_vars

\* Playwright answers or raises.  How long a run works before it closes its
\* session, and whether a user ever does, is not promised.
FairSpec == Spec /\ \A c \in Clients : WF_vars(Manage(c))

TypeOK ==
  /\ ManagerTypeOK
  /\ TabsTypeOK
  /\ cast \in [clients : SUBSET Clients, calls : Nat, events : Nat, faults : 0..MaxFaults]

(***************************************************************************)
(* Opening and closing end: with a session, with everything closed or with  *)
(* an error, also when another client stops the manager in between.         *)
(***************************************************************************)
Settles ==
  \A c \in Clients :
    client[c].pc \notin {"idle", "open"} ~> At(c, "open") \/ Over(c)
=============================================================================
