---------------------------- MODULE BrowserManager ----------------------------
(***************************************************************************)
(* BrowserSessionManager: one Playwright driver, one browser and a dict of  *)
(* sessions, shared by the orchestrator runs that were given the manager    *)
(* and by the users of the /browser/sessions routes.  A client opens one    *)
(* session, so sessions, contexts and start() calls bear its name.          *)
(*                                                                          *)
(* Every await of start(), stop(), open_session() and close_session() is a  *)
(* step; what the code does between two awaits is one step.                 *)
(***************************************************************************)
EXTENDS Naturals, FiniteSets

CONSTANTS
  Runs,        \* orchestrator runs of a plan with browser steps
  Users,       \* clients of the routes
  None,        \* Python's None
  MaxFaults    \* bound: Playwright calls that fail

Clients == Runs \cup Users

ASSUME ClientsAssumption == Runs \cap Users = {} /\ None \notin Clients
ASSUME FaultsAssumption == MaxFaults \in Nat

VARIABLES
  launch,      \* launch[c]: the driver and browser that the start() of c launched
  playwright,  \* self._playwright
  browser,     \* self._browser
  context,     \* context[c]: the Playwright context of the session of c
  sessions,    \* the keys of self._sessions
  client,      \* client[c]: where c is
  faults

managerVars == <<launch, playwright, browser, context, sessions, client, faults>>

\* "driver": Playwright runs, but no browser of it; "stopped": neither runs.
LaunchStates == {"none", "driver", "up", "closed", "stopped"}

PCs == {"idle", "start", "launch", "context", "page", "open", "closing",
        "stopping", "browser", "driver", "done", "refused", "failed"}

\* on: the launch its context is on; target: the launch that stop() is at;
\* doomed: the sessions whose close() stop() still has to await.
Client == [pc : PCs, on : Clients \cup {None}, target : Clients \cup {None},
           doomed : SUBSET Clients]

ManagerInit ==
  /\ launch = [c \in Clients |-> "none"]
  /\ playwright = None
  /\ browser = None
  /\ context = [c \in Clients |-> "none"]
  /\ sessions = {}
  /\ client = [c \in Clients |->
                 [pc |-> "idle", on |-> None, target |-> None, doomed |-> {}]]
  /\ faults = 0

At(c, pc) == client[c].pc = pc

Over(c) == client[c].pc \in {"done", "refused", "failed"}

Become(c, rec) == client' = [client EXCEPT ![c] = rec]

Goto(c, pc) == Become(c, [client[c] EXCEPT !.pc = pc])

\* The contexts of a browser end with it.
Ended(b) == [c \in Clients |-> IF client[c].on = b /\ context[c] = "open"
                               THEN "closed" ELSE context[c]]

-----------------------------------------------------------------------------
(* Opening a session.                                                       *)

\* _open_browser_session_if_needed: start(), whatever the manager holds.
OpenRun(r) ==
  /\ At(r, "idle")
  /\ Goto(r, "start")
  /\ UNCHANGED <<launch, playwright, browser, context, sessions, faults>>

\* Mutant: the route asks for a driver instead of a browser.
OpenRouteAsksDriver(u) ==
  /\ At(u, "idle")
  /\ Become(u, IF playwright = None
               THEN [client[u] EXCEPT !.pc = "start"]
               ELSE [client[u] EXCEPT !.pc = "context", !.on = browser])
  /\ UNCHANGED <<launch, playwright, browser, context, sessions, faults>>

\* POST /browser/sessions: start() only if _browser is None.
OpenRoute(u) ==
  /\ At(u, "idle")
  /\ Become(u, IF browser = None
               THEN [client[u] EXCEPT !.pc = "start"]
               ELSE [client[u] EXCEPT !.pc = "context", !.on = browser])
  /\ UNCHANGED <<launch, playwright, browser, context, sessions, faults>>

\* Mutant: start() waits for a driver it takes to be starting already.
StartDriverOnce(c) ==
  /\ At(c, "start")
  /\ playwright = None
  /\ launch' = [launch EXCEPT ![c] = "driver"]
  /\ playwright' = c
  /\ Goto(c, "launch")
  /\ UNCHANGED <<browser, context, sessions, faults>>

\* start(): async_playwright().start() returns.
StartDriver(c) ==
  /\ At(c, "start")
  /\ launch' = [launch EXCEPT ![c] = "driver"]
  /\ playwright' = c
  /\ Goto(c, "launch")
  /\ UNCHANGED <<browser, context, sessions, faults>>

\* start(): launch() returns, and open_session() calls new_context() on the
\* browser just assigned.
LaunchBrowser(c) ==
  /\ At(c, "launch")
  /\ launch[c] = "driver"
  /\ launch' = [launch EXCEPT ![c] = "up"]
  /\ browser' = c
  /\ Become(c, [client[c] EXCEPT !.pc = "context", !.on = c])
  /\ UNCHANGED <<playwright, context, sessions, faults>>

\* open_session() refuses if there is no browser.
CreateContext(c) ==
  /\ At(c, "context")
  /\ client[c].on # None
  /\ launch[client[c].on] = "up"
  /\ context' = [context EXCEPT ![c] = "open"]
  /\ Goto(c, "page")
  /\ UNCHANGED <<launch, playwright, browser, sessions, faults>>

OpenPage(c) ==
  /\ At(c, "page")
  /\ context[c] = "open"
  /\ sessions' = sessions \cup {c}
  /\ Goto(c, "open")
  /\ UNCHANGED <<launch, playwright, browser, context, faults>>

\* What c waits for was closed under it.
Undermined(c) ==
  \/ At(c, "launch") /\ launch[c] # "driver"
  \/ At(c, "context") /\ (client[c].on = None \/ launch[client[c].on] # "up")
  \/ At(c, "page") /\ context[c] # "open"

Fault == faults < MaxFaults /\ faults' = faults + 1

\* The error leaves start() or open_session().  A run has not entered the try
\* whose finally closes the session and stops the manager.
FailOpen(c) ==
  /\ client[c].pc \in {"start", "launch", "context", "page"}
  /\ IF Undermined(c) THEN UNCHANGED faults ELSE Fault
  /\ Goto(c, "refused")
  /\ UNCHANGED <<launch, playwright, browser, context, sessions>>

-----------------------------------------------------------------------------
(* Closing it.                                                              *)

\* stop() takes its list of sessions; without any, _browser.close() is next.
Stopping(c, open) ==
  IF open = {} THEN [client[c] EXCEPT !.pc = "browser", !.target = browser]
               ELSE [client[c] EXCEPT !.pc = "stopping", !.doomed = open]

\* Mutant: the session stays in the dict while its context is closed.
CloseRouteLatePop(u) ==
  /\ At(u, "open")
  /\ Goto(u, IF u \in sessions THEN "closing" ELSE "done")
  /\ UNCHANGED <<launch, playwright, browser, context, sessions, faults>>

\* DELETE /browser/sessions/{id}: pop, then await close().
CloseRoute(u) ==
  /\ At(u, "open")
  /\ sessions' = sessions \ {u}
  /\ Goto(u, IF u \in sessions THEN "closing" ELSE "done")
  /\ UNCHANGED <<launch, playwright, browser, context, faults>>

\* _close_browser_session in the finally: close_session(), then stop(); if a
\* stop() of another run has emptied the dict, stop() follows at once.
CloseRun(r) ==
  /\ At(r, "open")
  /\ sessions' = sessions \ {r}
  /\ IF r \in sessions THEN Goto(r, "closing") ELSE Become(r, Stopping(r, sessions))
  /\ UNCHANGED <<launch, playwright, browser, context, faults>>

\* Mutant: stop() empties the dict before it closes what was in it.
ContextClosedClearing(c) ==
  /\ At(c, "closing")
  /\ context' = [context EXCEPT ![c] = "closed"]
  /\ IF c \in Runs
     THEN Become(c, Stopping(c, sessions)) /\ sessions' = {}
     ELSE Goto(c, "done") /\ UNCHANGED sessions
  /\ UNCHANGED <<launch, playwright, browser, faults>>

\* session.close() returns; a run goes on to stop().
ContextClosed(c) ==
  /\ At(c, "closing")
  /\ context' = [context EXCEPT ![c] = "closed"]
  /\ IF c \in Runs
     THEN Become(c, Stopping(c, sessions)) /\ sessions' = sessions
     ELSE Goto(c, "done") /\ UNCHANGED sessions
  /\ UNCHANGED <<launch, playwright, browser, faults>>

\* stop(): close() of one session of the list returns; after the last one the
\* dict is cleared, with whatever was added since.
CloseDoomed(r, s) ==
  /\ At(r, "stopping")
  /\ s \in client[r].doomed
  /\ context' = [context EXCEPT ![s] = "closed"]
  /\ IF client[r].doomed = {s}
     THEN /\ sessions' = {}
          /\ Become(r, [client[r] EXCEPT !.doomed = {}, !.pc = "browser", !.target = browser])
     ELSE /\ Become(r, [client[r] EXCEPT !.doomed = @ \ {s}])
          /\ UNCHANGED sessions
  /\ UNCHANGED <<launch, playwright, browser, faults>>

\* stop(): _browser.close() returns; _browser keeps naming the closed browser.
BrowserClosed(r) ==
  LET b == client[r].target
  IN  /\ At(r, "browser")
      /\ launch' = [launch EXCEPT ![b] = IF @ = "up" THEN "closed" ELSE @]
      /\ context' = Ended(b)
      /\ Become(r, [client[r] EXCEPT !.pc = "driver", !.target = playwright])
      /\ UNCHANGED <<playwright, browser, sessions, faults>>

\* Mutant: Playwright is not stopped.
DriverKept(r) ==
  /\ At(r, "driver")
  /\ Goto(r, "done")
  /\ UNCHANGED <<launch, playwright, browser, context, sessions, faults>>

\* stop(): _playwright.stop() returns; a browser of that driver ends with it.
DriverStopped(r) ==
  LET p == client[r].target
  IN  /\ At(r, "driver")
      /\ launch' = [launch EXCEPT ![p] = "stopped"]
      /\ context' = Ended(p)
      /\ Goto(r, "done")
      /\ UNCHANGED <<playwright, browser, sessions, faults>>

\* An error leaves close_session() or stop(), and the rest is not done.
\* Closing a context that has ended may raise as well.
FailClose(c) ==
  /\ \/ client[c].pc \in {"closing", "stopping", "browser", "driver"} /\ Fault
     \/ At(c, "closing") /\ context[c] = "closed" /\ UNCHANGED faults
     \/ /\ At(c, "stopping")
        /\ \E s \in client[c].doomed : context[s] = "closed"
        /\ UNCHANGED faults
  /\ Goto(c, "failed")
  /\ UNCHANGED <<launch, playwright, browser, context, sessions>>

-----------------------------------------------------------------------------

\* What the event loop does for c once Playwright has answered.
ManagerStep(c) ==
  \/ StartDriver(c) \/ LaunchBrowser(c) \/ CreateContext(c) \/ OpenPage(c)
  \/ ContextClosed(c)
  \/ \E s \in Clients : CloseDoomed(c, s)
  \/ c \in Runs /\ (BrowserClosed(c) \/ DriverStopped(c))
  \/ FailOpen(c) \/ FailClose(c)

ManagerNext ==
  \/ \E r \in Runs : OpenRun(r) \/ CloseRun(r)
  \/ \E u \in Users : OpenRoute(u) \/ CloseRoute(u)
  \/ \E c \in Clients : ManagerStep(c)

ManagerSpec == ManagerInit /\ [][ManagerNext]_managerVars

-----------------------------------------------------------------------------

ManagerTypeOK ==
  /\ launch \in [Clients -> LaunchStates]
  /\ playwright \in Clients \cup {None}
  /\ browser \in Clients \cup {None}
  /\ context \in [Clients -> {"none", "open", "closed"}]
  /\ sessions \in SUBSET Clients
  /\ client \in [Clients -> Client]
  /\ faults \in 0..MaxFaults

(***************************************************************************)
(* When a run has left _close_browser_session, its driver is stopped and    *)
(* its context closed, unless the start() of another client has replaced    *)
(* the manager's only reference to them: that is the one way, among all     *)
(* overlaps of starts, opens and stops, to leave a browser behind.          *)
(***************************************************************************)
RunLeavesNothing ==
  \A r \in Runs : At(r, "done") =>
    /\ playwright = r => launch[r] = "stopped"
    /\ browser = client[r].on => context[r] = "closed"

(***************************************************************************)
(* A session that GET /browser/sessions/{id} and the tools still find is    *)
(* usable, unless a stop() is closing it, a stop() that failed half-way has *)
(* left it, or the browser it was opened on has been stopped meanwhile.     *)
(***************************************************************************)
RegisteredIsUsable ==
  \A c \in sessions :
    \/ context[c] = "open"
    \/ launch[client[c].on] # "up"
    \/ \E r \in Runs : client[r].pc \in {"stopping", "failed"}

(***************************************************************************)
(* POST /browser/sessions is refused only by what a run's stop() did: the   *)
(* routes alone, however they overlap, launch browsers to spare but always  *)
(* get a session (unless Playwright itself fails).                          *)
(***************************************************************************)
RoutesFailOnlyAfterStop ==
  (\E u \in Users : At(u, "refused")) /\ faults = 0 =>
    \E r \in Runs : client[r].pc \in {"driver", "done", "failed"}

(***************************************************************************)
(* A session that works can be found, and so be closed: stop() clears the   *)
(* dict of a session opened meanwhile only if it closes its browser next.   *)
(* Excepted are a stop() that failed there, and a session of a browser that *)
(* another start() has replaced.                                            *)
(***************************************************************************)
SessionsNotLost ==
  \A c \in Clients : At(c, "open") /\ context[c] = "open" =>
    \/ c \in sessions
    \/ browser # client[c].on
    \/ \E r \in Runs : At(r, "failed") \/ (At(r, "browser") /\ client[r].target = client[c].on)
=============================================================================
