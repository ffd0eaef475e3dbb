------------------------------ MODULE BrowserProofs ------------------------------
(***************************************************************************)
(* What BrowserSessionManager, the sessions and the tool calls on them      *)
(* promise, for any number of runs, users, calls, tabs, events and faults.  *)
(***************************************************************************)
EXTENDS BrowserSystem, FiniteSetTheorems, TLAPS

-----------------------------------------------------------------------------
(***************************************************************************)
(* The manager's inductive invariant, by its parts.                         *)
(***************************************************************************)

Early == {"idle", "start", "launch", "context", "page"}

\* Browsers that have been launched.
Up == {"up", "closed", "stopped"}

\* Only a run calls stop().
OnlyRunsStop ==
  \A c \in Clients : client[c].pc \in {"stopping", "browser", "driver"} => c \in Runs

\* A client that has not opened anything has nothing.
Fresh ==
  \A c \in Clients :
    /\ client[c].pc \in {"idle", "start", "launch"} => client[c].on = None
    /\ client[c].pc \in {"idle", "start"} => launch[c] = "none"
    /\ client[c].pc \notin {"idle", "start", "launch", "context", "refused"} => client[c].on # None

\* What is taken for a browser was launched, and what is taken for a driver was
\* started.
Launched ==
  /\ playwright # None => launch[playwright] # "none"
  /\ \A c \in Clients : client[c].pc = "driver" /\ client[c].target # None =>
       launch[client[c].target] # "none"
  /\ browser # None => launch[browser] \in Up
  /\ \A c \in Clients : client[c].on # None => launch[client[c].on] \in Up

\* A session is registered while it is open, and stop() lists no others.
Registered ==
  /\ \A c \in Clients : c \in sessions => client[c].pc = "open"
  /\ \A c, s \in Clients : s \in client[c].doomed => client[s].pc \notin Early

\* What the manager knows a run by is what its stop() gets hold of.
Mine ==
  \A r \in Runs :
    /\ client[r].on \in {r, None}
    /\ client[r].pc \notin Early \cup {"refused"} => context[r] # "none"
    /\ client[r].pc = "page" => context[r] # "none"
    /\ client[r].pc = "browser" /\ browser = r => client[r].target = r
    /\ client[r].pc \in {"driver", "done"} /\ browser = r => context[r] = "closed"
    /\ client[r].pc = "driver" /\ playwright = r => client[r].target = r
    /\ client[r].pc = "done" /\ playwright = r => launch[r] = "stopped"

\* Until a stop() has closed a browser, and unless Playwright fails, every
\* opening succeeds.
Quiet == faults = 0 /\ \A r \in Runs : client[r].pc \notin {"driver", "done", "failed"}

Undisturbed ==
  Quiet =>
    /\ \A c \in Clients : client[c].pc # "refused" /\ ~Undermined(c)
    /\ browser # None => launch[browser] = "up"

ManagerInv ==
  /\ ManagerTypeOK /\ OnlyRunsStop /\ Fresh /\ Launched /\ Registered /\ Mine
  /\ RegisteredIsUsable /\ Undisturbed

-----------------------------------------------------------------------------
(* Steps of a client.                                                       *)

\* What the type invariant says of one client.
LEMMA ClientFields ==
  ASSUME NEW rec \in Client
  PROVE  /\ rec = [pc |-> rec.pc, on |-> rec.on, target |-> rec.target, doomed |-> rec.doomed]
         /\ rec.pc \in PCs /\ rec.on \in Clients \cup {None} /\ rec.target \in Clients \cup {None}
         /\ rec.doomed \subseteq Clients
BY DEF Client

\* stop() begins.
LEMMA StoppingIs ==
  ASSUME client \in [Clients -> Client], NEW c \in Clients, NEW open \in SUBSET Clients,
         browser \in Clients \cup {None}
  PROVE  /\ Stopping(c, open) \in Client /\ Stopping(c, open).on = client[c].on
         /\ IF open = {}
            THEN /\ Stopping(c, open).pc = "browser" /\ Stopping(c, open).target = browser
                 /\ Stopping(c, open).doomed = client[c].doomed
            ELSE /\ Stopping(c, open).pc = "stopping" /\ Stopping(c, open).target = client[c].target
                 /\ Stopping(c, open).doomed = open
<1>1. client[c] \in Client
  OBVIOUS
<1>2. CASE open = {}
  BY <1>1, <1>2 DEF Stopping, Client, PCs
<1>3. CASE open # {}
  BY <1>1, <1>3 DEF Stopping, Client, PCs
<1> QED BY <1>2, <1>3

\* Only the client that goes on changes.
LEMMA Becoming ==
  ASSUME client \in [Clients -> Client], NEW c \in Clients, NEW rec \in Client, Become(c, rec)
  PROVE  /\ client' \in [Clients -> Client] /\ client'[c] = rec
         /\ \A d \in Clients : d # c => client'[d] = client[d]
BY DEF Become

\* It goes on to another step with what it has.
LEMMA Going ==
  ASSUME client \in [Clients -> Client], NEW c \in Clients, NEW pc \in PCs, Goto(c, pc)
  PROVE  /\ client' \in [Clients -> Client] /\ client'[c].pc = pc
         /\ client'[c].on = client[c].on /\ client'[c].target = client[c].target
         /\ client'[c].doomed = client[c].doomed
         /\ \A d \in Clients : d # c => client'[d] = client[d]
BY DEF Goto, Become, Client

\* A run comes.
LEMMA OpenRunKeeps == ASSUME ManagerInv, NEW r \in Runs, OpenRun(r) PROVE ManagerInv'
<1>0. /\ launch \in [Clients -> LaunchStates] /\ client \in [Clients -> Client]
      /\ context \in [Clients -> {"none", "open", "closed"}] /\ sessions \subseteq Clients
      /\ playwright \in Clients \cup {None} /\ browser \in Clients \cup {None} /\ None \notin Clients
      /\ Runs \subseteq Clients /\ Users \subseteq Clients /\ Runs \cap Users = {}
  BY ClientsAssumption DEF ManagerInv, ManagerTypeOK, Clients
<1>1. /\ client[r].pc = "idle" /\ client'[r].pc = "start"
      /\ client'[r].on = client[r].on /\ client'[r].target = client[r].target
      /\ client'[r].doomed = client[r].doomed
      /\ \A d \in Clients : d # r => client'[d] = client[d]
      /\ client' \in [Clients -> Client]
      /\ UNCHANGED <<launch, playwright, browser, context, sessions, faults>>
  BY <1>0, Going DEF OpenRun, At, PCs
<1>2. ManagerTypeOK'
  BY <1>0, <1>1 DEF ManagerInv, ManagerTypeOK, LaunchStates
<1>3. OnlyRunsStop'
  BY <1>0, <1>1 DEF ManagerInv, OnlyRunsStop
<1>4. Fresh'
  BY <1>0, <1>1 DEF ManagerInv, Fresh
<1>5. Launched'
  BY <1>0, <1>1 DEF ManagerInv, Launched, Fresh, Up
<1>6. Registered'
  BY <1>0, <1>1 DEF ManagerInv, Registered, Early
<1>7. Mine'
  BY <1>0, <1>1 DEF ManagerInv, Mine, Fresh, Early
<1>8. RegisteredIsUsable'
  BY <1>0, <1>1 DEF ManagerInv, RegisteredIsUsable, Fresh, Launched, Registered
<1>9. Undisturbed'
  BY <1>0, <1>1 DEF ManagerInv, Undisturbed, Fresh, Registered, Launched, Quiet, Undermined, At
<1> QED BY <1>2, <1>3, <1>4, <1>5, <1>6, <1>7, <1>8, <1>9 DEF ManagerInv

\* One client changes.
LEMMA Became ==
  ASSUME client \in [Clients -> Client], NEW c \in Clients, NEW rec \in Client, Become(c, rec)
  PROVE  /\ client' \in [Clients -> Client] /\ client'[c] = rec
         /\ \A d \in Clients : d # c => client'[d] = client[d]
BY DEF Become

\* A user comes.
LEMMA OpenRouteKeeps == ASSUME ManagerInv, NEW u \in Users, OpenRoute(u) PROVE ManagerInv'
<1>0. /\ launch \in [Clients -> LaunchStates] /\ client \in [Clients -> Client]
      /\ context \in [Clients -> {"none", "open", "closed"}] /\ sessions \subseteq Clients
      /\ playwright \in Clients \cup {None} /\ browser \in Clients \cup {None} /\ None \notin Clients
      /\ Runs \subseteq Clients /\ Users \subseteq Clients /\ Runs \cap Users = {}
  BY ClientsAssumption DEF ManagerInv, ManagerTypeOK, Clients
<1> DEFINE begun == [client[u] EXCEPT !.pc = "start"]
           found == [client[u] EXCEPT !.pc = "context", !.on = browser]
<1>a. client[u] \in Client /\ u \in Clients /\ "start" \in PCs /\ "context" \in PCs
  BY <1>0 DEF PCs
<1>b. /\ begun \in Client /\ begun.pc = "start" /\ begun.on = client[u].on
      /\ begun.target = client[u].target /\ begun.doomed = client[u].doomed
  BY <1>a DEF Client
<1>c. /\ found \in Client /\ found.pc = "context" /\ found.on = browser
      /\ found.target = client[u].target /\ found.doomed = client[u].doomed
  BY <1>0, <1>a DEF Client
<1>d. /\ client[u].pc = "idle"
      /\ Become(u, IF browser = None THEN begun ELSE found)
      /\ UNCHANGED <<launch, playwright, browser, context, sessions, faults>>
  BY DEF OpenRoute, At
<1> HIDE DEF begun, found
<1>1. /\ client[u].pc = "idle"
      /\ \/ client'[u].pc = "start" /\ client'[u].on = client[u].on
         \/ client'[u].pc = "context" /\ client'[u].on = browser /\ browser # None
      /\ client'[u].target = client[u].target /\ client'[u].doomed = client[u].doomed
      /\ \A d \in Clients : d # u => client'[d] = client[d]
      /\ client' \in [Clients -> Client]
      /\ UNCHANGED <<launch, playwright, browser, context, sessions, faults>>
  BY <1>0, <1>a, <1>b, <1>c, <1>d, Became
<1>2. ManagerTypeOK'
  BY <1>0, <1>1 DEF ManagerInv, ManagerTypeOK, LaunchStates
<1>3. OnlyRunsStop'
  BY <1>0, <1>1 DEF ManagerInv, OnlyRunsStop
<1>4. Fresh'
  BY <1>0, <1>1 DEF ManagerInv, Fresh
<1>5. Launched'
  BY <1>0, <1>1 DEF ManagerInv, Launched, Fresh, Up
<1>6. Registered'
  BY <1>0, <1>1 DEF ManagerInv, Registered, Early
<1>7. Mine'
  BY <1>0, <1>1 DEF ManagerInv, Mine, Fresh, Early
<1>8. RegisteredIsUsable'
  BY <1>0, <1>1 DEF ManagerInv, RegisteredIsUsable, Fresh, Launched, Registered
<1>9. Undisturbed'
  BY <1>0, <1>1 DEF ManagerInv, Undisturbed, Fresh, Registered, Launched, Quiet, Undermined, At
<1> QED BY <1>2, <1>3, <1>4, <1>5, <1>6, <1>7, <1>8, <1>9 DEF ManagerInv

\* A driver starts.
LEMMA StartDriverKeeps == ASSUME ManagerInv, NEW c \in Clients, StartDriver(c) PROVE ManagerInv'
<1>0. /\ launch \in [Clients -> LaunchStates] /\ client \in [Clients -> Client]
      /\ context \in [Clients -> {"none", "open", "closed"}] /\ sessions \subseteq Clients
      /\ playwright \in Clients \cup {None} /\ browser \in Clients \cup {None} /\ None \notin Clients
      /\ Runs \subseteq Clients /\ Users \subseteq Clients /\ Runs \cap Users = {}
  BY ClientsAssumption DEF ManagerInv, ManagerTypeOK, Clients
<1>1. /\ client[c].pc = "start" /\ client'[c].pc = "launch"
      /\ client'[c].on = client[c].on /\ client'[c].target = client[c].target
      /\ client'[c].doomed = client[c].doomed
      /\ \A d \in Clients : d # c => client'[d] = client[d]
      /\ client' \in [Clients -> Client]
      /\ launch' = [launch EXCEPT ![c] = "driver"] /\ playwright' = c
      /\ UNCHANGED <<browser, context, sessions, faults>>
  BY <1>0, Going DEF StartDriver, At, PCs
<1>2. ManagerTypeOK'
  BY <1>0, <1>1 DEF ManagerInv, ManagerTypeOK, LaunchStates
<1>3. OnlyRunsStop'
  BY <1>0, <1>1 DEF ManagerInv, OnlyRunsStop
<1>4. Fresh'
  BY <1>0, <1>1 DEF ManagerInv, Fresh
<1>5. Launched'
  BY <1>0, <1>1 DEF ManagerInv, Launched, Fresh, Up
<1>6. Registered'
  BY <1>0, <1>1 DEF ManagerInv, Registered, Early
<1>7. Mine'
  BY <1>0, <1>1 DEF ManagerInv, Mine, Fresh, Early
<1>8. RegisteredIsUsable'
  BY <1>0, <1>1 DEF ManagerInv, RegisteredIsUsable, Fresh, Launched, Registered
<1>9. Undisturbed'
  BY <1>0, <1>1 DEF ManagerInv, Undisturbed, Fresh, Registered, Launched, Quiet, Undermined, At
<1> QED BY <1>2, <1>3, <1>4, <1>5, <1>6, <1>7, <1>8, <1>9 DEF ManagerInv

\* A browser is launched.
LEMMA LaunchBrowserKeeps == ASSUME ManagerInv, NEW c \in Clients, LaunchBrowser(c) PROVE ManagerInv'
<1>0. /\ launch \in [Clients -> LaunchStates] /\ client \in [Clients -> Client]
      /\ context \in [Clients -> {"none", "open", "closed"}] /\ sessions \subseteq Clients
      /\ playwright \in Clients \cup {None} /\ browser \in Clients \cup {None} /\ None \notin Clients
      /\ Runs \subseteq Clients /\ Users \subseteq Clients /\ Runs \cap Users = {}
  BY ClientsAssumption DEF ManagerInv, ManagerTypeOK, Clients
<1>1. /\ client[c].pc = "launch" /\ client'[c].pc = "context" /\ client'[c].on = c
      /\ client'[c].target = client[c].target /\ client'[c].doomed = client[c].doomed
      /\ \A d \in Clients : d # c => client'[d] = client[d]
      /\ client' \in [Clients -> Client]
      /\ launch[c] = "driver" /\ launch' = [launch EXCEPT ![c] = "up"] /\ browser' = c
      /\ UNCHANGED <<playwright, context, sessions, faults>>
  <2> DEFINE rec == [client[c] EXCEPT !.pc = "context", !.on = c]
  <2>3. client[c] \in Client
    BY <1>0
  <2>1. /\ rec \in Client /\ rec.pc = "context" /\ rec.on = c
        /\ rec.target = client[c].target /\ rec.doomed = client[c].doomed
    BY <2>3 DEF Client, PCs
  <2>2. /\ client[c].pc = "launch" /\ Become(c, rec)
        /\ launch[c] = "driver" /\ launch' = [launch EXCEPT ![c] = "up"] /\ browser' = c
        /\ UNCHANGED <<playwright, context, sessions, faults>>
    BY DEF LaunchBrowser, At
  <2> HIDE DEF rec
  <2> QED BY <1>0, <2>1, <2>2, Becoming
<1>2. ManagerTypeOK'
  BY <1>0, <1>1 DEF ManagerInv, ManagerTypeOK, LaunchStates
<1>3. OnlyRunsStop'
  BY <1>0, <1>1 DEF ManagerInv, OnlyRunsStop
<1>4. Fresh'
  BY <1>0, <1>1 DEF ManagerInv, Fresh
<1>5. Launched'
  BY <1>0, <1>1 DEF ManagerInv, Launched, Fresh, Up
<1>6. Registered'
  BY <1>0, <1>1 DEF ManagerInv, Registered, Early
<1>7. Mine'
  BY <1>0, <1>1 DEF ManagerInv, Mine, Fresh, Early
<1>8. RegisteredIsUsable'
  <2> SUFFICES ASSUME NEW d \in sessions'
               PROVE  \/ context'[d] = "open"
                      \/ launch'[client'[d].on] # "up"
                      \/ \E q \in Runs : client'[q].pc \in {"stopping", "failed"}
    BY DEF RegisteredIsUsable
  <2>1. d \in Clients /\ d \in sessions /\ client[d].pc = "open"
    BY <1>0, <1>1 DEF ManagerInv, Registered
  <2>2. d # c /\ client'[d] = client[d] /\ client[d].on # None
    BY <1>1, <2>1 DEF ManagerInv, Fresh
  <2>3. launch[client[d].on] \in Up
    BY <2>1, <2>2 DEF ManagerInv, Launched
  <2>4. client[d].on # c
    BY <1>1, <2>3 DEF Up
  <2>5. launch'[client[d].on] = launch[client[d].on]
    BY <1>0, <1>1, <2>4
  <2>6. \A q \in Runs : client[q].pc \in {"stopping", "failed"} => client'[q].pc \in {"stopping", "failed"}
    BY <1>0, <1>1
  <2> QED BY <1>1, <2>1, <2>2, <2>5, <2>6 DEF ManagerInv, RegisteredIsUsable
<1>9. Undisturbed'
  BY <1>0, <1>1 DEF ManagerInv, Undisturbed, Fresh, Registered, Launched, Quiet, Undermined, At
<1> QED BY <1>2, <1>3, <1>4, <1>5, <1>6, <1>7, <1>8, <1>9 DEF ManagerInv

\* A context is made.
LEMMA CreateContextKeeps == ASSUME ManagerInv, NEW c \in Clients, CreateContext(c) PROVE ManagerInv'
<1>0. /\ launch \in [Clients -> LaunchStates] /\ client \in [Clients -> Client]
      /\ context \in [Clients -> {"none", "open", "closed"}] /\ sessions \subseteq Clients
      /\ playwright \in Clients \cup {None} /\ browser \in Clients \cup {None} /\ None \notin Clients
      /\ Runs \subseteq Clients /\ Users \subseteq Clients /\ Runs \cap Users = {}
  BY ClientsAssumption DEF ManagerInv, ManagerTypeOK, Clients
<1>1. /\ client[c].pc = "context" /\ client'[c].pc = "page"
      /\ client[c].on # None /\ launch[client[c].on] = "up"
      /\ client'[c].on = client[c].on /\ client'[c].target = client[c].target
      /\ client'[c].doomed = client[c].doomed
      /\ \A d \in Clients : d # c => client'[d] = client[d]
      /\ client' \in [Clients -> Client]
      /\ context' = [context EXCEPT ![c] = "open"]
      /\ UNCHANGED <<launch, playwright, browser, sessions, faults>>
  BY <1>0, Going DEF CreateContext, At, PCs
<1>2. ManagerTypeOK'
  BY <1>0, <1>1 DEF ManagerInv, ManagerTypeOK, LaunchStates
<1>3. OnlyRunsStop'
  BY <1>0, <1>1 DEF ManagerInv, OnlyRunsStop
<1>4. Fresh'
  BY <1>0, <1>1 DEF ManagerInv, Fresh
<1>5. Launched'
  BY <1>0, <1>1 DEF ManagerInv, Launched, Fresh, Up
<1>6. Registered'
  BY <1>0, <1>1 DEF ManagerInv, Registered, Early
<1>7. Mine'
  BY <1>0, <1>1 DEF ManagerInv, Mine, Fresh, Early
<1>8. RegisteredIsUsable'
  BY <1>0, <1>1 DEF ManagerInv, RegisteredIsUsable, Fresh, Launched, Registered
<1>9. Undisturbed'
  BY <1>0, <1>1 DEF ManagerInv, Undisturbed, Fresh, Registered, Launched, Quiet, Undermined, At
<1> QED BY <1>2, <1>3, <1>4, <1>5, <1>6, <1>7, <1>8, <1>9 DEF ManagerInv

\* A page is opened, and the session registered.
LEMMA OpenPageKeeps == ASSUME ManagerInv, NEW c \in Clients, OpenPage(c) PROVE ManagerInv'
<1>0. /\ launch \in [Clients -> LaunchStates] /\ client \in [Clients -> Client]
      /\ context \in [Clients -> {"none", "open", "closed"}] /\ sessions \subseteq Clients
      /\ playwright \in Clients \cup {None} /\ browser \in Clients \cup {None} /\ None \notin Clients
      /\ Runs \subseteq Clients /\ Users \subseteq Clients /\ Runs \cap Users = {}
  BY ClientsAssumption DEF ManagerInv, ManagerTypeOK, Clients
<1>1. /\ client[c].pc = "page" /\ client'[c].pc = "open" /\ context[c] = "open"
      /\ client'[c].on = client[c].on /\ client'[c].target = client[c].target
      /\ client'[c].doomed = client[c].doomed
      /\ \A d \in Clients : d # c => client'[d] = client[d]
      /\ client' \in [Clients -> Client]
      /\ sessions' = sessions \cup {c}
      /\ UNCHANGED <<launch, playwright, browser, context, faults>>
  BY <1>0, Going DEF OpenPage, At, PCs
<1>2. ManagerTypeOK'
  BY <1>0, <1>1 DEF ManagerInv, ManagerTypeOK, LaunchStates
<1>3. OnlyRunsStop'
  BY <1>0, <1>1 DEF ManagerInv, OnlyRunsStop
<1>4. Fresh'
  BY <1>0, <1>1 DEF ManagerInv, Fresh
<1>5. Launched'
  BY <1>0, <1>1 DEF ManagerInv, Launched, Fresh, Up
<1>6. Registered'
  BY <1>0, <1>1 DEF ManagerInv, Registered, Early
<1>7. Mine'
  BY <1>0, <1>1 DEF ManagerInv, Mine, Fresh, Early
<1>8. RegisteredIsUsable'
  BY <1>0, <1>1 DEF ManagerInv, RegisteredIsUsable, Fresh, Launched, Registered
<1>9. Undisturbed'
  BY <1>0, <1>1 DEF ManagerInv, Undisturbed, Fresh, Registered, Launched, Quiet, Undermined, At
<1> QED BY <1>2, <1>3, <1>4, <1>5, <1>6, <1>7, <1>8, <1>9 DEF ManagerInv

\* An opening fails.
LEMMA FailOpenKeeps == ASSUME ManagerInv, NEW c \in Clients, FailOpen(c) PROVE ManagerInv'
<1>0. /\ launch \in [Clients -> LaunchStates] /\ client \in [Clients -> Client]
      /\ context \in [Clients -> {"none", "open", "closed"}] /\ sessions \subseteq Clients
      /\ playwright \in Clients \cup {None} /\ browser \in Clients \cup {None} /\ None \notin Clients
      /\ Runs \subseteq Clients /\ Users \subseteq Clients /\ Runs \cap Users = {}
  BY ClientsAssumption DEF ManagerInv, ManagerTypeOK, Clients
<1>1. /\ client[c].pc \in {"start", "launch", "context", "page"} /\ client'[c].pc = "refused"
      /\ client'[c].on = client[c].on /\ client'[c].target = client[c].target
      /\ client'[c].doomed = client[c].doomed
      /\ \A d \in Clients : d # c => client'[d] = client[d]
      /\ client' \in [Clients -> Client]
      /\ faults \in Nat /\ faults \in 0..MaxFaults
      /\ IF Undermined(c) THEN faults' = faults ELSE faults < MaxFaults /\ faults' = faults + 1
      /\ UNCHANGED <<launch, playwright, browser, context, sessions>>
  BY <1>0, Going, FaultsAssumption DEF FailOpen, Fault, At, PCs, ManagerInv, ManagerTypeOK
<1>2. ManagerTypeOK'
  <2>1. faults' \in 0..MaxFaults
    BY <1>1, FaultsAssumption
  <2> QED BY <1>0, <1>1, <2>1 DEF ManagerTypeOK
<1>3. OnlyRunsStop'
  BY <1>0, <1>1 DEF ManagerInv, OnlyRunsStop
<1>4. Fresh'
  BY <1>0, <1>1 DEF ManagerInv, Fresh
<1>5. Launched'
  BY <1>0, <1>1 DEF ManagerInv, Launched, Fresh, Up
<1>6. Registered'
  BY <1>0, <1>1 DEF ManagerInv, Registered, Early
<1>7. Mine'
  BY <1>0, <1>1 DEF ManagerInv, Mine, Fresh, Early
<1>8. RegisteredIsUsable'
  BY <1>0, <1>1 DEF ManagerInv, RegisteredIsUsable, Fresh, Launched, Registered
<1>9. Undisturbed'
  BY <1>0, <1>1 DEF ManagerInv, Undisturbed, Fresh, Registered, Launched, Quiet, Undermined, At
<1> QED BY <1>2, <1>3, <1>4, <1>5, <1>6, <1>7, <1>8, <1>9 DEF ManagerInv

\* A user closes the session.
LEMMA CloseRouteKeeps == ASSUME ManagerInv, NEW u \in Users, CloseRoute(u) PROVE ManagerInv'
<1>0. /\ launch \in [Clients -> LaunchStates] /\ client \in [Clients -> Client]
      /\ context \in [Clients -> {"none", "open", "closed"}] /\ sessions \subseteq Clients
      /\ playwright \in Clients \cup {None} /\ browser \in Clients \cup {None} /\ None \notin Clients
      /\ Runs \subseteq Clients /\ Users \subseteq Clients /\ Runs \cap Users = {}
  BY ClientsAssumption DEF ManagerInv, ManagerTypeOK, Clients
<1>1. /\ client[u].pc = "open" /\ client'[u].pc \in {"closing", "done"}
      /\ client'[u].on = client[u].on /\ client'[u].target = client[u].target
      /\ client'[u].doomed = client[u].doomed
      /\ \A d \in Clients : d # u => client'[d] = client[d]
      /\ client' \in [Clients -> Client]
      /\ sessions' = sessions \ {u}
      /\ UNCHANGED <<launch, playwright, browser, context, faults>>
  BY <1>0, Going DEF CloseRoute, At, PCs
<1>2. ManagerTypeOK'
  BY <1>0, <1>1 DEF ManagerInv, ManagerTypeOK, LaunchStates
<1>3. OnlyRunsStop'
  BY <1>0, <1>1 DEF ManagerInv, OnlyRunsStop
<1>4. Fresh'
  BY <1>0, <1>1 DEF ManagerInv, Fresh
<1>5. Launched'
  BY <1>0, <1>1 DEF ManagerInv, Launched, Fresh, Up
<1>6. Registered'
  BY <1>0, <1>1 DEF ManagerInv, Registered, Early
<1>7. Mine'
  BY <1>0, <1>1 DEF ManagerInv, Mine, Fresh, Early
<1>8. RegisteredIsUsable'
  BY <1>0, <1>1 DEF ManagerInv, RegisteredIsUsable, Fresh, Launched, Registered
<1>9. Undisturbed'
  BY <1>0, <1>1 DEF ManagerInv, Undisturbed, Fresh, Registered, Launched, Quiet, Undermined, At
<1> QED BY <1>2, <1>3, <1>4, <1>5, <1>6, <1>7, <1>8, <1>9 DEF ManagerInv

\* A run closes its session.
LEMMA CloseRunKeeps == ASSUME ManagerInv, NEW r \in Runs, CloseRun(r) PROVE ManagerInv'
<1>0. /\ launch \in [Clients -> LaunchStates] /\ client \in [Clients -> Client]
      /\ context \in [Clients -> {"none", "open", "closed"}] /\ sessions \subseteq Clients
      /\ playwright \in Clients \cup {None} /\ browser \in Clients \cup {None} /\ None \notin Clients
      /\ Runs \subseteq Clients /\ Users \subseteq Clients /\ Runs \cap Users = {}
  BY ClientsAssumption DEF ManagerInv, ManagerTypeOK, Clients
<1>1. /\ client[r].pc = "open" /\ client'[r].on = client[r].on
      /\ \/ client'[r].pc = "closing" /\ client'[r].target = client[r].target /\ client'[r].doomed = client[r].doomed
         \/ /\ client'[r].pc = "browser" /\ client'[r].target = browser /\ client'[r].doomed = client[r].doomed
            /\ sessions = {}
         \/ /\ client'[r].pc = "stopping" /\ client'[r].target = client[r].target /\ client'[r].doomed = sessions
            /\ r \notin sessions
      /\ \A d \in Clients : d # r => client'[d] = client[d]
      /\ client' \in [Clients -> Client]
      /\ sessions' = sessions \ {r}
      /\ UNCHANGED <<launch, playwright, browser, context, faults>>
  <2>1. /\ client[r].pc = "open" /\ r \in Clients
        /\ sessions' = sessions \ {r}
        /\ UNCHANGED <<launch, playwright, browser, context, faults>>
    BY <1>0 DEF CloseRun, At
  <2>2. CASE r \in sessions
    BY <1>0, <2>1, <2>2, Going DEF CloseRun, PCs
  <2>3. CASE r \notin sessions
    BY <1>0, <2>1, <2>3, StoppingIs, Becoming DEF CloseRun
  <2> QED BY <2>2, <2>3
<1>2. ManagerTypeOK'
  BY <1>0, <1>1 DEF ManagerInv, ManagerTypeOK, LaunchStates
<1>3. OnlyRunsStop'
  BY <1>0, <1>1 DEF ManagerInv, OnlyRunsStop
<1>4. Fresh'
  BY <1>0, <1>1 DEF ManagerInv, Fresh
<1>5. Launched'
  BY <1>0, <1>1 DEF ManagerInv, Launched, Fresh, Up
<1>6. Registered'
  BY <1>0, <1>1 DEF ManagerInv, Registered, Early
<1>7. Mine'
  BY <1>0, <1>1 DEF ManagerInv, Mine, Fresh, Early
<1>8. RegisteredIsUsable'
  BY <1>0, <1>1 DEF ManagerInv, RegisteredIsUsable, Fresh, Launched, Registered
<1>9. Undisturbed'
  BY <1>0, <1>1 DEF ManagerInv, Undisturbed, Fresh, Registered, Launched, Quiet, Undermined, At
<1> QED BY <1>2, <1>3, <1>4, <1>5, <1>6, <1>7, <1>8, <1>9 DEF ManagerInv

\* A context is closed.
LEMMA ContextClosedKeeps == ASSUME ManagerInv, NEW c \in Clients, ContextClosed(c) PROVE ManagerInv'
<1>0. /\ launch \in [Clients -> LaunchStates] /\ client \in [Clients -> Client]
      /\ context \in [Clients -> {"none", "open", "closed"}] /\ sessions \subseteq Clients
      /\ playwright \in Clients \cup {None} /\ browser \in Clients \cup {None} /\ None \notin Clients
      /\ Runs \subseteq Clients /\ Users \subseteq Clients /\ Runs \cap Users = {}
  BY ClientsAssumption DEF ManagerInv, ManagerTypeOK, Clients
<1>1. /\ client[c].pc = "closing" /\ client'[c].on = client[c].on
      /\ \/ /\ client'[c].pc = "done" /\ client'[c].target = client[c].target /\ client'[c].doomed = client[c].doomed
            /\ c \notin Runs
         \/ c \in Runs /\ client'[c].pc = "browser" /\ client'[c].target = browser /\ client'[c].doomed = client[c].doomed
         \/ c \in Runs /\ client'[c].pc = "stopping" /\ client'[c].target = client[c].target /\ client'[c].doomed = sessions
      /\ \A d \in Clients : d # c => client'[d] = client[d]
      /\ client' \in [Clients -> Client]
      /\ context' = [context EXCEPT ![c] = "closed"]
      /\ UNCHANGED <<launch, playwright, browser, sessions, faults>>
  <2>1. /\ client[c].pc = "closing" /\ context' = [context EXCEPT ![c] = "closed"]
        /\ UNCHANGED <<launch, playwright, browser, sessions, faults>>
    BY DEF ContextClosed, At
  <2>2. CASE c \notin Runs
    BY <1>0, <2>1, <2>2, Going DEF ContextClosed, PCs
  <2>3. CASE c \in Runs
    BY <1>0, <2>1, <2>3, StoppingIs, Becoming DEF ContextClosed
  <2> QED BY <2>2, <2>3
<1>2. ManagerTypeOK'
  BY <1>0, <1>1 DEF ManagerInv, ManagerTypeOK, LaunchStates
<1>3. OnlyRunsStop'
  BY <1>0, <1>1 DEF ManagerInv, OnlyRunsStop
<1>4. Fresh'
  BY <1>0, <1>1 DEF ManagerInv, Fresh
<1>5. Launched'
  BY <1>0, <1>1 DEF ManagerInv, Launched, Fresh, Up
<1>6. Registered'
  BY <1>0, <1>1 DEF ManagerInv, Registered, Early
<1>7. Mine'
  BY <1>0, <1>1 DEF ManagerInv, Mine, Fresh, Early
<1>8. RegisteredIsUsable'
  BY <1>0, <1>1 DEF ManagerInv, RegisteredIsUsable, Fresh, Launched, Registered
<1>9. Undisturbed'
  BY <1>0, <1>1 DEF ManagerInv, Undisturbed, Fresh, Registered, Launched, Quiet, Undermined, At
<1> QED BY <1>2, <1>3, <1>4, <1>5, <1>6, <1>7, <1>8, <1>9 DEF ManagerInv

\* stop() has closed a session.
LEMMA CloseDoomedKeeps == ASSUME ManagerInv, NEW r \in Clients, NEW s \in Clients, CloseDoomed(r, s) PROVE ManagerInv'
<1>0. /\ launch \in [Clients -> LaunchStates] /\ client \in [Clients -> Client]
      /\ context \in [Clients -> {"none", "open", "closed"}] /\ sessions \subseteq Clients
      /\ playwright \in Clients \cup {None} /\ browser \in Clients \cup {None} /\ None \notin Clients
      /\ Runs \subseteq Clients /\ Users \subseteq Clients /\ Runs \cap Users = {}
  BY ClientsAssumption DEF ManagerInv, ManagerTypeOK, Clients
<1>1. /\ client[r].pc = "stopping" /\ client'[r].on = client[r].on /\ s \in client[r].doomed
      /\ \/ /\ client'[r].pc = "browser" /\ client'[r].target = browser /\ client'[r].doomed = {}
            /\ sessions' = {}
         \/ /\ client'[r].pc = "stopping" /\ client'[r].target = client[r].target
            /\ client'[r].doomed = client[r].doomed \ {s} /\ sessions' = sessions
      /\ \A d \in Clients : d # r => client'[d] = client[d]
      /\ client' \in [Clients -> Client]
      /\ context' = [context EXCEPT ![s] = "closed"]
      /\ UNCHANGED <<launch, playwright, browser, faults>>
  <2> DEFINE last == [client[r] EXCEPT !.doomed = {}, !.pc = "browser", !.target = browser]
             more == [client[r] EXCEPT !.doomed = @ \ {s}]
  <2>0. client[r] \in Client
    BY <1>0
  <2>1. /\ client[r].pc = "stopping" /\ s \in client[r].doomed /\ context' = [context EXCEPT ![s] = "closed"]
        /\ UNCHANGED <<launch, playwright, browser, faults>>
    BY DEF CloseDoomed, At
  <2>2. /\ last \in Client /\ last.pc = "browser" /\ last.target = browser /\ last.doomed = {}
        /\ last.on = client[r].on
    BY <1>0, <2>0 DEF Client, PCs
  <2>3. /\ more \in Client /\ more.pc = client[r].pc /\ more.target = client[r].target
        /\ more.doomed = client[r].doomed \ {s} /\ more.on = client[r].on
    BY <1>0, <2>0 DEF Client, PCs
  <2>4. \/ Become(r, last) /\ sessions' = {}
        \/ Become(r, more) /\ sessions' = sessions
    BY DEF CloseDoomed
  <2> HIDE DEF last, more
  <2> QED BY <1>0, <2>1, <2>2, <2>3, <2>4, Becoming
<1>2. ManagerTypeOK'
  BY <1>0, <1>1 DEF ManagerInv, ManagerTypeOK, LaunchStates
<1>3. OnlyRunsStop'
  BY <1>0, <1>1 DEF ManagerInv, OnlyRunsStop
<1>4. Fresh'
  BY <1>0, <1>1 DEF ManagerInv, Fresh
<1>5. Launched'
  BY <1>0, <1>1 DEF ManagerInv, Launched, Fresh, Up
<1>6. Registered'
  BY <1>0, <1>1 DEF ManagerInv, Registered, Early
<1>7. Mine'
  BY <1>0, <1>1 DEF ManagerInv, Mine, Fresh, Early
<1>8. RegisteredIsUsable'
  <2> SUFFICES ASSUME NEW d \in sessions'
               PROVE  \/ context'[d] = "open"
                      \/ launch'[client'[d].on] # "up"
                      \/ \E q \in Runs : client'[q].pc \in {"stopping", "failed"}
    BY DEF RegisteredIsUsable
  <2>1. CASE client'[r].pc = "stopping"
    <3>1. r \in Runs
      BY <1>1 DEF ManagerInv, OnlyRunsStop
    <3> QED BY <2>1, <3>1
  <2>2. CASE sessions' = {}
    BY <2>2
  <2> QED BY <1>1, <2>1, <2>2
<1>9. Undisturbed'
  <2> SUFFICES ASSUME Quiet'
               PROVE  /\ \A c \in Clients : client'[c].pc # "refused" /\ ~Undermined(c)'
                      /\ browser # None => launch[browser] = "up"
    BY <1>1 DEF Undisturbed
  <2>1. Quiet
    BY <1>0, <1>1 DEF Quiet
  <2>2. client[s].pc \notin Early
    BY <1>1 DEF ManagerInv, Registered
  <2>3. ASSUME NEW c \in Clients PROVE client'[c].pc # "refused" /\ ~Undermined(c)'
    <3>1. client[c].pc # "refused" /\ ~Undermined(c)
      BY <2>1 DEF ManagerInv, Undisturbed
    <3>2. c = s => client'[c].pc # "page"
      BY <1>1, <2>2 DEF Early
    <3>3. c # s => context'[c] = context[c]
      BY <1>0, <1>1
    <3> QED BY <1>1, <3>1, <3>2, <3>3 DEF Undermined, At
  <2> QED BY <2>1, <2>3 DEF ManagerInv, Undisturbed
<1> QED BY <1>2, <1>3, <1>4, <1>5, <1>6, <1>7, <1>8, <1>9 DEF ManagerInv

\* stop() has closed the browser.
LEMMA BrowserClosedKeeps == ASSUME ManagerInv, NEW r \in Runs, BrowserClosed(r) PROVE ManagerInv'
<1>0. /\ launch \in [Clients -> LaunchStates] /\ client \in [Clients -> Client]
      /\ context \in [Clients -> {"none", "open", "closed"}] /\ sessions \subseteq Clients
      /\ playwright \in Clients \cup {None} /\ browser \in Clients \cup {None} /\ None \notin Clients
      /\ Runs \subseteq Clients /\ Users \subseteq Clients /\ Runs \cap Users = {}
  BY ClientsAssumption DEF ManagerInv, ManagerTypeOK, Clients
<1> DEFINE rec == [client[r] EXCEPT !.pc = "driver", !.target = playwright]
<1>a. client[r] \in Client /\ r \in Clients /\ "driver" \in PCs
  BY <1>0 DEF PCs
<1>b. /\ rec \in Client /\ rec.pc = "driver" /\ rec.on = client[r].on
      /\ rec.target = playwright /\ rec.doomed = client[r].doomed
  BY <1>0, <1>a DEF Client
<1>c. /\ client[r].pc = "browser" /\ Become(r, rec)
      /\ launch' = [launch EXCEPT ![client[r].target] = IF @ = "up" THEN "closed" ELSE @]
      /\ context' = Ended(client[r].target)
      /\ UNCHANGED <<playwright, browser, sessions, faults>>
  BY DEF BrowserClosed, At
<1> HIDE DEF rec
<1>d. client' \in [Clients -> Client] /\ client'[r] = rec
      /\ \A d \in Clients : d # r => client'[d] = client[d]
  BY <1>0, <1>a, <1>b, <1>c, Became
<1>1. /\ client[r].pc = "browser" /\ client'[r].pc = "driver" /\ client'[r].on = client[r].on
      /\ client'[r].target = playwright /\ client'[r].doomed = client[r].doomed
      /\ \A d \in Clients : d # r => client'[d] = client[d]
      /\ client' \in [Clients -> Client]
      /\ launch' \in [Clients -> LaunchStates]
      /\ \A d \in Clients :
           launch'[d] = IF d = client[r].target /\ launch[d] = "up" THEN "closed" ELSE launch[d]
      /\ context' = [d \in Clients |-> IF client[d].on = client[r].target /\ context[d] = "open"
                                       THEN "closed" ELSE context[d]]
      /\ UNCHANGED <<playwright, browser, sessions, faults>>
  BY <1>0, <1>b, <1>c, <1>d DEF Ended, LaunchStates
<1>2. ManagerTypeOK'
  BY <1>0, <1>1 DEF ManagerInv, ManagerTypeOK, LaunchStates
<1>3. OnlyRunsStop'
  BY <1>0, <1>1 DEF ManagerInv, OnlyRunsStop
<1>4. Fresh'
  BY <1>0, <1>1 DEF ManagerInv, Fresh
<1>5. Launched'
  <2>1. \A d \in Clients : launch[d] \in Up => launch'[d] \in Up
    BY <1>1 DEF Up
  <2>2. \A d \in Clients : launch[d] # "none" => launch'[d] # "none"
    BY <1>1
  <2>3. /\ browser # None => launch[browser] \in Up
        /\ playwright # None => launch[playwright] # "none"
        /\ \A d \in Clients : client[d].on # None => launch[client[d].on] \in Up
        /\ \A d \in Clients : client[d].pc = "driver" /\ client[d].target # None =>
             launch[client[d].target] # "none"
    BY DEF ManagerInv, Launched
  <2>4. browser # None => launch'[browser] \in Up
    BY <1>0, <2>1, <2>3
  <2>5. playwright # None => launch'[playwright] # "none"
    BY <1>0, <2>2, <2>3
  <2>6. ASSUME NEW d \in Clients, client'[d].on # None PROVE launch'[client'[d].on] \in Up
    <3>1. client'[d].on = client[d].on
      BY <1>1
    <3>2. client[d].on \in Clients
      BY <1>0, <2>6, <3>1, ClientFields
    <3> QED BY <2>1, <2>3, <2>6, <3>1, <3>2
  <2>7. ASSUME NEW d \in Clients, client'[d].pc = "driver", client'[d].target # None
        PROVE  launch'[client'[d].target] # "none"
    <3>1. CASE d = r
      BY <1>1, <2>5, <2>7, <3>1
    <3>2. CASE d # r
      <4>1. client'[d] = client[d] /\ client[d].target \in Clients
        BY <1>0, <1>1, <2>7, <3>2, ClientFields
      <4> QED BY <2>2, <2>3, <2>7, <4>1
    <3> QED BY <3>1, <3>2
  <2> QED BY <1>1, <2>4, <2>5, <2>6, <2>7 DEF Launched
<1>6. Registered'
  BY <1>0, <1>1 DEF ManagerInv, Registered, Early
<1>7. Mine'
  BY <1>0, <1>1 DEF ManagerInv, Mine, Fresh, Early
<1>8. RegisteredIsUsable'
  <2> SUFFICES ASSUME NEW d \in sessions'
               PROVE  \/ context'[d] = "open"
                      \/ launch'[client'[d].on] # "up"
                      \/ \E q \in Runs : client'[q].pc \in {"stopping", "failed"}
    BY DEF RegisteredIsUsable
  <2>1. d \in Clients /\ d \in sessions /\ client[d].pc = "open" /\ client[d].on \in Clients \cup {None}
    BY <1>0, <1>1, ClientFields DEF ManagerInv, Registered
  <2>2. d # r /\ client'[d] = client[d] /\ client[d].on \in Clients
    BY <1>1, <2>1 DEF ManagerInv, Fresh
  <2>3. \A q \in Runs : client[q].pc \in {"stopping", "failed"} => client'[q].pc \in {"stopping", "failed"}
    BY <1>0, <1>1
  <2>4. CASE context[d] = "open"
    BY <1>1, <2>1, <2>2, <2>4
  <2>5. CASE launch[client[d].on] # "up"
    BY <1>1, <2>2, <2>5
  <2>6. CASE \E q \in Runs : client[q].pc \in {"stopping", "failed"}
    BY <2>3, <2>6
  <2> QED BY <2>1, <2>4, <2>5, <2>6 DEF ManagerInv, RegisteredIsUsable
<1>9. Undisturbed'
  BY <1>0, <1>1 DEF ManagerInv, Undisturbed, Fresh, Registered, Launched, Quiet, Undermined, At
<1> QED BY <1>2, <1>3, <1>4, <1>5, <1>6, <1>7, <1>8, <1>9 DEF ManagerInv

\* stop() has stopped the driver.
LEMMA DriverStoppedKeeps == ASSUME ManagerInv, NEW r \in Runs, DriverStopped(r) PROVE ManagerInv'
<1>0. /\ launch \in [Clients -> LaunchStates] /\ client \in [Clients -> Client]
      /\ context \in [Clients -> {"none", "open", "closed"}] /\ sessions \subseteq Clients
      /\ playwright \in Clients \cup {None} /\ browser \in Clients \cup {None} /\ None \notin Clients
      /\ Runs \subseteq Clients /\ Users \subseteq Clients /\ Runs \cap Users = {}
  BY ClientsAssumption DEF ManagerInv, ManagerTypeOK, Clients
<1>1. /\ client[r].pc = "driver" /\ client'[r].pc = "done"
      /\ client'[r].on = client[r].on /\ client'[r].target = client[r].target
      /\ client'[r].doomed = client[r].doomed
      /\ \A d \in Clients : d # r => client'[d] = client[d]
      /\ client' \in [Clients -> Client]
      /\ launch' \in [Clients -> LaunchStates]
      /\ \A d \in Clients : launch'[d] = IF d = client[r].target THEN "stopped" ELSE launch[d]
      /\ context' = [d \in Clients |-> IF client[d].on = client[r].target /\ context[d] = "open"
                                       THEN "closed" ELSE context[d]]
      /\ UNCHANGED <<playwright, browser, sessions, faults>>
  BY <1>0, Going DEF DriverStopped, Ended, At, PCs, LaunchStates
<1>2. ManagerTypeOK'
  BY <1>0, <1>1 DEF ManagerInv, ManagerTypeOK, LaunchStates
<1>3. OnlyRunsStop'
  BY <1>0, <1>1 DEF ManagerInv, OnlyRunsStop
<1>4. Fresh'
  <2> SUFFICES ASSUME NEW d \in Clients
               PROVE  /\ client'[d].pc \in {"idle", "start", "launch"} => client'[d].on = None
                      /\ client'[d].pc \in {"idle", "start"} => launch'[d] = "none"
                      /\ client'[d].pc \notin {"idle", "start", "launch", "context", "refused"} =>
                           client'[d].on # None
    BY DEF Fresh
  <2>1. /\ client[d].pc \in {"idle", "start", "launch"} => client[d].on = None
        /\ client[d].pc \in {"idle", "start"} => launch[d] = "none"
        /\ client[d].pc \notin {"idle", "start", "launch", "context", "refused"} => client[d].on # None
    BY DEF ManagerInv, Fresh
  <2>2. d = client[r].target => launch[d] # "none"
    BY <1>0, <1>1 DEF ManagerInv, Launched
  <2> QED BY <1>0, <1>1, <2>1, <2>2
<1>5. Launched'
  <2>1. \A d \in Clients : launch[d] \in Up => launch'[d] \in Up
    BY <1>1 DEF Up
  <2>2. \A d \in Clients : launch[d] # "none" => launch'[d] # "none"
    BY <1>1
  <2>3. /\ browser # None => launch[browser] \in Up
        /\ playwright # None => launch[playwright] # "none"
        /\ \A d \in Clients : client[d].on # None => launch[client[d].on] \in Up
        /\ \A d \in Clients : client[d].pc = "driver" /\ client[d].target # None =>
             launch[client[d].target] # "none"
    BY DEF ManagerInv, Launched
  <2>4. browser # None => launch'[browser] \in Up
    BY <1>0, <2>1, <2>3
  <2>5. playwright # None => launch'[playwright] # "none"
    BY <1>0, <2>2, <2>3
  <2>6. ASSUME NEW d \in Clients, client'[d].on # None PROVE launch'[client'[d].on] \in Up
    <3>1. client'[d].on = client[d].on
      BY <1>1
    <3>2. client[d].on \in Clients
      BY <1>0, <2>6, <3>1, ClientFields
    <3> QED BY <2>1, <2>3, <2>6, <3>1, <3>2
  <2>7. ASSUME NEW d \in Clients, client'[d].pc = "driver", client'[d].target # None
        PROVE  launch'[client'[d].target] # "none"
    <3>1. CASE d = r
      BY <1>1, <2>5, <2>7, <3>1
    <3>2. CASE d # r
      <4>1. client'[d] = client[d] /\ client[d].target \in Clients
        BY <1>0, <1>1, <2>7, <3>2, ClientFields
      <4> QED BY <2>2, <2>3, <2>7, <4>1
    <3> QED BY <3>1, <3>2
  <2> QED BY <1>1, <2>4, <2>5, <2>6, <2>7 DEF Launched
<1>6. Registered'
  BY <1>0, <1>1 DEF ManagerInv, Registered, Early
<1>7. Mine'
  BY <1>0, <1>1 DEF ManagerInv, Mine, Fresh, Early
<1>8. RegisteredIsUsable'
  <2> SUFFICES ASSUME NEW d \in sessions'
               PROVE  \/ context'[d] = "open"
                      \/ launch'[client'[d].on] # "up"
                      \/ \E q \in Runs : client'[q].pc \in {"stopping", "failed"}
    BY DEF RegisteredIsUsable
  <2>1. d \in Clients /\ d \in sessions /\ client[d].pc = "open" /\ client[d].on \in Clients \cup {None}
    BY <1>0, <1>1, ClientFields DEF ManagerInv, Registered
  <2>2. d # r /\ client'[d] = client[d] /\ client[d].on \in Clients
    BY <1>1, <2>1 DEF ManagerInv, Fresh
  <2>3. \A q \in Runs : client[q].pc \in {"stopping", "failed"} => client'[q].pc \in {"stopping", "failed"}
    BY <1>0, <1>1
  <2>4. CASE context[d] = "open"
    BY <1>1, <2>1, <2>2, <2>4
  <2>5. CASE launch[client[d].on] # "up"
    BY <1>1, <2>2, <2>5
  <2>6. CASE \E q \in Runs : client[q].pc \in {"stopping", "failed"}
    BY <2>3, <2>6
  <2> QED BY <2>1, <2>4, <2>5, <2>6 DEF ManagerInv, RegisteredIsUsable
<1>9. Undisturbed'
  BY <1>0, <1>1 DEF ManagerInv, Undisturbed, Fresh, Registered, Launched, Quiet, Undermined, At
<1> QED BY <1>2, <1>3, <1>4, <1>5, <1>6, <1>7, <1>8, <1>9 DEF ManagerInv

\* A closing fails.
LEMMA FailCloseKeeps == ASSUME ManagerInv, NEW c \in Clients, FailClose(c) PROVE ManagerInv'
<1>0. /\ launch \in [Clients -> LaunchStates] /\ client \in [Clients -> Client]
      /\ context \in [Clients -> {"none", "open", "closed"}] /\ sessions \subseteq Clients
      /\ playwright \in Clients \cup {None} /\ browser \in Clients \cup {None} /\ None \notin Clients
      /\ Runs \subseteq Clients /\ Users \subseteq Clients /\ Runs \cap Users = {}
  BY ClientsAssumption DEF ManagerInv, ManagerTypeOK, Clients
<1>1. /\ client[c].pc \in {"closing", "stopping", "browser", "driver"} /\ client'[c].pc = "failed"
      /\ client'[c].on = client[c].on /\ client'[c].target = client[c].target
      /\ client'[c].doomed = client[c].doomed
      /\ \A d \in Clients : d # c => client'[d] = client[d]
      /\ client' \in [Clients -> Client]
      /\ faults \in Nat /\ faults \in 0..MaxFaults
      /\ \/ faults' = faults
         \/ faults < MaxFaults /\ faults' = faults + 1
      /\ UNCHANGED <<launch, playwright, browser, context, sessions>>
  BY <1>0, Going, FaultsAssumption DEF FailClose, Fault, At, PCs, ManagerInv, ManagerTypeOK
<1>2. ManagerTypeOK'
  <2>1. faults' \in 0..MaxFaults
    BY <1>1, FaultsAssumption
  <2> QED BY <1>0, <1>1, <2>1 DEF ManagerTypeOK
<1>3. OnlyRunsStop'
  BY <1>0, <1>1 DEF ManagerInv, OnlyRunsStop
<1>4. Fresh'
  BY <1>0, <1>1 DEF ManagerInv, Fresh
<1>5. Launched'
  BY <1>0, <1>1 DEF ManagerInv, Launched, Fresh, Up
<1>6. Registered'
  BY <1>0, <1>1 DEF ManagerInv, Registered, Early
<1>7. Mine'
  BY <1>0, <1>1 DEF ManagerInv, Mine, Fresh, Early
<1>8. RegisteredIsUsable'
  BY <1>0, <1>1 DEF ManagerInv, RegisteredIsUsable, Fresh, Launched, Registered
<1>9. Undisturbed'
  BY <1>0, <1>1 DEF ManagerInv, Undisturbed, Fresh, Registered, Launched, Quiet, Undermined, At
<1> QED BY <1>2, <1>3, <1>4, <1>5, <1>6, <1>7, <1>8, <1>9 DEF ManagerInv

\* Every step keeps the invariant.
LEMMA ManagerNextInv == ManagerInv /\ [ManagerNext]_managerVars => ManagerInv'
<1> SUFFICES ASSUME ManagerInv, [ManagerNext]_managerVars PROVE ManagerInv'
  OBVIOUS
<1>1. ASSUME NEW r \in Runs, OpenRun(r) \/ CloseRun(r) PROVE ManagerInv'
  BY <1>1, OpenRunKeeps, CloseRunKeeps
<1>2. ASSUME NEW u \in Users, OpenRoute(u) \/ CloseRoute(u) PROVE ManagerInv'
  BY <1>2, OpenRouteKeeps, CloseRouteKeeps
<1>3. ASSUME NEW c \in Clients, ManagerStep(c) PROVE ManagerInv'
  BY <1>3, StartDriverKeeps, LaunchBrowserKeeps, CreateContextKeeps, OpenPageKeeps, ContextClosedKeeps,
     CloseDoomedKeeps, BrowserClosedKeeps, DriverStoppedKeeps, FailOpenKeeps, FailCloseKeeps
     DEF ManagerStep
<1>4. CASE UNCHANGED managerVars
  <2>1. UNCHANGED <<launch, playwright, browser, context, sessions, client, faults>>
    BY <1>4 DEF managerVars
  <2>2. ManagerTypeOK' /\ OnlyRunsStop' /\ Fresh' /\ Launched'
    BY <2>1 DEF ManagerInv, ManagerTypeOK, OnlyRunsStop, Fresh, Launched
  <2>3. Registered' /\ Mine' /\ RegisteredIsUsable'
    BY <2>1 DEF ManagerInv, Registered, Mine, RegisteredIsUsable
  <2>4. Undisturbed'
    BY <2>1 DEF ManagerInv, Undisturbed, Quiet, Undermined, At
  <2> QED BY <2>2, <2>3, <2>4 DEF ManagerInv
<1> QED BY <1>1, <1>2, <1>3, <1>4 DEF ManagerNext

\* The manager starts in it.
LEMMA ManagerInitInv == ManagerInit => ManagerInv
<1> SUFFICES ASSUME ManagerInit PROVE ManagerInv
  OBVIOUS
<1>1. /\ \A c \in Clients : /\ client[c].pc = "idle" /\ client[c].on = None
                           /\ client[c].target = None /\ client[c].doomed = {}
                           /\ launch[c] = "none"
      /\ browser = None /\ playwright = None /\ sessions = {} /\ Runs \subseteq Clients
  BY DEF ManagerInit, Clients
<1>2. ManagerTypeOK
  BY FaultsAssumption DEF ManagerInit, ManagerTypeOK, LaunchStates, Client, PCs
<1>3. OnlyRunsStop /\ Fresh /\ Launched /\ Registered
  BY <1>1 DEF OnlyRunsStop, Fresh, Launched, Registered
<1>4. Mine /\ RegisteredIsUsable
  BY <1>1 DEF Mine, RegisteredIsUsable, Early
<1>5. Undisturbed
  BY <1>1 DEF Undisturbed, Undermined, At
<1> QED BY <1>2, <1>3, <1>4, <1>5 DEF ManagerInv

\* What the invariant says of runs that are over and of refusals.
LEMMA ManagerInvImplies == ManagerInv => RunLeavesNothing /\ RoutesFailOnlyAfterStop
<1> SUFFICES ASSUME ManagerInv PROVE RunLeavesNothing /\ RoutesFailOnlyAfterStop
  OBVIOUS
<1>1. RunLeavesNothing
  <2> SUFFICES ASSUME NEW r \in Runs, client[r].pc = "done"
               PROVE  /\ playwright = r => launch[r] = "stopped"
                      /\ browser = client[r].on => context[r] = "closed"
    BY DEF RunLeavesNothing, At
  <2>1. r \in Clients
    BY DEF Clients
  <2>2. client[r].on = r
    BY <2>1 DEF ManagerInv, Mine, Fresh
  <2> QED BY <2>1, <2>2 DEF ManagerInv, Mine
<1>2. RoutesFailOnlyAfterStop
  <2>1. \A u \in Users : u \in Clients
    BY DEF Clients
  <2> QED BY <2>1 DEF ManagerInv, Undisturbed, Quiet, RoutesFailOnlyAfterStop, At
<1> QED BY <1>1, <1>2

\* Why a session that works is not lost.
Held(c) ==
  \/ c \in sessions
  \/ browser # client[c].on
  \/ \E r \in Runs :
       client[r].pc = "failed" \/ (client[r].pc = "browser" /\ client[r].target = client[c].on)

\* A step of d that neither ends a stop() nor takes a session from the dict.
LEMMA HeldStays ==
  ASSUME SessionsNotLost, NEW d \in Clients, client[d].pc \notin {"browser", "failed"},
         \A e \in Clients : e # d => client'[e] = client[e],
         NEW c \in Clients, c # d, client[c].pc = "open", context[c] = "open",
         c \in sessions => c \in sessions', browser' = browser
  PROVE  Held(c)'
<1>1. Held(c)
  BY DEF SessionsNotLost, Held, At
<1>2. \A r \in Runs : r \in Clients
  BY DEF Clients
<1> QED BY <1>1, <1>2 DEF Held

\* What clears the dict closes the browser next, and closes it.
LEMMA NotLostKept ==
  ASSUME ManagerInv, SessionsNotLost, ManagerNext
  PROVE  SessionsNotLost'
<1> SUFFICES ASSUME NEW c \in Clients, client'[c].pc = "open", context'[c] = "open"
             PROVE  Held(c)'
  BY DEF SessionsNotLost, Held, At
<1>0. /\ client \in [Clients -> Client] /\ context \in [Clients -> {"none", "open", "closed"}]
      /\ sessions \in SUBSET Clients /\ browser \in Clients \cup {None}
  BY DEF ManagerInv, ManagerTypeOK
<1>1. ASSUME NEW d \in Clients, NEW rec, Become(d, rec)
      PROVE  /\ client'[d] = rec
             /\ \A e \in Clients : e # d => client'[e] = client[e]
  BY <1>0, <1>1 DEF Become
<1>2. ASSUME NEW d \in Clients, NEW pc \in PCs, Goto(d, pc)
      PROVE  /\ client'[d].pc = pc /\ client'[d].on = client[d].on
             /\ \A e \in Clients : e # d => client'[e] = client[e]
  BY <1>0, <1>2, Going
<1>3. ASSUME NEW d \in Clients, client'[d].pc # "open",
             \A e \in Clients : e # d => client'[e] = client[e],
             client[d].pc \notin {"browser", "failed"},
             \A e \in Clients : e # d /\ context'[e] = "open" => context[e] = "open",
             sessions \ {d} \subseteq sessions', browser' = browser
      PROVE  Held(c)'
  <2>1. c # d /\ client[c].pc = "open" /\ context[c] = "open"
    BY <1>3
  <2> QED BY <1>3, <2>1, HeldStays
<1>4. ASSUME NEW r \in Runs, OpenRun(r) PROVE Held(c)'
  <2>1. r \in Clients /\ "start" \in PCs
    BY DEF Clients, PCs
  <2> QED BY <1>2, <1>3, <1>4, <2>1 DEF OpenRun, At
<1>5. ASSUME NEW u \in Users, OpenRoute(u) PROVE Held(c)'
  <2>1. u \in Clients /\ client[u] \in Client
    BY <1>0 DEF Clients
  <2>2. client'[u].pc # "open" /\ \A e \in Clients : e # u => client'[e] = client[e]
    <3>1. CASE browser = None
      <4>1. [client[u] EXCEPT !.pc = "start"].pc # "open"
        BY <2>1 DEF Client
      <4> QED BY <1>1, <1>5, <2>1, <3>1, <4>1 DEF OpenRoute
    <3>2. CASE browser # None
      <4>1. [client[u] EXCEPT !.pc = "context", !.on = browser].pc # "open"
        BY <2>1 DEF Client
      <4> QED BY <1>1, <1>5, <2>1, <3>2, <4>1 DEF OpenRoute
    <3> QED BY <3>1, <3>2
  <2> QED BY <1>3, <1>5, <2>1, <2>2 DEF OpenRoute, At
<1>6. ASSUME NEW d \in Clients, StartDriver(d) PROVE Held(c)'
  <2>1. "launch" \in PCs
    BY DEF PCs
  <2> QED BY <1>2, <1>3, <1>6, <2>1 DEF StartDriver, At
<1>7. ASSUME NEW d \in Clients, LaunchBrowser(d) PROVE Held(c)'
  <2>1. client[d] \in Client /\ launch[d] = "driver" /\ browser' = d /\ context' = context
    BY <1>0, <1>7 DEF LaunchBrowser
  <2>2. client'[d].pc = "context" /\ \A e \in Clients : e # d => client'[e] = client[e]
    <3>1. [client[d] EXCEPT !.pc = "context", !.on = d].pc = "context"
      BY <2>1 DEF Client
    <3>2. Become(d, [client[d] EXCEPT !.pc = "context", !.on = d])
      BY <1>7 DEF LaunchBrowser
    <3> QED BY <1>1, <3>1, <3>2
  <2>3. client'[c] = client[c] /\ client[c].on # None
    BY <2>2 DEF ManagerInv, Fresh
  <2>4. client[c].on # d
    BY <2>1, <2>3 DEF ManagerInv, Launched, Up
  <2> QED BY <2>1, <2>3, <2>4 DEF Held
<1>8. ASSUME NEW d \in Clients, CreateContext(d) PROVE Held(c)'
  <2>1. "page" \in PCs
    BY DEF PCs
  <2> QED BY <1>0, <1>2, <1>3, <1>8, <2>1 DEF CreateContext, At
<1>9. ASSUME NEW d \in Clients, OpenPage(d) PROVE Held(c)'
  <2>1. "open" \in PCs
    BY DEF PCs
  <2>2. /\ \A e \in Clients : e # d => client'[e] = client[e]
        /\ client[d].pc = "page" /\ sessions' = sessions \cup {d}
        /\ UNCHANGED <<context, browser>>
    BY <1>2, <1>9, <2>1 DEF OpenPage, At
  <2>3. CASE c = d
    BY <2>2, <2>3 DEF Held
  <2>4. CASE c # d
    <3>1. client[c].pc = "open" /\ context[c] = "open"
      BY <2>2, <2>4
    <3> QED BY <2>2, <2>4, <3>1, HeldStays
  <2> QED BY <2>3, <2>4
<1>10. ASSUME NEW d \in Clients, FailOpen(d) PROVE Held(c)'
  <2>1. "refused" \in PCs
    BY DEF PCs
  <2> QED BY <1>2, <1>3, <1>10, <2>1 DEF FailOpen
<1>11. ASSUME NEW u \in Users, CloseRoute(u) PROVE Held(c)'
  <2>1. u \in Clients /\ "closing" \in PCs /\ "done" \in PCs
    BY DEF Clients, PCs
  <2> QED BY <1>2, <1>3, <1>11, <2>1 DEF CloseRoute, At
<1>12. ASSUME NEW r \in Runs, CloseRun(r) PROVE Held(c)'
  <2>1. r \in Clients /\ "closing" \in PCs
    BY DEF Clients, PCs
  <2>2. client'[r].pc # "open" /\ \A e \in Clients : e # r => client'[e] = client[e]
    <3>1. CASE Goto(r, "closing")
      BY <1>2, <2>1, <3>1
    <3>2. CASE Become(r, Stopping(r, sessions))
      BY <1>0, <1>1, <2>1, <3>2, StoppingIs
    <3> QED BY <1>12, <3>1, <3>2 DEF CloseRun
  <2> QED BY <1>3, <1>12, <2>1, <2>2 DEF CloseRun, At
<1>13. ASSUME NEW d \in Clients, ContextClosed(d) PROVE Held(c)'
  <2>1. "done" \in PCs
    BY DEF PCs
  <2>2. client'[d].pc # "open" /\ \A e \in Clients : e # d => client'[e] = client[e]
    <3>1. CASE Goto(d, "done")
      BY <1>2, <2>1, <3>1
    <3>2. CASE Become(d, Stopping(d, sessions))
      BY <1>0, <1>1, <3>2, StoppingIs
    <3> QED BY <1>13, <3>1, <3>2 DEF ContextClosed
  <2> QED BY <1>0, <1>3, <1>13, <2>2 DEF ContextClosed, At
<1>14. ASSUME NEW r \in Clients, NEW d \in Clients, CloseDoomed(r, d) PROVE Held(c)'
  <2>0. r \in Runs /\ client[r].pc = "stopping" /\ client[r] \in Client
    BY <1>0, <1>14 DEF CloseDoomed, At, ManagerInv, OnlyRunsStop
  <2>1. \A e \in Clients : context'[e] = "open" => context[e] = "open"
    BY <1>0, <1>14 DEF CloseDoomed
  <2>2. CASE client[r].doomed = {d}
    <3>1. /\ client'[r].pc = "browser" /\ client'[r].target = browser /\ browser' = browser
          /\ \A e \in Clients : e # r => client'[e] = client[e]
      <4> DEFINE rec == [client[r] EXCEPT !.doomed = {}, !.pc = "browser", !.target = browser]
      <4>1. Become(r, rec) /\ browser' = browser
        BY <1>14, <2>2 DEF CloseDoomed
      <4>2. rec.pc = "browser" /\ rec.target = browser
        BY <2>0 DEF Client
      <4> HIDE DEF rec
      <4> QED BY <1>1, <4>1, <4>2
    <3> QED BY <2>0, <3>1 DEF Held
  <2>3. CASE client[r].doomed # {d}
    <3>1. /\ client'[r].pc = "stopping" /\ sessions' = sessions /\ browser' = browser
          /\ \A e \in Clients : e # r => client'[e] = client[e]
      BY <1>1, <1>14, <2>0, <2>3 DEF CloseDoomed, Client
    <3> QED BY <1>3, <2>0, <2>1, <3>1
  <2> QED BY <2>2, <2>3
<1>15. ASSUME NEW r \in Runs, BrowserClosed(r) PROVE Held(c)'
  <2>0. r \in Clients /\ client[r] \in Client /\ client[r].pc = "browser"
    BY <1>0, <1>15 DEF BrowserClosed, At, Clients
  <2>1. /\ client'[r].pc = "driver" /\ UNCHANGED <<browser, sessions>>
        /\ \A e \in Clients : e # r => client'[e] = client[e]
    <3> DEFINE rec == [client[r] EXCEPT !.pc = "driver", !.target = playwright]
    <3>1. Become(r, rec) /\ UNCHANGED <<browser, sessions>>
      BY <1>15 DEF BrowserClosed
    <3>2. rec.pc = "driver"
      BY <2>0 DEF Client
    <3> HIDE DEF rec
    <3> QED BY <1>1, <2>0, <3>1, <3>2
  <2>2. c # r /\ client'[c] = client[c]
    BY <2>1
  <2>3. context[c] = "open" /\ client[c].on # client[r].target
    BY <1>15, <2>2 DEF BrowserClosed, Ended
  <2>4. Held(c)
    BY <2>2, <2>3 DEF SessionsNotLost, Held, At
  <2>5. \A q \in Runs : q \in Clients
    BY DEF Clients
  <2> QED BY <2>0, <2>1, <2>2, <2>3, <2>4, <2>5 DEF Held
<1>16. ASSUME NEW r \in Runs, DriverStopped(r) PROVE Held(c)'
  <2>1. r \in Clients /\ "done" \in PCs
    BY DEF Clients, PCs
  <2>2. \A e \in Clients : context'[e] = "open" => context[e] = "open"
    BY <1>16 DEF DriverStopped, Ended
  <2> QED BY <1>2, <1>3, <1>16, <2>1, <2>2 DEF DriverStopped, At
<1>17. ASSUME NEW d \in Clients, FailClose(d) PROVE Held(c)'
  <2>1. "failed" \in PCs
    BY DEF PCs
  <2>2. /\ client'[d].pc = "failed" /\ UNCHANGED <<context, sessions, browser>>
        /\ client[d].pc \in {"closing", "stopping", "browser", "driver"}
        /\ \A e \in Clients : e # d => client'[e] = client[e]
    BY <1>2, <1>17, <2>1 DEF FailClose, At
  <2>3. CASE d \in Runs
    BY <2>2, <2>3 DEF Held
  <2>4. CASE d \notin Runs
    BY <1>3, <2>2, <2>4 DEF ManagerInv, OnlyRunsStop
  <2> QED BY <2>3, <2>4
<1> QED BY <1>4, <1>5, <1>6, <1>7, <1>8, <1>9, <1>10, <1>11, <1>12, <1>13, <1>14, <1>15, <1>16, <1>17
        DEF ManagerNext, ManagerStep

LEMMA NotLostInit == ManagerInit => SessionsNotLost
<1>1. \A rec : rec = [pc |-> "idle", on |-> None, target |-> None, doomed |-> {}] => rec.pc = "idle"
  OBVIOUS
<1> QED BY <1>1 DEF ManagerInit, SessionsNotLost, At

-----------------------------------------------------------------------------
(***************************************************************************)
(* The sessions' inductive invariant.  A call that is at a page is at the   *)
(* active one unless another call has moved on from it.  Pages not opened   *)
(* yet are not watched, so a new page is not; and the crash counter is what *)
(* was heard, or more where a page has its handlers twice.                  *)
(***************************************************************************)
CallsAtActive ==
  \A k \in Callers :
    call[k].pc = "page" /\ call[k].method \in {"page", "load"} =>
      call[k].page = tabs[call[k].session].active \/ call[k].moved

CountsCrashes(s) ==
  /\ s.heard <= s.crashCount
  /\ s.crashCount <= s.heard \/ s.twice

WellWatched(s) ==
  /\ \A p \in Pages : p > s.opened => s.handlers[p] = 0
  /\ s.active <= s.opened
  /\ \A p \in s.live : p <= s.opened
  /\ s.handlers[s.active] > 0 => s.switched

SessionInv(s) == CountsCrashes(s) /\ WellWatched(s)

SessionsInv == \A u \in Users : SessionInv(tabs[u])

\* Why a session is without its active page.
Excused(u) ==
  \/ tabs[u].active \in tabs[u].gone
  \/ tabs[u].broken
  \/ \E k \in Callers :
       call[k].pc = "reopen" /\ call[k].session = u /\ call[k].page = tabs[u].active

ActiveAccounted == \A u \in Users : tabs[u].active \notin tabs[u].live => Excused(u)

TabsInv == TabsTypeOK /\ CallsAtActive /\ SessionsInv /\ ActiveAccounted /\ ResultNamesItsPage

\* What a call may be without the session having changed: at the active page,
\* or answered for the page it acted on.
Sound(c, s) ==
  /\ c.pc = "page" /\ c.method \in {"page", "load"} => c.page = s.active \/ c.moved
  /\ c.pc = "answered" => c.named = c.page \/ c.moved

\* There is a first page.
LEMMA FirstPage == 1 \in Pages
BY TabsAssumption DEF Pages

\* A call starts at the active page.
LEMMA StartCallIs ==
  ASSUME NEW u \in Users, tabs[u] \in Session, NEW pc \in CallPCs
  PROVE  StartCall(u, pc) \in Call /\ StartCall(u, pc).pc = pc /\ StartCall(u, pc).session = u
<1>1. (CHOOSE v \in Users : TRUE) \in Users
  BY TabsAssumption
<1>2. tabs[u].active \in Pages
  BY DEF Session
<1> QED BY <1>1, <1>2, FirstPage DEF StartCall, IdleCall, Call, CallPCs

LEMMA StartCallPage ==
  ASSUME NEW u \in Users, tabs[u] \in Session, NEW pc \in CallPCs
  PROVE  StartCall(u, pc).page = tabs[u].active
BY FirstPage DEF StartCall, IdleCall

\* One session changes.
LEMMA SessionSet ==
  ASSUME tabs \in [Users -> Session], NEW u \in Users, NEW s \in Session, SetTabs(u, s)
  PROVE  /\ tabs' \in [Users -> Session] /\ tabs'[u] = s
         /\ \A v \in Users : v # u => tabs'[v] = tabs[v]
BY DEF SetTabs

\* One call changes.
LEMMA CallSet ==
  ASSUME call \in [Callers -> Call], NEW k \in Callers, NEW rec \in Call, SetCall(k, rec)
  PROVE  /\ call' \in [Callers -> Call] /\ call'[k] = rec
         /\ \A j \in Callers : j # k => call'[j] = call[j]
BY DEF SetCall

\* One call changes, and those in flight in its session are told.
LEMMA CallMoves ==
  ASSUME call \in [Callers -> Call], NEW k \in Callers, NEW rec \in Call, Move(k, rec)
  PROVE  /\ call' \in [Callers -> Call] /\ call'[k] = rec
         /\ \A j \in Callers : j # k =>
              /\ call'[j].pc = call[j].pc /\ call'[j].session = call[j].session
              /\ call'[j].method = call[j].method /\ call'[j].page = call[j].page
              /\ call'[j].named = call[j].named
              /\ call[j].moved => call'[j].moved
              /\ call[j].session = rec.session /\ ~Resting(j) => call'[j].moved
BY DEF Move, Call

\* A session with its fields, each of its type.
LEMMA SessionFields ==
  ASSUME NEW s \in Session
  PROVE  /\ s.opened \in Pages /\ s.live \subseteq Pages /\ s.active \in Pages
         /\ s.handlers \in [Pages -> Nat] /\ s.crashCount \in Nat /\ s.heard \in Nat
         /\ s.twice \in BOOLEAN /\ s.gone \subseteq Pages
         /\ s.broken \in BOOLEAN /\ s.switched \in BOOLEAN
BY DEF Session

\* One page more, and nothing else.
LEMMA AddedIs ==
  ASSUME NEW s \in Session, s.opened + 1 \in Pages
  PROVE  /\ Added(s) = [opened |-> s.opened + 1, live |-> s.live \cup {s.opened + 1},
                        active |-> s.active, handlers |-> s.handlers,
                        crashCount |-> s.crashCount, heard |-> s.heard, twice |-> s.twice,
                        gone |-> s.gone, broken |-> s.broken, switched |-> s.switched]
         /\ Added(s) \in Session
<1>1. Added(s) = [s EXCEPT !.opened = s.opened + 1, !.live = s.live \cup {s.opened + 1}]
  BY Zenon DEF Added
<1>2. Added(s) = [opened |-> s.opened + 1, live |-> s.live \cup {s.opened + 1},
                  active |-> s.active, handlers |-> s.handlers,
                  crashCount |-> s.crashCount, heard |-> s.heard, twice |-> s.twice,
                  gone |-> s.gone, broken |-> s.broken, switched |-> s.switched]
  <2>1. s = [opened |-> s.opened, live |-> s.live, active |-> s.active,
          handlers |-> s.handlers, crashCount |-> s.crashCount, heard |-> s.heard,
          twice |-> s.twice, gone |-> s.gone, broken |-> s.broken,
          switched |-> s.switched]
    BY DEF Session
  <2> QED BY <1>1, <2>1
<1>3. s.live \cup {s.opened + 1} \in SUBSET Pages
  BY SessionFields
<1> QED BY <1>2, <1>3, SessionFields DEF Session

\* A new page becomes the active one, which nobody watches.
LEMMA OpenedIs ==
  ASSUME NEW s \in Session, SessionInv(s), s.opened + 1 \in Pages
  PROVE  /\ Opened(s) \in Session /\ Opened(s).active = s.opened + 1
         /\ Opened(s).active \in Opened(s).live
         /\ SessionInv(Opened(s))
<1> DEFINE h == [s.handlers EXCEPT ![s.active] = @ + 1]
           n == s.opened + 1
<1>1. /\ s.opened \in Nat /\ \A p \in Pages : p \in Nat
      /\ s.active \in Pages /\ s.handlers \in [Pages -> Nat]
  BY SessionFields DEF Pages
<1>2. /\ h \in [Pages -> Nat] /\ n > s.opened
      /\ \A p \in Pages : p # s.active => h[p] = s.handlers[p]
  BY <1>1
<1>3. Opened(s) = [opened |-> n, live |-> s.live \cup {n}, active |-> n, handlers |-> h,
                   crashCount |-> s.crashCount, heard |-> s.heard, twice |-> s.twice,
                   gone |-> s.gone, broken |-> FALSE, switched |-> FALSE]
  <2>1. Added(s).handlers = s.handlers
    BY AddedIs
  <2>2. Opened(s) = [Added(s) EXCEPT !.handlers = h, !.active = n, !.broken = FALSE,
                                     !.switched = FALSE]
    BY <2>1, Zenon DEF Opened
  <2> DEFINE r == [opened |-> n, live |-> s.live \cup {n}, active |-> s.active,
                   handlers |-> s.handlers, crashCount |-> s.crashCount, heard |-> s.heard,
                   twice |-> s.twice, gone |-> s.gone, broken |-> s.broken,
                   switched |-> s.switched]
  <2>3. Added(s) = r
    BY AddedIs
  <2>4. Opened(s) = [r EXCEPT !.handlers = h, !.active = n, !.broken = FALSE, !.switched = FALSE]
    BY <2>2, <2>3, Zenon
  <2> HIDE DEF h, n
  <2> QED BY <2>4
<1> HIDE DEF h
<1>4. Opened(s) \in Session
  <2>1. s.live \cup {n} \in SUBSET Pages
    BY SessionFields
  <2> QED BY <1>2, <1>3, <2>1, SessionFields DEF Session
<1>5. /\ Opened(s).opened = n /\ Opened(s).active = n /\ Opened(s).live = s.live \cup {n}
      /\ Opened(s).handlers = h /\ Opened(s).crashCount = s.crashCount
      /\ Opened(s).heard = s.heard /\ Opened(s).twice = s.twice
  BY <1>3
<1>6. CountsCrashes(Opened(s))
  BY <1>5 DEF SessionInv, CountsCrashes
<1>7. WellWatched(Opened(s))
  <2>1. /\ \A p \in Pages : p > s.opened => s.handlers[p] = 0
        /\ s.active <= s.opened
        /\ \A p \in s.live : p <= s.opened
    BY DEF SessionInv, WellWatched
  <2>2. \A p \in Pages : p > s.opened => h[p] = 0
    BY <1>1, <1>2, <2>1
  <2>3. \A p \in s.live \cup {n} : p <= n
    BY <1>1, <2>1, SessionFields
  <2>4. \A p \in Pages : p > n => h[p] = 0
    BY <1>1, <2>2
  <2>5. h[n] = 0
    BY <1>2, <2>2
  <2>6. n <= n
    BY <1>1
  <2> QED BY <1>5, <2>3, <2>4, <2>5, <2>6 DEF WellWatched
<1> QED BY <1>4, <1>5, <1>6, <1>7 DEF SessionInv

\* A step that leaves the active page of every session keeps calls and sessions
\* sound.
LEMMA PageKept ==
  ASSUME TabsInv, NEW u \in Users, NEW s \in Session, SetTabs(u, s),
         s.active = tabs[u].active, SessionInv(s),
         NEW k \in Callers, NEW rec \in Call, SetCall(k, rec), Sound(rec, tabs[rec.session])
  PROVE  TabsTypeOK' /\ CallsAtActive' /\ SessionsInv' /\ ResultNamesItsPage'
<1>0. tabs \in [Users -> Session] /\ call \in [Callers -> Call]
  BY DEF TabsInv, TabsTypeOK
<1>1. /\ tabs' \in [Users -> Session] /\ tabs'[u] = s
      /\ \A v \in Users : v # u => tabs'[v] = tabs[v]
  BY <1>0, SessionSet
<1>2. /\ call' \in [Callers -> Call] /\ call'[k] = rec
      /\ \A j \in Callers : j # k => call'[j] = call[j]
  BY <1>0, CallSet
<1>3. \A v \in Users : tabs'[v].active = tabs[v].active
  BY <1>1
<1>4. \A j \in Callers : call[j].session \in Users /\ call'[j].session \in Users
  BY <1>0, <1>2 DEF Call
<1>5. CallsAtActive'
  BY <1>2, <1>3, <1>4 DEF TabsInv, CallsAtActive, Sound
<1>6. SessionsInv'
  BY <1>1 DEF TabsInv, SessionsInv
<1>7. ResultNamesItsPage'
  BY <1>2 DEF TabsInv, ResultNamesItsPage, CallAt, Sound
<1> QED BY <1>1, <1>2, <1>5, <1>6, <1>7 DEF TabsTypeOK

\* So does a call that moves its session to a live page and tells the others.
LEMMA PageMoved ==
  ASSUME TabsInv, NEW u \in Users, NEW s \in Session, SetTabs(u, s), s.active \in s.live,
         SessionInv(s),
         NEW k \in Callers, NEW rec \in Call, Move(k, rec), rec.session = u, Sound(rec, s),
         call[k].pc = "reopen" => call[k].session = u
  PROVE  TabsInv'
<1>0. tabs \in [Users -> Session] /\ call \in [Callers -> Call]
  BY DEF TabsInv, TabsTypeOK
<1>1. /\ tabs' \in [Users -> Session] /\ tabs'[u] = s
      /\ \A v \in Users : v # u => tabs'[v] = tabs[v]
  BY <1>0, SessionSet
<1>2. /\ call' \in [Callers -> Call] /\ call'[k] = rec
      /\ \A j \in Callers : j # k =>
           /\ call'[j].pc = call[j].pc /\ call'[j].session = call[j].session
           /\ call'[j].method = call[j].method /\ call'[j].page = call[j].page
           /\ call'[j].named = call[j].named
           /\ call[j].moved => call'[j].moved
           /\ call[j].session = u /\ ~Resting(j) => call'[j].moved
  BY <1>0, CallMoves
<1>3. \A j \in Callers : call[j].session \in Users
  BY <1>0 DEF Call
<1>4. CallsAtActive'
  <2> SUFFICES ASSUME NEW j \in Callers, call'[j].pc = "page", call'[j].method \in {"page", "load"}
               PROVE  call'[j].page = tabs'[call'[j].session].active \/ call'[j].moved
    BY DEF CallsAtActive
  <2>1. CASE j = k
    BY <1>1, <1>2, <2>1 DEF Sound
  <2>2. CASE j # k
    <3>1. call[j].page = tabs[call[j].session].active \/ call[j].moved
      BY <1>2, <2>2 DEF TabsInv, CallsAtActive
    <3>2. CASE call[j].session = u
      BY <1>2, <2>2, <3>2 DEF Resting
    <3>3. CASE call[j].session # u
      BY <1>1, <1>2, <1>3, <2>2, <3>1, <3>3
    <3> QED BY <3>2, <3>3
  <2> QED BY <2>1, <2>2
<1>5. SessionsInv'
  BY <1>1 DEF TabsInv, SessionsInv
<1>6. ResultNamesItsPage'
  BY <1>2 DEF TabsInv, ResultNamesItsPage, CallAt, Sound
<1>7. ActiveAccounted'
  <2> SUFFICES ASSUME NEW v \in Users, tabs'[v].active \notin tabs'[v].live
               PROVE  Excused(v)'
    BY DEF ActiveAccounted
  <2>1. v # u /\ tabs'[v] = tabs[v]
    BY <1>1
  <2>2. Excused(v)
    BY <2>1 DEF TabsInv, ActiveAccounted
  <2> QED BY <1>2, <2>1, <2>2 DEF Excused
<1> QED BY <1>1, <1>2, <1>4, <1>5, <1>6, <1>7 DEF TabsInv, TabsTypeOK

\* A step that leaves the active pages alone keeps the invariant if it leaves a
\* session live, or excused, or as it was.
LEMMA SessionKept ==
  ASSUME TabsInv, NEW u \in Users, NEW s \in Session, SetTabs(u, s),
         s.active = tabs[u].active, SessionInv(s),
         NEW k \in Callers, NEW rec \in Call, SetCall(k, rec), Sound(rec, tabs[rec.session]),
         call[k].pc = "reopen" => call[k].session = u,
         \/ s.active \in s.live \/ s.broken
         \/ rec.pc = "reopen" /\ rec.session = u /\ rec.page = s.active
         \/ /\ call[k].pc # "reopen" \/ call[k].page # s.active
            /\ s.active \in tabs[u].live => s.active \in s.live
            /\ s.gone = tabs[u].gone /\ s.broken = tabs[u].broken
  PROVE  TabsInv'
<1>0. tabs \in [Users -> Session] /\ call \in [Callers -> Call]
  BY DEF TabsInv, TabsTypeOK
<1>1. /\ tabs' \in [Users -> Session] /\ tabs'[u] = s
      /\ \A v \in Users : v # u => tabs'[v] = tabs[v]
  BY <1>0, SessionSet
<1>2. /\ call' \in [Callers -> Call] /\ call'[k] = rec
      /\ \A j \in Callers : j # k => call'[j] = call[j]
  BY <1>0, CallSet
<1>3. TabsTypeOK' /\ CallsAtActive' /\ SessionsInv' /\ ResultNamesItsPage'
  BY PageKept
<1>4. ActiveAccounted'
  <2> SUFFICES ASSUME NEW v \in Users, tabs'[v].active \notin tabs'[v].live
               PROVE  Excused(v)'
    BY DEF ActiveAccounted
  <2>1. CASE v # u
    <3>1. Excused(v)
      BY <1>1, <2>1 DEF TabsInv, ActiveAccounted
    <3> QED BY <1>1, <1>2, <2>1, <3>1 DEF Excused
  <2>2. CASE v = u /\ (s.broken \/ (rec.pc = "reopen" /\ rec.session = u /\ rec.page = s.active))
    BY <1>1, <1>2, <2>2 DEF Excused
  <2>3. ASSUME v = u, call[k].pc # "reopen" \/ call[k].page # s.active,
               s.active \in tabs[u].live => s.active \in s.live,
               s.gone = tabs[u].gone, s.broken = tabs[u].broken
        PROVE  Excused(v)'
    <3>1. Excused(u)
      BY <1>1, <2>3 DEF TabsInv, ActiveAccounted
    <3> QED BY <1>1, <1>2, <2>3, <3>1 DEF Excused
  <2> QED BY <1>1, <2>1, <2>2, <2>3
<1> QED BY <1>3, <1>4 DEF TabsInv

\* A step that only moves a call keeps it as well.
LEMMA OnlyCall ==
  ASSUME TabsInv, UNCHANGED tabs, NEW k \in Callers, NEW rec \in Call, SetCall(k, rec),
         Sound(rec, tabs[rec.session]),
         call[k].pc # "reopen" \/ call[k].page # tabs[call[k].session].active
  PROVE  TabsInv'
<1> DEFINE u == call[k].session
<1>1. tabs \in [Users -> Session] /\ u \in Users /\ SessionInv(tabs[u])
  BY DEF TabsInv, TabsTypeOK, Call, SessionsInv
<1>2. tabs[u] \in Session /\ SetTabs(u, tabs[u])
  BY <1>1 DEF SetTabs
<1> QED BY <1>1, <1>2, SessionKept

\* What a call knows of its session.
LEMMA CallFields ==
  ASSUME TabsInv, NEW k \in Callers
  PROVE  /\ call[k] \in Call /\ call[k].session \in Users
         /\ tabs[call[k].session] \in Session
         /\ tabs[call[k].session].active \in Pages
         /\ SessionInv(tabs[call[k].session])
BY DEF TabsInv, TabsTypeOK, Call, Session, SessionsInv

\* What the record of a call is after assignments to its fields.
LEMMA CallMethod ==
  ASSUME NEW c \in Call, NEW method \in {"page", "load", "inspect", "list_tabs"}
  PROVE  /\ [c EXCEPT !.method = method] \in Call
         /\ [c EXCEPT !.method = method].session = c.session
         /\ [c EXCEPT !.method = method].pc = c.pc
         /\ [c EXCEPT !.method = method].page = c.page
BY DEF Call

LEMMA CallNamed ==
  ASSUME NEW c \in Call, NEW p \in Pages
  PROVE  /\ [c EXCEPT !.page = p, !.named = p] \in Call
         /\ [c EXCEPT !.page = p, !.named = p].session = c.session
         /\ [c EXCEPT !.page = p, !.named = p].pc = c.pc
         /\ [c EXCEPT !.page = p, !.named = p].page = p
         /\ [c EXCEPT !.page = p, !.named = p].named = p
BY DEF Call

\* A new call is taken at the active page, or switches to a live one.
LEMMA EnterCallKeeps ==
  ASSUME TabsInv, NEW k \in Callers, NEW u \in Users, EnterCall(k, u)
  PROVE  TabsInv'
<1>0. /\ tabs \in [Users -> Session] /\ tabs[u] \in Session
      /\ "page" \in CallPCs /\ "newtab" \in CallPCs /\ "answered" \in CallPCs
  BY DEF TabsInv, TabsTypeOK, CallPCs
<1>1. ASSUME NEW method \in Methods, CallPage(k, u, method) PROVE TabsInv'
  <2> DEFINE rec == [StartCall(u, "page") EXCEPT !.method = method]
  <2>1. /\ StartCall(u, "page") \in Call /\ StartCall(u, "page").session = u
        /\ StartCall(u, "page").pc = "page"
    BY <1>0, StartCallIs, Zenon
  <2>5. StartCall(u, "page").page = tabs[u].active
    BY <1>0, StartCallPage, Zenon
  <2>2. method \in {"page", "load", "inspect", "list_tabs"} /\ SetCall(k, rec)
        /\ UNCHANGED tabs /\ call[k].pc # "reopen"
    BY <1>1 DEF CallPage, Resting
  <2>3. rec \in Call /\ rec.session = u /\ rec.pc = "page" /\ rec.page = tabs[u].active
    BY <2>1, <2>2, <2>5, CallMethod, Zenon
  <2>4. Sound(rec, tabs[rec.session])
    BY <2>3 DEF Sound
  <2> HIDE DEF rec
  <2> QED BY <2>2, <2>3, <2>4, OnlyCall
<1>2. ASSUME CallNewTab(k, u) PROVE TabsInv'
  <2>1. StartCall(u, "newtab") \in Call /\ StartCall(u, "newtab").pc = "newtab"
    BY <1>0, StartCallIs, Zenon
  <2>2. SetCall(k, StartCall(u, "newtab")) /\ UNCHANGED tabs /\ call[k].pc # "reopen"
    BY <1>2 DEF CallNewTab, Resting
  <2>3. Sound(StartCall(u, "newtab"), tabs[StartCall(u, "newtab").session])
    BY <2>1 DEF Sound
  <2> QED BY <2>1, <2>2, <2>3, OnlyCall
<1>3. ASSUME CallRecover(k, u) PROVE TabsInv'
  <2> DEFINE pc == IF Escalate(tabs[u]) THEN "escalated" ELSE "close"
  <2>1. pc \in CallPCs /\ pc # "page" /\ pc # "answered"
    BY DEF CallPCs
  <2>2. SetCall(k, StartCall(u, pc)) /\ UNCHANGED tabs /\ call[k].pc # "reopen"
    BY <1>3 DEF CallRecover, Resting
  <2> HIDE DEF pc
  <2>3. StartCall(u, pc) \in Call /\ StartCall(u, pc).pc = pc
    BY <1>0, <2>1, StartCallIs, Zenon
  <2>4. Sound(StartCall(u, pc), tabs[StartCall(u, pc).session])
    BY <2>1, <2>3 DEF Sound
  <2> QED BY <2>2, <2>3, <2>4, OnlyCall
<1>4. ASSUME NEW p \in Pages, SwitchTab(k, u, p) PROVE TabsInv'
  <2> DEFINE s == Chosen(tabs[u], p)
             rec == [StartCall(u, "answered") EXCEPT !.page = p, !.named = p]
  <2>1. /\ p \in tabs[u].live /\ SetTabs(u, s) /\ Move(k, rec)
        /\ call[k].pc # "reopen"
    BY <1>4 DEF SwitchTab, Resting, Live
  <2>2. /\ s \in Session /\ s.active = p /\ s.live = tabs[u].live /\ s.opened = tabs[u].opened
        /\ s.crashCount = tabs[u].crashCount /\ s.heard = tabs[u].heard
        /\ s.twice = tabs[u].twice /\ s.handlers = tabs[u].handlers /\ s.switched
    BY <1>0 DEF Session, Chosen
  <2>3. /\ StartCall(u, "answered") \in Call /\ StartCall(u, "answered").session = u
        /\ StartCall(u, "answered").pc = "answered"
    BY <1>0, StartCallIs, Zenon
  <2>4. rec \in Call /\ rec.session = u /\ rec.pc = "answered" /\ rec.page = p /\ rec.named = p
    BY <2>3, CallNamed, Zenon
  <2> HIDE DEF s, rec
  <2>5. SessionInv(s)
    <3>1. SessionInv(tabs[u])
      BY DEF TabsInv, SessionsInv
    <3>2. CountsCrashes(s)
      BY <2>2, <3>1 DEF SessionInv, CountsCrashes
    <3>3. WellWatched(s)
      BY <2>1, <2>2, <3>1 DEF SessionInv, WellWatched
    <3> QED BY <3>2, <3>3 DEF SessionInv
  <2>6. Sound(rec, s)
    BY <2>4 DEF Sound
  <2> QED BY <2>1, <2>2, <2>4, <2>5, <2>6, PageMoved
<1> QED BY <1>1, <1>2, <1>3, <1>4 DEF EnterCall, CallPage

\* What else happens to a session keeps it sound: a load, a page that is closed,
\* a recovery given up, a crash.
LEMMA LoadedIs ==
  ASSUME NEW s \in Session, SessionInv(s), NEW p \in Pages
  PROVE  /\ Loaded(s, p) \in Session /\ SessionInv(Loaded(s, p))
         /\ Loaded(s, p).active = s.active /\ Loaded(s, p).live = s.live
         /\ Loaded(s, p).gone = s.gone /\ Loaded(s, p).broken = s.broken
<1>1. CASE s.handlers[p] > 0
  <2> DEFINE l == [s EXCEPT !.crashCount = 0, !.heard = 0, !.twice = FALSE]
  <2>1. Loaded(s, p) = l
    BY <1>1 DEF Loaded
  <2>2. /\ l \in Session /\ l.active = s.active /\ l.live = s.live /\ l.gone = s.gone
        /\ l.broken = s.broken /\ l.opened = s.opened /\ l.handlers = s.handlers
        /\ l.switched = s.switched /\ l.crashCount = 0 /\ l.heard = 0
    BY DEF Session
  <2> HIDE DEF l
  <2>3. SessionInv(l)
    BY <2>2 DEF SessionInv, CountsCrashes, WellWatched
  <2> QED BY <2>1, <2>2, <2>3
<1>2. CASE ~(s.handlers[p] > 0)
  BY <1>2 DEF Loaded
<1> QED BY <1>1, <1>2

LEMMA ClosedIs ==
  ASSUME NEW s \in Session, SessionInv(s), NEW p
  PROVE  LET l == [s EXCEPT !.live = @ \ {p}]
         IN  /\ l \in Session /\ SessionInv(l)
             /\ l.active = s.active /\ l.live = s.live \ {p}
             /\ l.gone = s.gone /\ l.broken = s.broken
<1> DEFINE l == [s EXCEPT !.live = @ \ {p}]
<1>1. /\ l \in Session /\ l.active = s.active /\ l.live = s.live \ {p} /\ l.gone = s.gone
      /\ l.broken = s.broken /\ l.opened = s.opened /\ l.handlers = s.handlers
      /\ l.switched = s.switched /\ l.crashCount = s.crashCount /\ l.heard = s.heard
      /\ l.twice = s.twice
  BY DEF Session
<1> HIDE DEF l
<1>2. SessionInv(l)
  BY <1>1 DEF SessionInv, CountsCrashes, WellWatched
<1> QED BY <1>1, <1>2 DEF l

LEMMA BrokenIs ==
  ASSUME NEW s \in Session, SessionInv(s)
  PROVE  LET l == [s EXCEPT !.broken = TRUE]
         IN  l \in Session /\ SessionInv(l) /\ l.active = s.active /\ l.broken
<1> DEFINE l == [s EXCEPT !.broken = TRUE]
<1>1. /\ l \in Session /\ l.active = s.active /\ l.live = s.live /\ l.broken
      /\ l.opened = s.opened /\ l.handlers = s.handlers
      /\ l.switched = s.switched /\ l.crashCount = s.crashCount /\ l.heard = s.heard
      /\ l.twice = s.twice
  BY DEF Session
<1> HIDE DEF l
<1>2. SessionInv(l)
  BY <1>1 DEF SessionInv, CountsCrashes, WellWatched
<1> QED BY <1>1, <1>2 DEF l

LEMMA CrashedIs ==
  ASSUME NEW s \in Session, SessionInv(s), NEW p \in Pages
  PROVE  /\ Crashed(s, p) \in Session /\ SessionInv(Crashed(s, p))
         /\ Crashed(s, p).active = s.active /\ Crashed(s, p).live = s.live
         /\ Crashed(s, p).gone = s.gone /\ Crashed(s, p).broken = s.broken
<1> DEFINE l == Crashed(s, p)
           n == IF s.handlers[p] > 0 THEN s.heard + 1 ELSE s.heard
           two == s.twice \/ s.handlers[p] > 1
<1>1. s.handlers[p] \in Nat /\ s.crashCount \in Nat /\ s.heard \in Nat /\ s.twice \in BOOLEAN
  BY SessionFields
<1>2. n \in Nat /\ two \in BOOLEAN
  BY <1>1
<1>3. l = [opened |-> s.opened, live |-> s.live, active |-> s.active, handlers |-> s.handlers,
           crashCount |-> s.crashCount + s.handlers[p], heard |-> n, twice |-> two,
           gone |-> s.gone, broken |-> s.broken, switched |-> s.switched]
  <2>1. l = [s EXCEPT !.crashCount = s.crashCount + s.handlers[p], !.heard = n, !.twice = two]
    BY Zenon DEF Crashed
  <2> HIDE DEF l, n, two
  <2>2. s = [opened |-> s.opened, live |-> s.live, active |-> s.active,
          handlers |-> s.handlers, crashCount |-> s.crashCount, heard |-> s.heard,
          twice |-> s.twice, gone |-> s.gone, broken |-> s.broken,
          switched |-> s.switched]
    BY DEF Session
  <2> QED BY <2>1, <2>2
<1>4. /\ n <= s.crashCount + s.handlers[p]
      /\ s.crashCount + s.handlers[p] <= n \/ two
  BY <1>1 DEF SessionInv, CountsCrashes
<1> HIDE DEF l, n, two
<1>5. l \in Session
  BY <1>1, <1>2, <1>3, SessionFields DEF Session
<1>6. SessionInv(l)
  BY <1>3, <1>4 DEF SessionInv, CountsCrashes, WellWatched
<1> QED BY <1>3, <1>5, <1>6 DEF l

\* A call in flight looks again at the active page, answers, or changes the page.
LEMMA CallStepKeeps ==
  ASSUME TabsInv, NEW k \in Callers, CallStep(k)
  PROVE  TabsInv'
<1> DEFINE c == call[k]
           u == c.session
           s == tabs[u]
<1>0. /\ c \in Call /\ u \in Users /\ s \in Session /\ s.active \in Pages
      /\ SessionInv(s) /\ Tabs(k) = s
  BY CallFields DEF Tabs
<1>1. ASSUME InspectOn(k) PROVE TabsInv'
  <2> DEFINE rec == [c EXCEPT !.pc = "page", !.method = "page", !.page = s.active]
  <2>1. SetCall(k, rec) /\ UNCHANGED tabs /\ call[k].pc # "reopen"
    BY <1>0, <1>1 DEF InspectOn, CallAt, Call, SetCall
  <2>2. rec \in Call /\ rec.session = u /\ rec.pc = "page" /\ rec.page = s.active
    BY <1>0 DEF Call, CallPCs
  <2> HIDE DEF rec
  <2>3. Sound(rec, tabs[rec.session])
    BY <2>2 DEF Sound
  <2> QED BY <2>1, <2>2, <2>3, OnlyCall
<1>2. ASSUME PageDone(k) PROVE TabsInv'
  <2> DEFINE rec == [c EXCEPT !.pc = "answered", !.named = s.active]
  <2>1. SetCall(k, rec) /\ c.pc = "page" /\ c.method \in {"page", "load"}
    BY <1>0, <1>2 DEF PageDone, CallAt
  <2>2. /\ rec \in Call /\ rec.session = u /\ rec.pc = "answered" /\ rec.named = s.active
        /\ rec.page = c.page /\ rec.moved = c.moved
    BY <1>0 DEF Call, CallPCs
  <2>3. c.page = s.active \/ c.moved
    BY <2>1 DEF TabsInv, CallsAtActive
  <2> HIDE DEF rec
  <2>4. Sound(rec, s)
    BY <2>2, <2>3 DEF Sound
  <2>5. CASE UNCHANGED tabs
    BY <2>1, <2>2, <2>4, <2>5, OnlyCall
  <2>6. CASE c.method = "load"
    <3> DEFINE l == Loaded(s, c.page)
    <3>1. SetTabs(u, l) /\ c.page \in Pages
      BY <1>0, <1>2, <2>6 DEF PageDone, Call
    <3>2. /\ l \in Session /\ l.active = s.active /\ l.live = s.live /\ l.broken = s.broken
          /\ l.gone = s.gone /\ SessionInv(l)
      BY <1>0, <3>1, LoadedIs
    <3> HIDE DEF l
    <3> QED BY <1>0, <2>1, <2>2, <2>4, <3>1, <3>2, SessionKept
  <2> QED BY <1>2, <2>5, <2>6 DEF PageDone
<1>3. ASSUME TabsListed(k) PROVE TabsInv'
  <2> DEFINE rec == [c EXCEPT !.pc = "answered", !.named = s.active, !.page = s.active]
  <2>1. SetCall(k, rec) /\ UNCHANGED tabs /\ call[k].pc # "reopen"
    BY <1>0, <1>3 DEF TabsListed, CallAt
  <2>2. rec \in Call /\ rec.pc = "answered" /\ rec.named = s.active /\ rec.page = s.active
    BY <1>0 DEF Call, CallPCs
  <2> HIDE DEF rec
  <2>3. Sound(rec, tabs[rec.session])
    BY <2>2 DEF Sound
  <2> QED BY <2>1, <2>2, <2>3, OnlyCall
<1>4. ASSUME ClosePage(k) PROVE TabsInv'
  <2> DEFINE rec == [c EXCEPT !.pc = "reopen"]
             l == [s EXCEPT !.live = @ \ {c.page}]
  <2>1. SetCall(k, rec) /\ SetTabs(u, l) /\ c.pc = "close"
    BY <1>0, <1>4 DEF ClosePage, CallAt
  <2>2. rec \in Call /\ rec.session = u /\ rec.pc = "reopen" /\ rec.page = c.page
    BY <1>0 DEF Call, CallPCs
  <2>3. /\ l \in Session /\ l.active = s.active /\ l.live = s.live \ {c.page}
        /\ l.gone = s.gone /\ l.broken = s.broken /\ SessionInv(l)
    BY <1>0, ClosedIs
  <2> HIDE DEF rec, l
  <2>4. Sound(rec, tabs[rec.session])
    BY <2>2 DEF Sound
  <2> QED BY <1>0, <2>1, <2>2, <2>3, <2>4, SessionKept
<1>5. ASSUME Reopen(k) PROVE TabsInv'
  <2> DEFINE n == s.opened + 1
             rec == [c EXCEPT !.pc = "page", !.method = "load", !.page = n]
  <2>1. n \in Pages /\ SetTabs(u, Opened(s)) /\ Move(k, rec)
    BY <1>0, <1>5 DEF Reopen
  <2>2. /\ Opened(s) \in Session /\ Opened(s).active = n /\ Opened(s).active \in Opened(s).live
        /\ SessionInv(Opened(s))
    BY <1>0, <2>1, OpenedIs
  <2>3. rec \in Call /\ rec.session = u /\ rec.pc = "page" /\ rec.page = n
    BY <1>0, <2>1 DEF Call, CallPCs
  <2> HIDE DEF rec, n
  <2>4. Sound(rec, Opened(s))
    BY <2>2, <2>3 DEF Sound
  <2> QED BY <1>0, <2>1, <2>2, <2>3, <2>4, PageMoved
<1>6. ASSUME FailCall(k) PROVE TabsInv'
  <2> DEFINE rec == [IdleCall EXCEPT !.pc = "raised", !.session = u]
  <2>1. SetCall(k, rec)
    BY <1>6 DEF FailCall
  <2>2. rec \in Call /\ rec.pc = "raised" /\ rec.session = u
    BY <1>0, FirstPage DEF IdleCall, Call, CallPCs
  <2> HIDE DEF rec
  <2>3. Sound(rec, tabs[rec.session])
    BY <2>2 DEF Sound
  <2>4. CASE c.pc = "reopen" /\ s.active = c.page
    <3> DEFINE l == [s EXCEPT !.broken = TRUE]
    <3>1. SetTabs(u, l)
      BY <1>0, <1>6, <2>4 DEF FailCall, CallAt
    <3>2. l \in Session /\ l.active = s.active /\ l.broken /\ SessionInv(l)
      BY <1>0, BrokenIs
    <3> HIDE DEF l
    <3> QED BY <1>0, <2>1, <2>2, <2>3, <3>1, <3>2, SessionKept
  <2>5. CASE ~(c.pc = "reopen" /\ s.active = c.page)
    <3>1. UNCHANGED tabs
      BY <1>0, <1>6, <2>5 DEF FailCall, CallAt
    <3> QED BY <2>1, <2>2, <2>3, <2>5, <3>1, OnlyCall
  <2> QED BY <2>4, <2>5
<1>7. ASSUME NEW goto \in BOOLEAN, NewTab(k, goto) PROVE TabsInv'
  <2> DEFINE n == s.opened + 1
             loading == [c EXCEPT !.pc = "page", !.method = "load", !.page = n]
             answered == [c EXCEPT !.pc = "answered", !.page = n, !.named = Opened(s).active]
             rec == IF goto THEN loading ELSE answered
  <2>1. n \in Pages /\ SetTabs(u, Opened(s)) /\ Move(k, rec)
    BY <1>0, <1>7 DEF NewTab
  <2>2. /\ Opened(s) \in Session /\ Opened(s).active = n /\ Opened(s).active \in Opened(s).live
        /\ SessionInv(Opened(s))
    BY <1>0, <2>1, OpenedIs
  <2>3. /\ loading \in Call /\ loading.session = u /\ loading.pc = "page" /\ loading.page = n
        /\ answered \in Call /\ answered.session = u /\ answered.pc = "answered"
        /\ answered.page = n /\ answered.named = n
    BY <1>0, <2>1, <2>2 DEF Call, CallPCs
  <2> HIDE DEF loading, answered, n
  <2>4. Sound(loading, Opened(s)) /\ Sound(answered, Opened(s))
    BY <2>2, <2>3 DEF Sound
  <2>5. rec \in Call /\ rec.session = u /\ Sound(rec, Opened(s))
    BY <2>3, <2>4
  <2> HIDE DEF rec
  <2> QED BY <1>0, <2>1, <2>2, <2>5, PageMoved
<1> QED BY <1>1, <1>2, <1>3, <1>4, <1>5, <1>6, <1>7 DEF CallStep

\* What happens to a page leaves calls and the active page alone.
LEMMA PageEventKeeps ==
  ASSUME TabsInv, NEW u \in Users, PageEvent(u)
  PROVE  TabsInv'
<1> DEFINE s == tabs[u]
<1>0. tabs \in [Users -> Session] /\ s \in Session /\ SessionInv(s)
  BY DEF TabsInv, TabsTypeOK, SessionsInv
<1>1. ASSUME NEW l \in Session, SetTabs(u, l), UNCHANGED call, SessionInv(l),
             l.active = s.active,
             s.active \in s.live => s.active \in l.live \/ s.active \in l.gone,
             s.gone \subseteq l.gone, l.broken = s.broken
      PROVE  TabsInv'
  <2>1. /\ tabs' \in [Users -> Session] /\ tabs'[u] = l
        /\ \A v \in Users : v # u => tabs'[v] = tabs[v]
    BY <1>0, <1>1, SessionSet
  <2>2. \A v \in Users : tabs'[v].active = tabs[v].active
    BY <1>1, <2>1
  <2>3. \A k \in Callers : call[k].session \in Users
    BY DEF TabsInv, TabsTypeOK, Call
  <2>4. CallsAtActive'
    BY <1>1, <2>2, <2>3 DEF TabsInv, CallsAtActive
  <2>5. SessionsInv'
    BY <1>1, <2>1 DEF TabsInv, SessionsInv
  <2>6. ActiveAccounted'
    BY <1>1, <2>1 DEF TabsInv, ActiveAccounted, Excused
  <2> QED BY <1>1, <2>1, <2>4, <2>5, <2>6 DEF TabsInv, TabsTypeOK, ResultNamesItsPage, CallAt
<1>2. ASSUME NEW p \in Pages, CrashPage(u, p) PROVE TabsInv'
  BY <1>0, <1>1, <1>2, CrashedIs DEF CrashPage
<1>3. ASSUME NEW p \in Pages, PageCloses(u, p) PROVE TabsInv'
  <2> DEFINE l == [s EXCEPT !.live = @ \ {p}, !.gone = @ \cup {p}]
  <2>1. SetTabs(u, l) /\ UNCHANGED call
    BY <1>3 DEF PageCloses
  <2>2. /\ l \in Session /\ l.active = s.active /\ l.live = s.live \ {p}
        /\ l.gone = s.gone \cup {p} /\ l.broken = s.broken /\ l.opened = s.opened
        /\ l.handlers = s.handlers /\ l.switched = s.switched
        /\ l.crashCount = s.crashCount /\ l.heard = s.heard /\ l.twice = s.twice
    BY <1>0 DEF Session
  <2> HIDE DEF l
  <2>3. SessionInv(l)
    BY <1>0, <2>2 DEF SessionInv, CountsCrashes, WellWatched
  <2> QED BY <1>1, <2>1, <2>2, <2>3
<1>4. ASSUME PopupOpens(u) PROVE TabsInv'
  <2> DEFINE l == Added(s)
  <2>1. SetTabs(u, l) /\ UNCHANGED call /\ s.opened + 1 \in Pages
    BY <1>4 DEF PopupOpens
  <2>2. /\ l \in Session /\ l.active = s.active /\ l.live = s.live \cup {s.opened + 1}
        /\ l.gone = s.gone /\ l.broken = s.broken /\ l.opened = s.opened + 1
        /\ l.handlers = s.handlers /\ l.switched = s.switched
        /\ l.crashCount = s.crashCount /\ l.heard = s.heard /\ l.twice = s.twice
    BY <1>0, <2>1, AddedIs
  <2> HIDE DEF l
  <2>3. CountsCrashes(l)
    BY <1>0, <2>2 DEF SessionInv, CountsCrashes
  <2>4. WellWatched(l)
    <3>1. s.opened \in Nat /\ \A p \in Pages : p \in Nat
      BY <1>0, SessionFields DEF Pages
    <3>2. s.live \subseteq Pages /\ s.active \in Pages
      BY <1>0, SessionFields
    <3> QED BY <1>0, <2>2, <3>1, <3>2 DEF SessionInv, WellWatched
  <2> QED BY <1>1, <2>1, <2>2, <2>3, <2>4 DEF SessionInv
<1> QED BY <1>2, <1>3, <1>4 DEF PageEvent

\* Sessions and calls start in it.
LEMMA TabsInitInv == TabsInit => TabsInv
<1> SUFFICES ASSUME TabsInit PROVE TabsInv
  OBVIOUS
<1>1. NewSession \in Session
  BY FirstPage DEF NewSession, Session
<1>2. IdleCall \in Call
  BY TabsAssumption, FirstPage DEF IdleCall, Call, CallPCs
<1>3. /\ \A u \in Users : tabs[u] = NewSession
      /\ \A k \in Callers : call[k] = IdleCall
      /\ TabsTypeOK
  BY <1>1, <1>2 DEF TabsInit, TabsTypeOK
<1>4. CallsAtActive /\ ResultNamesItsPage
  <2>1. IdleCall.pc = "idle"
    BY DEF IdleCall
  <2> QED BY <1>3, <2>1 DEF CallsAtActive, ResultNamesItsPage, CallAt
<1>5. SessionsInv /\ ActiveAccounted
  <2>1. SessionInv(NewSession)
    BY FirstPage DEF SessionInv, CountsCrashes, WellWatched, NewSession, Pages
  <2>2. NewSession.active \in NewSession.live
    BY DEF NewSession
  <2> QED BY <1>3, <2>1, <2>2 DEF SessionsInv, ActiveAccounted
<1> QED BY <1>3, <1>4, <1>5 DEF TabsInv

-----------------------------------------------------------------------------
(***************************************************************************)
(* The composition.                                                         *)
(***************************************************************************)
CastTypeOK == cast \in [clients : SUBSET Clients, calls : Nat, events : Nat, faults : 0..MaxFaults]

SystemInv == ManagerInv /\ SessionsNotLost /\ TabsInv /\ CastTypeOK

\* Every step is the manager's, or that of a call or a page.
LEMMA StepParts ==
  ASSUME Next
  PROVE  \/ ManagerNext /\ UNCHANGED <<tabVars, cast>>
         \/ /\ UNCHANGED managerVars
            /\ cast' = cast \/ (cast.calls > 0 /\ cast' = [cast EXCEPT !.calls = @ - 1])
               \/ (cast.events > 0 /\ cast' = [cast EXCEPT !.events = @ - 1])
            /\ \/ \E k \in Callers : CallStep(k)
               \/ \E k \in Callers, u \in Users : EnterCall(k, u)
               \/ \E u \in Users : PageEvent(u)
<1>1. CASE Open
  BY <1>1 DEF Open, Arrive, ManagerNext
<1>2. CASE Close
  BY <1>2 DEF Close, ManagerNext
<1>3. CASE Happen
  BY <1>3 DEF Happen
<1>4. ASSUME NEW c \in Clients, Manage(c) PROVE ManagerNext /\ UNCHANGED <<tabVars, cast>>
  BY <1>4 DEF Manage, ManagerNext
<1>5. ASSUME NEW k \in Callers, ServeCall(k)
      PROVE  UNCHANGED managerVars /\ cast' = cast /\ CallStep(k)
  BY <1>5 DEF ServeCall
<1>6. ASSUME NEW k \in Callers, NEW u \in Users, MakeCall(k, u)
      PROVE  /\ UNCHANGED managerVars /\ EnterCall(k, u)
             /\ cast.calls > 0 /\ cast' = [cast EXCEPT !.calls = @ - 1]
  BY <1>6 DEF MakeCall
<1> QED BY <1>1, <1>2, <1>3, <1>4, <1>5, <1>6 DEF Next

\* Every step keeps the invariant.
LEMMA SystemNextInv == SystemInv /\ [Next]_vars => SystemInv' /\ [ManagerNext]_managerVars
<1> SUFFICES ASSUME SystemInv, [Next]_vars PROVE SystemInv' /\ [ManagerNext]_managerVars
  OBVIOUS
<1>0. ManagerInv /\ SessionsNotLost /\ TabsInv /\ CastTypeOK
  BY DEF SystemInv
<1>1. ASSUME UNCHANGED managerVars
      PROVE  [ManagerNext]_managerVars /\ ManagerInv' /\ SessionsNotLost'
  <2>1. SessionsNotLost'
    BY <1>0, <1>1 DEF SessionsNotLost, managerVars, At
  <2> QED BY <1>0, <1>1, <2>1, ManagerNextInv
<1>2. ASSUME UNCHANGED tabVars PROVE TabsInv'
  <2>1. UNCHANGED <<tabs, call>>
    BY <1>2 DEF tabVars
  <2>2. TabsTypeOK' /\ CallsAtActive' /\ SessionsInv'
    BY <1>0, <2>1 DEF TabsInv, TabsTypeOK, CallsAtActive, SessionsInv
  <2>3. ActiveAccounted' /\ ResultNamesItsPage'
    BY <1>0, <2>1 DEF TabsInv, ActiveAccounted, Excused, ResultNamesItsPage, CallAt
  <2> QED BY <2>2, <2>3 DEF TabsInv
<1>3. CASE UNCHANGED vars
  <2>1. UNCHANGED managerVars /\ UNCHANGED tabVars /\ UNCHANGED cast
    BY <1>3 DEF vars
  <2>2. CastTypeOK'
    BY <1>0, <2>1 DEF CastTypeOK
  <2> QED BY <1>1, <1>2, <2>1, <2>2 DEF SystemInv
<1>4. CASE ManagerNext /\ UNCHANGED <<tabVars, cast>>
  <2>1. CastTypeOK'
    BY <1>0, <1>4 DEF CastTypeOK
  <2> QED BY <1>0, <1>2, <1>4, <2>1, ManagerNextInv, NotLostKept DEF SystemInv
<1>5. ASSUME UNCHANGED managerVars,
             cast' = cast \/ (cast.calls > 0 /\ cast' = [cast EXCEPT !.calls = @ - 1])
               \/ (cast.events > 0 /\ cast' = [cast EXCEPT !.events = @ - 1]),
             \/ \E k \in Callers : CallStep(k)
             \/ \E k \in Callers, u \in Users : EnterCall(k, u)
             \/ \E u \in Users : PageEvent(u)
      PROVE  SystemInv'
  <2>1. TabsInv'
    BY <1>0, <1>5, CallStepKeeps, EnterCallKeeps, PageEventKeeps
  <2>2. CastTypeOK'
    BY <1>0, <1>5 DEF CastTypeOK
  <2>3. ManagerInv' /\ SessionsNotLost'
    BY <1>1, <1>5
  <2> QED BY <2>1, <2>2, <2>3 DEF SystemInv
<1> QED BY <1>1, <1>3, <1>4, <1>5, StepParts DEF vars

\* The invariant of the whole.
LEMMA SystemInvariant == Spec => []SystemInv
<1>1. Init => SystemInv
  BY ManagerInitInv, NotLostInit, TabsInitInv, CastsAssumption DEF Init, SystemInv, CastTypeOK
<1> QED BY <1>1, SystemNextInv, PTL DEF Spec

\* A recovery goes on or is refused as the counter says.
LEMMA RecoveryStarts ==
  ASSUME TabsInv, Next, NEW k \in Callers, NEW entered \in {"close", "escalated"},
         call[k].pc # entered, call'[k].pc = entered
  PROVE  /\ call'[k].session \in Users
         /\ entered = "escalated" <=> Escalate(tabs[call'[k].session])
<1>0. call \in [Callers -> Call] /\ tabs \in [Users -> Session]
  BY DEF TabsInv, TabsTypeOK
<1>1. \/ UNCHANGED call
      \/ \E j \in Callers : CallStep(j)
      \/ \E j \in Callers, u \in Users : EnterCall(j, u)
  BY StepParts DEF PageEvent, CrashPage, PageCloses, PopupOpens, tabVars
<1>2. ASSUME NEW j \in Callers, NEW rec, rec.pc # entered,
             SetCall(j, rec) \/ Move(j, rec)
      PROVE  FALSE
  <2>1. CASE k = j
    BY <1>0, <1>2, <2>1 DEF SetCall, Move
  <2>2. CASE k # j
    BY <1>0, <1>2, <2>2 DEF SetCall, Move, Call
  <2> QED BY <2>1, <2>2
<1>3. ASSUME NEW j \in Callers, CallStep(j) PROVE FALSE
  <2> DEFINE c == call[j]
             n == Tabs(j).opened + 1
  <2>0. c \in Call
    BY <1>0
  <2>1. ASSUME InspectOn(j) PROVE FALSE
    <3> DEFINE rec == [c EXCEPT !.method = "page", !.page = Tabs(j).active]
    <3>1. SetCall(j, rec) /\ c.pc = "page"
      BY <2>1 DEF InspectOn, CallAt
    <3>2. rec.pc = "page"
      BY <2>0, <3>1 DEF Call
    <3> HIDE DEF rec
    <3> QED BY <3>1, <3>2, <1>2
  <2>2. ASSUME PageDone(j) PROVE FALSE
    <3> DEFINE rec == [c EXCEPT !.pc = "answered", !.named = Tabs(j).active]
    <3>1. SetCall(j, rec)
      BY <2>2 DEF PageDone
    <3>2. rec.pc = "answered"
      BY <2>0 DEF Call
    <3> HIDE DEF rec
    <3> QED BY <3>1, <3>2, <1>2
  <2>3. ASSUME TabsListed(j) PROVE FALSE
    <3> DEFINE rec == [c EXCEPT !.pc = "answered", !.named = Tabs(j).active,
                            !.page = Tabs(j).active]
    <3>1. SetCall(j, rec)
      BY <2>3 DEF TabsListed
    <3>2. rec.pc = "answered"
      BY <2>0 DEF Call
    <3> HIDE DEF rec
    <3> QED BY <3>1, <3>2, <1>2
  <2>4. ASSUME ClosePage(j) PROVE FALSE
    <3> DEFINE rec == [c EXCEPT !.pc = "reopen"]
    <3>1. SetCall(j, rec)
      BY <2>4 DEF ClosePage
    <3>2. rec.pc = "reopen"
      BY <2>0 DEF Call
    <3> HIDE DEF rec
    <3> QED BY <3>1, <3>2, <1>2
  <2>5. ASSUME Reopen(j) PROVE FALSE
    <3> DEFINE rec == [c EXCEPT !.pc = "page", !.method = "load", !.page = n]
    <3>1. Move(j, rec)
      BY <2>5 DEF Reopen
    <3>2. rec.pc = "page"
      BY <2>0 DEF Call
    <3> HIDE DEF rec
    <3> QED BY <3>1, <3>2, <1>2
  <2>6. ASSUME FailCall(j) PROVE FALSE
    <3> DEFINE rec == [IdleCall EXCEPT !.pc = "raised", !.session = c.session]
    <3>1. SetCall(j, rec)
      BY <2>6 DEF FailCall
    <3>2. rec.pc = "raised"
      BY <2>0 DEF Call, IdleCall
    <3> HIDE DEF rec
    <3> QED BY <3>1, <3>2, <1>2
  <2>7. ASSUME NEW goto \in BOOLEAN, NewTab(j, goto) PROVE FALSE
    <3> DEFINE loading == [c EXCEPT !.pc = "page", !.method = "load", !.page = n]
               answered == [c EXCEPT !.pc = "answered", !.page = n, !.named = Opened(Tabs(j)).active]
    <3>1. Move(j, loading) \/ Move(j, answered)
      BY <2>7 DEF NewTab
    <3>2. loading.pc = "page" /\ answered.pc = "answered"
      BY <2>0 DEF Call
    <3> HIDE DEF loading, answered
    <3> QED BY <3>1, <3>2, <1>2
  <2> QED BY <1>3, <2>1, <2>2, <2>3, <2>4, <2>5, <2>6, <2>7 DEF CallStep
<1>4. ASSUME NEW j \in Callers, NEW u \in Users, EnterCall(j, u)
      PROVE  (entered = "escalated" <=> Escalate(tabs[u])) /\ call'[k].session = u
  <2>1. \A pc \in CallPCs : /\ StartCall(u, pc) \in Call /\ StartCall(u, pc).pc = pc
                            /\ StartCall(u, pc).session = u
    BY <1>0, StartCallIs
  <2>2. ASSUME NEW method, CallPage(j, u, method) PROVE FALSE
    <3>1. StartCall(u, "page") \in Call /\ StartCall(u, "page").pc = "page"
      BY <2>1 DEF CallPCs
    <3>2. [StartCall(u, "page") EXCEPT !.method = method].pc = "page"
      BY <3>1 DEF Call
    <3> QED BY <1>2, <2>2, <3>2 DEF CallPage
  <2>3. CallNewTab(j, u) => FALSE
    BY <1>2, <2>1 DEF CallNewTab, CallPCs
  <2>4. ASSUME NEW p \in Pages, SwitchTab(j, u, p) PROVE FALSE
    <3>1. StartCall(u, "answered") \in Call /\ StartCall(u, "answered").pc = "answered"
      BY <2>1 DEF CallPCs
    <3>2. [StartCall(u, "answered") EXCEPT !.page = p, !.named = p].pc = "answered"
      BY <3>1 DEF Call
    <3> QED BY <1>2, <2>4, <3>2 DEF SwitchTab
  <2>5. ASSUME CallRecover(j, u)
        PROVE  (entered = "escalated" <=> Escalate(tabs[u])) /\ call'[k].session = u
    <3> DEFINE to == IF Escalate(tabs[u]) THEN "escalated" ELSE "close"
    <3>1. SetCall(j, StartCall(u, to))
      BY <2>5 DEF CallRecover
    <3>2. to \in CallPCs
      BY DEF CallPCs
    <3>3. StartCall(u, to) \in Call /\ StartCall(u, to).pc = to /\ StartCall(u, to).session = u
      BY <2>1, <3>2, Zenon
    <3>4. k = j
      BY <1>0, <3>1 DEF SetCall
    <3>5. call'[k] = StartCall(u, to)
      BY <1>0, <3>1, <3>4 DEF SetCall
    <3> QED BY <3>3, <3>5
  <2> QED BY <1>4, <2>2, <2>3, <2>4, <2>5 DEF EnterCall
<1> QED BY <1>1, <1>3, <1>4

\* And the counter says what was heard.
LEMMA RecoveryJudged ==
  ASSUME SystemInv, [Next]_vars, NEW k \in Callers
  PROVE  LET s == tabs[call'[k].session]
         IN  /\ ~CallAt(k, "close") /\ call'[k].pc = "close" => s.heard <= 1
             /\ ~CallAt(k, "escalated") /\ call'[k].pc = "escalated" => s.heard >= 2 \/ s.twice
<1> SUFFICES ASSUME NEW entered \in {"close", "escalated"}, call[k].pc # entered,
                    call'[k].pc = entered
             PROVE  LET s == tabs[call'[k].session]
                    IN  /\ entered = "close" => s.heard <= 1
                        /\ entered = "escalated" => s.heard >= 2 \/ s.twice
  BY DEF CallAt
<1> DEFINE s == tabs[call'[k].session]
<1>1. TabsInv /\ Next
  BY DEF SystemInv, vars, tabVars
<1>2. call'[k].session \in Users /\ (entered = "escalated" <=> Escalate(s))
  BY <1>1, RecoveryStarts
<1>3. s \in Session /\ CountsCrashes(s)
  BY <1>1, <1>2 DEF TabsInv, TabsTypeOK, SessionsInv, SessionInv
<1>4. s.crashCount \in Nat /\ s.heard \in Nat
  BY <1>3, SessionFields
<1> HIDE DEF s
<1>5. /\ entered = "close" => s.heard <= 1
      /\ entered = "escalated" => s.heard >= 2 \/ s.twice
  BY <1>2, <1>3, <1>4 DEF Escalate, CountsCrashes
<1> QED BY <1>5 DEF s

-----------------------------------------------------------------------------

(***************************************************************************)
(* The browser's variables keep their types.                                *)
(***************************************************************************)
THEOREM BrowserTypeCorrect == Spec => []TypeOK
<1>1. SystemInv => TypeOK
  BY DEF SystemInv, ManagerInv, TabsInv, CastTypeOK, TypeOK
<1> QED BY <1>1, SystemInvariant, PTL

(***************************************************************************)
(* For any number of runs and users: a run that is over has stopped its     *)
(* driver and closed its context, unless another start() replaced them.     *)
(***************************************************************************)
THEOREM BrowserRunLeavesNothing == Spec => []RunLeavesNothing
<1>1. SystemInv => RunLeavesNothing
  BY ManagerInvImplies DEF SystemInv
<1> QED BY <1>1, SystemInvariant, PTL

(***************************************************************************)
(* A registered session is usable, being stopped, or its browser is gone.   *)
(***************************************************************************)
THEOREM BrowserRegisteredIsUsable == Spec => []RegisteredIsUsable
<1>1. SystemInv => RegisteredIsUsable
  BY DEF SystemInv, ManagerInv
<1> QED BY <1>1, SystemInvariant, PTL

(***************************************************************************)
(* The routes are refused only after a run's stop().                        *)
(***************************************************************************)
THEOREM BrowserRoutesFailOnlyAfterStop == Spec => []RoutesFailOnlyAfterStop
<1>1. SystemInv => RoutesFailOnlyAfterStop
  BY ManagerInvImplies DEF SystemInv
<1> QED BY <1>1, SystemInvariant, PTL

(***************************************************************************)
(* A session that works can be found, unless a stop() is about to close its *)
(* browser or failed there, or another start() has replaced the browser.    *)
(***************************************************************************)
THEOREM BrowserSessionsNotLost == Spec => []SessionsNotLost
<1>1. SystemInv => SessionsNotLost
  BY DEF SystemInv
<1> QED BY <1>1, SystemInvariant, PTL

(***************************************************************************)
(* The active page of an open context is an open page, unless it closed by  *)
(* itself, or a recovery is replacing it or failed to.                      *)
(***************************************************************************)
THEOREM BrowserActiveIsLive == Spec => []ActiveIsLive
<1>1. SystemInv => ActiveIsLive
  BY DEF SystemInv, TabsInv, ActiveAccounted, Excused, ActiveIsLive, Live, CallAt
<1> QED BY <1>1, SystemInvariant, PTL

(***************************************************************************)
(* A result names the page acted on unless another call changed tabs.       *)
(***************************************************************************)
THEOREM BrowserResultNamesItsPage == Spec => []ResultNamesItsPage
<1>1. SystemInv => ResultNamesItsPage
  BY DEF SystemInv, TabsInv
<1> QED BY <1>1, SystemInvariant, PTL

(***************************************************************************)
(* For any number of tabs and recoveries: one goes on after at most one     *)
(* crash heard, and is refused only after two or after one heard twice.     *)
(***************************************************************************)
THEOREM BrowserRecoveriesJudged == Spec => RecoveriesJudged
<1>1. SystemInv /\ [Next]_vars =>
        [\A k \in Callers :
           LET s == tabs[call'[k].session]
           IN  /\ ~CallAt(k, "close") /\ call'[k].pc = "close" => s.heard <= 1
               /\ ~CallAt(k, "escalated") /\ call'[k].pc = "escalated" =>
                    s.heard >= 2 \/ s.twice]_<<managerVars, tabVars>>
  BY RecoveryJudged
<1> QED BY <1>1, SystemInvariant, PTL DEF Spec, RecoveriesJudged

(***************************************************************************)
(* The page in use is not watched unless switch_tab has come back to it.    *)
(***************************************************************************)
THEOREM BrowserUsedPageUnwatched == Spec => []UsedPageUnwatched
<1>1. SystemInv => UsedPageUnwatched
  BY DEF SystemInv, TabsInv, SessionsInv, SessionInv, WellWatched, UsedPageUnwatched
<1> QED BY <1>1, SystemInvariant, PTL

-----------------------------------------------------------------------------
(* Opening and closing take finitely many steps: the safety half of Settles.*)

\* The lists that stop() works through.
ListsFinite ==
  /\ IsFiniteSet(sessions)
  /\ \A c \in Clients :
       /\ IsFiniteSet(client[c].doomed)
       /\ client[c].pc = "stopping" => client[c].doomed # {}

Phase ==
  [idle |-> 0, start |-> 1, launch |-> 2, context |-> 3, page |-> 4, open |-> 5, closing |-> 6,
   stopping |-> 7, browser |-> 8, driver |-> 9, done |-> 10, refused |-> 10, failed |-> 10]

\* A step takes its client to a later phase, or a session off its list.
GoesOn(c) ==
  \/ Phase[client'[c].pc] > Phase[client[c].pc]
  \/ /\ client[c].pc = "stopping" /\ client'[c].pc = "stopping"
     /\ \E s \in client[c].doomed : client'[c].doomed = client[c].doomed \ {s}

LEMMA PhaseOrder ==
  /\ Phase["idle"] = 0 /\ Phase["start"] = 1 /\ Phase["launch"] = 2 /\ Phase["context"] = 3
  /\ Phase["page"] = 4 /\ Phase["open"] = 5 /\ Phase["closing"] = 6 /\ Phase["stopping"] = 7
  /\ Phase["browser"] = 8 /\ Phase["driver"] = 9
  /\ Phase["done"] = 10 /\ Phase["refused"] = 10 /\ Phase["failed"] = 10
BY DEF Phase

\* Only the client that goes on changes, whatever becomes of it.
LEMMA Moved ==
  ASSUME client \in [Clients -> Client], NEW c \in Clients, NEW rec, Become(c, rec)
  PROVE  /\ client'[c] = rec
         /\ \A d \in Clients : d # c => client'[d] = client[d]
BY DEF Become

\* A client that goes on to another step keeps its list, or takes one of the
\* registered sessions with it into stop().
LEMMA PhaseAdvances ==
  ASSUME ManagerInv, NEW c \in Clients,
         \/ OpenRun(c) \/ CloseRun(c) \/ OpenRoute(c) \/ CloseRoute(c) \/ StartDriver(c)
         \/ LaunchBrowser(c) \/ CreateContext(c) \/ OpenPage(c) \/ ContextClosed(c)
         \/ BrowserClosed(c) \/ DriverStopped(c) \/ FailOpen(c) \/ FailClose(c)
  PROVE  /\ Phase[client'[c].pc] > Phase[client[c].pc]
         /\ client'[c].doomed \in {client[c].doomed, sessions, sessions \ {c}}
         /\ client'[c].pc = "stopping" => client'[c].doomed # {}
         /\ \A d \in Clients : d # c => client'[d] = client[d]
         /\ sessions' \in {sessions, sessions \cup {c}, sessions \ {c}}
<1> DEFINE old == client[c]
           new == client'[c]
<1>0. client \in [Clients -> Client] /\ old \in Client /\ browser \in Clients \cup {None}
      /\ playwright \in Clients \cup {None} /\ sessions \subseteq Clients
  BY DEF ManagerInv, ManagerTypeOK
<1> DEFINE Result(from, to) ==
             /\ old.pc \in from /\ new.pc \in to /\ new.doomed = old.doomed
             /\ \A d \in Clients : d # c => client'[d] = client[d]
<1>1. CASE OpenRun(c) \/ OpenRoute(c)
  <2>1. PICK rec : /\ old.pc = "idle" /\ Become(c, rec)
                   /\ \/ rec = [old EXCEPT !.pc = "start"]
                      \/ rec = [old EXCEPT !.pc = "context", !.on = browser]
    BY <1>1 DEF OpenRun, OpenRoute, Goto, At
  <2>2. rec.pc \in {"start", "context"} /\ rec.doomed = old.doomed
    BY <1>0, <2>1 DEF Client
  <2>3. Result({"idle"}, {"start", "context"})
    BY <1>0, <2>1, <2>2, Moved
  <2> QED BY <1>1, <2>3, PhaseOrder DEF OpenRun, OpenRoute
<1>2. CASE StartDriver(c) \/ LaunchBrowser(c) \/ CreateContext(c) \/ OpenPage(c) \/ FailOpen(c)
  <2>1. PICK rec :
          /\ Become(c, rec)
          /\ \/ old.pc = "start" /\ rec = [old EXCEPT !.pc = "launch"]
             \/ old.pc = "launch" /\ rec = [old EXCEPT !.pc = "context", !.on = c]
             \/ old.pc = "context" /\ rec = [old EXCEPT !.pc = "page"]
             \/ old.pc = "page" /\ rec = [old EXCEPT !.pc = "open"]
             \/ /\ old.pc \in {"start", "launch", "context", "page"}
                /\ rec = [old EXCEPT !.pc = "refused"]
    BY <1>2 DEF StartDriver, LaunchBrowser, CreateContext, OpenPage, FailOpen, Goto, At
  <2>2. /\ rec.doomed = old.doomed
        /\ \/ old.pc = "start" /\ rec.pc = "launch"
           \/ old.pc = "launch" /\ rec.pc = "context"
           \/ old.pc = "context" /\ rec.pc = "page"
           \/ old.pc = "page" /\ rec.pc = "open"
           \/ old.pc \in {"start", "launch", "context", "page"} /\ rec.pc = "refused"
    BY <1>0, <2>1 DEF Client
  <2>3. \/ Result({"start"}, {"launch", "refused"}) \/ Result({"launch"}, {"context", "refused"})
        \/ Result({"context"}, {"page", "refused"}) \/ Result({"page"}, {"open", "refused"})
    BY <1>0, <2>1, <2>2, Moved
  <2>4. sessions' \in {sessions, sessions \cup {c}}
    BY <1>2 DEF StartDriver, LaunchBrowser, CreateContext, OpenPage, FailOpen
  <2> QED BY <2>3, <2>4, PhaseOrder
<1>3. CASE BrowserClosed(c) \/ DriverStopped(c) \/ FailClose(c)
  <2>1. PICK rec :
          /\ Become(c, rec)
          /\ \/ old.pc = "browser" /\ rec = [old EXCEPT !.pc = "driver", !.target = playwright]
             \/ old.pc = "driver" /\ rec = [old EXCEPT !.pc = "done"]
             \/ /\ old.pc \in {"closing", "stopping", "browser", "driver"}
                /\ rec = [old EXCEPT !.pc = "failed"]
    BY <1>3 DEF BrowserClosed, DriverStopped, FailClose, Goto, At
  <2>2. /\ rec.doomed = old.doomed
        /\ \/ old.pc = "browser" /\ rec.pc = "driver"
           \/ old.pc = "driver" /\ rec.pc = "done"
           \/ old.pc \in {"closing", "stopping", "browser", "driver"} /\ rec.pc = "failed"
    BY <1>0, <2>1 DEF Client
  <2>3. \/ Result({"browser"}, {"driver"}) \/ Result({"driver"}, {"done"})
        \/ Result({"closing", "stopping", "browser", "driver"}, {"failed"})
    BY <1>0, <2>1, <2>2, Moved
  <2>4. sessions' = sessions
    BY <1>3 DEF BrowserClosed, DriverStopped, FailClose
  <2> QED BY <2>3, <2>4, PhaseOrder
<1>4. CASE CloseRoute(c) \/ (ContextClosed(c) /\ c \notin Runs)
  <2>1. Result({"open"}, {"closing", "done"}) \/ Result({"closing"}, {"done"})
    BY <1>0, <1>4 DEF CloseRoute, ContextClosed, Goto, Become, At, Client
  <2>2. sessions' \in {sessions, sessions \ {c}}
    BY <1>4 DEF CloseRoute, ContextClosed
  <2> QED BY <2>1, <2>2, PhaseOrder
<1>5. CASE CloseRun(c) \/ (ContextClosed(c) /\ c \in Runs)
  <2>1. old.pc \in {"open", "closing"} /\ sessions' \in {sessions, sessions \ {c}}
    BY <1>5 DEF CloseRun, ContextClosed, At
  <2>2. \/ old.pc = "open" /\ Goto(c, "closing")
        \/ Become(c, Stopping(c, sessions))
    BY <1>5 DEF CloseRun, ContextClosed, At
  <2>3. CASE old.pc = "open" /\ Goto(c, "closing")
    <3>1. Result({"open"}, {"closing"})
      BY <1>0, <2>3 DEF Goto, Become, Client
    <3> QED BY <2>1, <3>1, PhaseOrder
  <2>4. CASE Become(c, Stopping(c, sessions))
    <3>1. /\ new = Stopping(c, sessions) /\ Stopping(c, sessions) \in Client
          /\ \A d \in Clients : d # c => client'[d] = client[d]
      BY <1>0, <2>4, StoppingIs, Becoming
    <3>2. \/ new.pc = "browser" /\ new.doomed = old.doomed
          \/ new.pc = "stopping" /\ new.doomed = sessions /\ sessions # {}
      BY <1>0, <3>1, StoppingIs
    <3> QED BY <2>1, <3>1, <3>2, PhaseOrder
  <2> QED BY <2>2, <2>3, <2>4
<1> QED BY <1>1, <1>2, <1>3, <1>4, <1>5

\* stop() closes a session of its list, or the last one.
LEMMA DoomedShrinks ==
  ASSUME ManagerInv, NEW c \in Clients, NEW s \in Clients, CloseDoomed(c, s)
  PROVE  /\ GoesOn(c)
         /\ client'[c].doomed \subseteq client[c].doomed
         /\ client'[c].pc = "stopping" => client'[c].doomed # {}
         /\ \A d \in Clients : d # c => client'[d] = client[d]
         /\ sessions' \in {sessions, {}}
<1>0. client \in [Clients -> Client] /\ client[c].pc = "stopping" /\ s \in client[c].doomed
  BY DEF ManagerInv, ManagerTypeOK, CloseDoomed, At
<1>1. CASE client[c].doomed = {s}
  <2> DEFINE rec == [client[c] EXCEPT !.doomed = {}, !.pc = "browser", !.target = browser]
  <2>1. Become(c, rec) /\ sessions' = {}
    BY <1>1 DEF CloseDoomed
  <2>2. client[c] \in Client /\ rec.pc = "browser" /\ rec.doomed = {}
    BY <1>0 DEF Client
  <2> HIDE DEF rec
  <2>3. /\ client'[c].pc = "browser" /\ client'[c].doomed = {} /\ sessions' = {}
        /\ \A d \in Clients : d # c => client'[d] = client[d]
    BY <1>0, <2>1, <2>2, Moved
  <2> QED BY <1>0, <2>3, PhaseOrder DEF GoesOn
<1>2. CASE client[c].doomed # {s}
  <2>1. /\ client'[c].pc = "stopping" /\ client'[c].doomed = client[c].doomed \ {s}
        /\ sessions' = sessions
        /\ \A d \in Clients : d # c => client'[d] = client[d]
    BY <1>0, <1>2 DEF CloseDoomed, Become, Client
  <2>2. client[c].doomed \ {s} # {}
    BY <1>0, <1>2
  <2> QED BY <1>0, <2>1, <2>2 DEF GoesOn
<1> QED BY <1>1, <1>2

\* Every step of the manager is one of these.
LEMMA ManagerSteps ==
  ASSUME ManagerInv, ManagerNext
  PROVE  \E c \in Clients :
           /\ GoesOn(c)
           /\ \A d \in Clients : d # c => client'[d] = client[d]
           /\ \/ client'[c].doomed \in {client[c].doomed, sessions, sessions \ {c}}
              \/ client'[c].doomed \subseteq client[c].doomed
           /\ client'[c].pc = "stopping" => client'[c].doomed # {}
           /\ sessions' \in {sessions, {}, sessions \cup {c}, sessions \ {c}}
<1>1. PICK c \in Clients :
        \/ \/ OpenRun(c) \/ CloseRun(c) \/ OpenRoute(c) \/ CloseRoute(c) \/ StartDriver(c)
           \/ LaunchBrowser(c) \/ CreateContext(c) \/ OpenPage(c) \/ ContextClosed(c)
           \/ BrowserClosed(c) \/ DriverStopped(c) \/ FailOpen(c) \/ FailClose(c)
        \/ \E s \in Clients : CloseDoomed(c, s)
  BY DEF ManagerNext, ManagerStep, Clients
<1>2. CASE \E s \in Clients : CloseDoomed(c, s)
  BY <1>2, DoomedShrinks
<1>3. CASE ~\E s \in Clients : CloseDoomed(c, s)
  BY <1>1, <1>3, PhaseAdvances DEF GoesOn
<1> QED BY <1>2, <1>3

LEMMA ListsKept ==
  ASSUME ManagerInv, ListsFinite, [ManagerNext]_managerVars
  PROVE  ListsFinite'
<1>1. CASE UNCHANGED managerVars
  BY <1>1 DEF managerVars, ListsFinite
<1>2. CASE ManagerNext
  <2>1. PICK c \in Clients :
          /\ \A d \in Clients : d # c => client'[d] = client[d]
          /\ \/ client'[c].doomed \in {client[c].doomed, sessions, sessions \ {c}}
             \/ client'[c].doomed \subseteq client[c].doomed
          /\ client'[c].pc = "stopping" => client'[c].doomed # {}
          /\ sessions' \in {sessions, {}, sessions \cup {c}, sessions \ {c}}
    BY <1>2, ManagerSteps
  <2>2. IsFiniteSet(sessions) /\ IsFiniteSet(client[c].doomed)
    BY DEF ListsFinite
  <2>3. IsFiniteSet(sessions')
    <3>1. /\ IsFiniteSet({}) /\ IsFiniteSet(sessions \cup {c}) /\ IsFiniteSet(sessions \ {c})
      BY <2>2, FS_EmptySet, FS_AddElement, FS_RemoveElement
    <3> QED BY <2>1, <2>2, <3>1
  <2>4. IsFiniteSet(client'[c].doomed)
    BY <2>1, <2>2, FS_Subset, FS_RemoveElement
  <2> QED BY <2>1, <2>3, <2>4 DEF ListsFinite
<1> QED BY <1>1, <1>2

LEMMA ListsInit == Init => ListsFinite
<1> SUFFICES ASSUME Init PROVE ListsFinite
  OBVIOUS
<1>1. sessions = {} /\ \A c \in Clients : client[c].doomed = {} /\ client[c].pc = "idle"
  BY DEF Init, ManagerInit
<1>2. IsFiniteSet({})
  BY FS_EmptySet
<1> QED BY <1>1, <1>2 DEF ListsFinite

(***************************************************************************)
(* Every step of the manager takes its client to a later phase of opening   *)
(* and closing, or one session off the list that its stop() works through;  *)
(* the list is finite, not empty as long as stop() is at it, and no other   *)
(* client touches it or sends the client back, however they overlap.        *)
(***************************************************************************)
THEOREM BrowserStepsEnd ==
  Spec => []ListsFinite /\ [][\A c \in Clients : client'[c] = client[c] \/ GoesOn(c)]_vars
<1>1. SystemInv /\ ListsFinite /\ [Next]_vars => ListsFinite'
  BY SystemNextInv, ListsKept DEF SystemInv
<1>2. SystemInv /\ [Next]_vars => [\A c \in Clients : client'[c] = client[c] \/ GoesOn(c)]_vars
  <2> SUFFICES ASSUME SystemInv, [Next]_vars, NEW c \in Clients
               PROVE  client'[c] = client[c] \/ GoesOn(c)
    OBVIOUS
  <2>1. ManagerInv /\ [ManagerNext]_managerVars
    BY SystemNextInv DEF SystemInv
  <2>2. CASE ManagerNext
    BY <2>1, <2>2, ManagerSteps
  <2>3. CASE UNCHANGED managerVars
    BY <2>3 DEF managerVars
  <2> QED BY <2>1, <2>2, <2>3
<1> QED BY <1>1, <1>2, ListsInit, SystemInvariant, PTL DEF Spec
=============================================================================
