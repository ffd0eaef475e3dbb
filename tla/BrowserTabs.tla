----------------------------- MODULE BrowserTabs -----------------------------
(***************************************************************************)
(* BrowserSession and the 13 browser tools: the pages of one session, which *)
(* of them is self.page, the crash counter, and tool calls that run         *)
(* concurrently, as the coroutines of one model answer do.                  *)
(*                                                                          *)
(* The id of a session is known to the user who opened it by the route and  *)
(* whoever the user tells; the one a run opened for itself is put in        *)
(* configurable["browser_session_id"], which nothing reads.  What a web     *)
(* page does is external: it loads, fails or crashes as it likes.           *)
(***************************************************************************)
EXTENDS BrowserManager, TLC

CONSTANTS
  Callers,     \* tool calls, and tests, that can be in flight at once
  MaxTabs      \* bound: pages opened in one session

ASSUME TabsAssumption == MaxTabs \in Nat \ {0} /\ Users # {}

VARIABLES
  tabs,   \* tabs[u]: the BrowserSession that user u opened
  call    \* call[k]: the tool call of k

tabVars == <<tabs, call>>

Pages == 1..MaxTabs

\* live: the pages not closed one by one; active: self.page; handlers: pairs of
\* crash and load handlers on each page; crashCount: _crash_count.  History, of
\* the crashes since the last load that was heard: heard, how many some handler
\* heard, twice, whether two handlers heard one; gone: the pages that closed by
\* themselves; broken: a recovery failed after closing the active page;
\* switched: the active page is what switch_tab chose.
Session == [opened : Pages, live : SUBSET Pages, active : Pages,
            handlers : [Pages -> Nat], crashCount : Nat,
            heard : Nat, twice : BOOLEAN, gone : SUBSET Pages,
            broken : BOOLEAN, switched : BOOLEAN]

\* __init__: open_session installs no handler on the first page.
NewSession == [opened |-> 1, live |-> {1}, active |-> 1, handlers |-> [p \in Pages |-> 0],
               crashCount |-> 0, heard |-> 0, twice |-> FALSE, gone |-> {},
               broken |-> FALSE, switched |-> FALSE]

CallPCs == {"idle", "page", "newtab", "close", "reopen", "answered", "raised", "escalated"}

\* page: the page it acts on; named: the page whose url the result reports.
\* History: moved, whether another call has changed the active page meanwhile.
Call == [pc : CallPCs, session : Users, method : {"page", "load", "inspect", "list_tabs"},
         page : Pages, named : Pages, moved : BOOLEAN]

IdleCall == [pc |-> "idle", session |-> CHOOSE u \in Users : TRUE, method |-> "page",
             page |-> 1, named |-> 1, moved |-> FALSE]

TabsInit ==
  /\ tabs = [u \in Users |-> NewSession]
  /\ call = [k \in Callers |-> IdleCall]

-----------------------------------------------------------------------------
(* The tools: whether the engine wants an approval, and what execute() does *)
(* with the session it names.                                               *)

Tool(approval, method) == [approval |-> approval, method |-> method]

ObservingTools ==
     "browser_navigate" :> Tool(FALSE, "load")
  @@ "browser_inspect"  :> Tool(FALSE, "inspect")
  @@ "browser_click"    :> Tool(FALSE, "page")
  @@ "browser_type"     :> Tool(FALSE, "page")

FormTools ==
     "browser_select"     :> Tool(FALSE, "page")
  @@ "browser_extract"    :> Tool(FALSE, "page")
  @@ "browser_scroll"     :> Tool(FALSE, "page")
  @@ "browser_screenshot" :> Tool(FALSE, "page")
  @@ "browser_wait"       :> Tool(FALSE, "page")

WindowTools ==
     "browser_download"   :> Tool(TRUE, "page")
  @@ "browser_new_tab"    :> Tool(FALSE, "new_tab")
  @@ "browser_switch_tab" :> Tool(FALSE, "switch_tab")
  @@ "browser_list_tabs"  :> Tool(FALSE, "list_tabs")

BrowserTools == ObservingTools @@ FormTools @@ WindowTools

\* The graph and the skill build their tools with context=None, so no action is
\* ever approved.
Methods == {BrowserTools[t].method : t \in {t \in DOMAIN BrowserTools : ~BrowserTools[t].approval}}

-----------------------------------------------------------------------------
(* Helpers of a session.                                                    *)

CallAt(k, pc) == call[k].pc = pc

Resting(k) == call[k].pc \in {"idle", "answered", "raised", "escalated"}

\* get_session finds it.
Found(u) == u \in sessions

Tabs(k) == tabs[call[k].session]

\* context.pages: the pages of a context are closed with it.
Live(u) == IF context[u] = "open" THEN tabs[u].live ELSE {}

SetTabs(u, s) == tabs' = [tabs EXCEPT ![u] = s]

\* k goes on as rec; the calls in flight in its session see another page now.
Move(k, rec) ==
  call' = [j \in Callers |->
             IF j = k THEN rec
             ELSE IF call[j].session = rec.session /\ ~Resting(j)
                  THEN [call[j] EXCEPT !.moved = TRUE] ELSE call[j]]

SetCall(k, rec) == call' = [call EXCEPT ![k] = rec]

StartCall(u, pc) == [IdleCall EXCEPT !.session = u, !.pc = pc, !.page = tabs[u].active]

\* The context has one page more.
Added(s) == [s EXCEPT !.opened = @ + 1, !.live = @ \cup {s.opened + 1}]

\* Mutant: the first page stays self.page.
OpenedNotSwapped(s) == [Added(s) EXCEPT !.handlers[s.active] = @ + 1]

\* context.new_page() returned: _install_crash_handler, which adds to the page
\* that is still self.page, and only then the swap.
Opened(s) ==
  [Added(s) EXCEPT !.handlers[s.active] = @ + 1,
                   !.active = s.opened + 1, !.broken = FALSE, !.switched = FALSE]

Chosen(s, p) == [s EXCEPT !.active = p, !.broken = FALSE, !.switched = TRUE]

\* _on_load, if the page that loaded is watched.
Loaded(s, p) ==
  IF s.handlers[p] > 0
  THEN [s EXCEPT !.crashCount = 0, !.heard = 0, !.twice = FALSE] ELSE s

\* _on_crash, once per handler on the page.
Crashed(s, p) ==
  [s EXCEPT !.crashCount = @ + s.handlers[p],
            !.heard = IF s.handlers[p] > 0 THEN @ + 1 ELSE @,
            !.twice = @ \/ s.handlers[p] > 1]

-----------------------------------------------------------------------------
(* The methods.                                                             *)

\* navigate, click, screenshot, ...: self.page is read before the first await.
CallPage(k, u, method) ==
  /\ Resting(k) /\ Found(u)
  /\ method \in Methods \cap {"page", "load", "inspect", "list_tabs"}
  /\ SetCall(k, [StartCall(u, "page") EXCEPT !.method = method])
  /\ UNCHANGED tabs

\* inspect reads self.page anew before each evaluate().
InspectOn(k) ==
  /\ CallAt(k, "page") /\ call[k].method = "inspect"
  /\ call[k].page \in Live(call[k].session)
  /\ SetCall(k, [call[k] EXCEPT !.method = "page", !.page = Tabs(k).active])
  /\ UNCHANGED tabs

\* The last await returns; the result is given the url of what is self.page
\* now.
PageDone(k) ==
  LET c == call[k]
  IN  /\ CallAt(k, "page") /\ c.method \in {"page", "load"}
      /\ c.page \in Live(c.session)
      /\ SetCall(k, [c EXCEPT !.pc = "answered", !.named = Tabs(k).active])
      /\ IF c.method = "load"
         THEN SetTabs(c.session, Loaded(Tabs(k), c.page))
         ELSE UNCHANGED tabs

\* list_tabs has awaited every title, of which closed pages have none, and looks
\* up which tab is active now, open or not.
TabsListed(k) ==
  /\ CallAt(k, "page") /\ call[k].method = "list_tabs"
  /\ SetCall(k, [call[k] EXCEPT !.pc = "answered", !.named = Tabs(k).active,
                                !.page = Tabs(k).active])
  /\ UNCHANGED tabs

CallNewTab(k, u) ==
  /\ Resting(k) /\ Found(u)
  /\ "new_tab" \in Methods
  /\ SetCall(k, StartCall(u, "newtab"))
  /\ UNCHANGED tabs

\* new_tab, with or without a url to go to.
NewTab(k, goto) ==
  LET n == Tabs(k).opened + 1
  IN  /\ CallAt(k, "newtab") /\ n \in Pages
      /\ context[call[k].session] = "open"
      /\ SetTabs(call[k].session, Opened(Tabs(k)))
      /\ Move(k, IF goto
                 THEN [call[k] EXCEPT !.pc = "page", !.method = "load", !.page = n]
                 ELSE [call[k] EXCEPT !.pc = "answered", !.page = n,
                                      !.named = Opened(Tabs(k)).active])

\* Mutant: tabs counted from one.
SwitchTabOffByOne(k, u, p) ==
  /\ Resting(k) /\ Found(u)
  /\ p \in Live(u)
  /\ SetTabs(u, Chosen(tabs[u], p + 1))
  /\ Move(k, [StartCall(u, "answered") EXCEPT !.page = p, !.named = p])

\* switch_tab does not await; an index out of range changes nothing.
SwitchTab(k, u, p) ==
  /\ Resting(k) /\ Found(u)
  /\ "switch_tab" \in Methods
  /\ p \in Live(u)
  /\ SetTabs(u, Chosen(tabs[u], p))
  /\ Move(k, [StartCall(u, "answered") EXCEPT !.page = p, !.named = p])

\* Mutant: the first crash already counts as one too many.
EscalateOffByOne(s) == s.crashCount >= 1

Escalate(s) == s.crashCount > 1

\* _recover_crashed_page, which only tests call: refused, or page.close().
CallRecover(k, u) ==
  /\ Resting(k) /\ Found(u)
  /\ SetCall(k, StartCall(u, IF Escalate(tabs[u]) THEN "escalated" ELSE "close"))
  /\ UNCHANGED tabs

\* close() returned or raised, which is ignored.
ClosePage(k) ==
  /\ CallAt(k, "close")
  /\ SetTabs(call[k].session, [Tabs(k) EXCEPT !.live = @ \ {call[k].page}])
  /\ SetCall(k, [call[k] EXCEPT !.pc = "reopen"])

\* Mutant: the session keeps the page that was closed.
ReopenNoSwap(k) ==
  LET n == Tabs(k).opened + 1
  IN  /\ CallAt(k, "reopen") /\ n \in Pages
      /\ context[call[k].session] = "open"
      /\ SetTabs(call[k].session, OpenedNotSwapped(Tabs(k)))
      /\ Move(k, [call[k] EXCEPT !.pc = "page", !.method = "load", !.page = n])

\* new_page() returned: handlers, swap, and navigate on the new page.
Reopen(k) ==
  LET n == Tabs(k).opened + 1
  IN  /\ CallAt(k, "reopen") /\ n \in Pages
      /\ context[call[k].session] = "open"
      /\ SetTabs(call[k].session, Opened(Tabs(k)))
      /\ Move(k, [call[k] EXCEPT !.pc = "page", !.method = "load", !.page = n])

\* Playwright raises: BrowserError, or for a screenshot its own error; the
\* engine retries neither.
FailCall(k) ==
  /\ call[k].pc \in {"page", "newtab", "reopen"}
  /\ SetCall(k, [IdleCall EXCEPT !.pc = "raised", !.session = call[k].session])
  /\ IF CallAt(k, "reopen") /\ Tabs(k).active = call[k].page
     THEN SetTabs(call[k].session, [Tabs(k) EXCEPT !.broken = TRUE])
     ELSE UNCHANGED tabs

-----------------------------------------------------------------------------
(* What pages do by themselves.                                             *)

\* Any page may crash; without a handler nobody hears of it.
CrashPage(u, p) ==
  /\ p \in Live(u)
  /\ SetTabs(u, Crashed(tabs[u], p))
  /\ UNCHANGED call

\* window.close(), or the human closes the tab: self.page is not told.
PageCloses(u, p) ==
  /\ p \in Live(u)
  /\ SetTabs(u, [tabs[u] EXCEPT !.live = @ \ {p}, !.gone = @ \cup {p}])
  /\ UNCHANGED call

\* A page opens another, which switch_tab can reach.
PopupOpens(u) ==
  /\ context[u] = "open" /\ tabs[u].opened + 1 \in Pages
  /\ SetTabs(u, Added(tabs[u]))
  /\ UNCHANGED call

PageEvent(u) == PopupOpens(u) \/ \E p \in Pages : CrashPage(u, p) \/ PageCloses(u, p)

-----------------------------------------------------------------------------

EnterCall(k, u) ==
  \/ \E method \in Methods : CallPage(k, u, method)
  \/ CallNewTab(k, u) \/ CallRecover(k, u)
  \/ \E p \in Pages : SwitchTab(k, u, p)

CallStep(k) ==
  \/ InspectOn(k) \/ PageDone(k) \/ TabsListed(k) \/ ClosePage(k) \/ Reopen(k) \/ FailCall(k)
  \/ \E goto \in BOOLEAN : NewTab(k, goto)

TabsTypeOK ==
  /\ tabs \in [Users -> Session]
  /\ call \in [Callers -> Call]

(***************************************************************************)
(* A result reports the url of the page that was acted on, although it is   *)
(* read from self.page after the await, unless another call of the session  *)
(* has changed tabs in between.                                             *)
(***************************************************************************)
ResultNamesItsPage ==
  \A k \in Callers :
    CallAt(k, "answered") /\ call[k].named # call[k].page => call[k].moved

(***************************************************************************)
(* Whatever calls and recoveries run at once, the active page of an open    *)
(* context is an open page, but for a page that closed by itself, and       *)
(* between a recovery's closing it and its new page, or its failure there.  *)
(***************************************************************************)
ActiveIsLive ==
  \A u \in Users : context[u] = "open" /\ tabs[u].active \notin Live(u) =>
    \/ tabs[u].active \in tabs[u].gone
    \/ tabs[u].broken
    \/ \E k \in Callers : /\ CallAt(k, "reopen")
                          /\ call[k].session = u /\ call[k].page = tabs[u].active

(***************************************************************************)
(* A recovery goes on after one crash heard and is refused after two, or    *)
(* after one that two handlers heard, for a page left for a new tab twice   *)
(* has its handlers twice.  Crashes before a load that was heard do not     *)
(* count, whichever page loaded.                                            *)
(***************************************************************************)
RecoveriesJudged ==
  [][\A k \in Callers :
       LET s == tabs[call'[k].session]
       IN  /\ ~CallAt(k, "close") /\ call'[k].pc = "close" => s.heard <= 1
           /\ ~CallAt(k, "escalated") /\ call'[k].pc = "escalated" =>
                s.heard >= 2 \/ s.twice]_<<managerVars, tabVars>>

(***************************************************************************)
(* The page in use is not watched unless switch_tab has come back to it:    *)
(* new_tab and recovery watch the page they leave.  So the crashes of pages *)
(* that recoveries open are not heard, and recovering from them goes on     *)
(* without end, whatever the docstring of _recover_crashed_page says.       *)
(***************************************************************************)
UsedPageUnwatched ==
  \A u \in Users : tabs[u].handlers[tabs[u].active] > 0 => tabs[u].switched
=============================================================================
