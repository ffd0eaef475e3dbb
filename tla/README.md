# TLA+ models of the agent operator

This directory holds TLA+ specifications of the parts of the agent operator
whose correctness depends on interleaving, failure and order: tasks, approvals,
the orchestrator and its workers, the tool engine with its rate limiter and
retries, the publishing of posts, the shared browser with its sessions and tabs,
and what the agents' tools do (research, fact check, drafts, files and
commands). TLC checks them on small instances
(the `.cfg` files), and TLAPS proves the most important safety properties for
every value of the constants (the `*Proofs.tla` modules). Paths below are
relative to the root of the repository; lines are those of the commit modelled.

## 1. The system

A request enters through FastAPI routes (`app/api/routes`), which call services
that write PostgreSQL rows. A `TaskWorker` polls the tasks table and runs an
`Orchestrator` per task: it asks a planner for a plan, walks the task through a
state machine, pauses for human approvals, and hands each step of the plan to a
compiled LangGraph subgraph. Subgraphs call tools through one
`ToolExecutionEngine`, which checks permissions and rate limits and retries.
Tools call external services. Publish routes call the engine directly.

| Component | State it keeps | Operations | Talks to | What is hard |
|---|---|---|---|---|
| Task state machine (`app/domain/state_machine.py`) | none (tables) | `can_transition`, `transition`, `can_cancel` | everything that writes `tasks.state` | it is applied to copies of a row |
| Task service and routes | `tasks` rows | create, transition, cancel | database | read, validate, commit without a version or a lock |
| Approval service and route | `approvals` rows | `create_approval`, newest pending, `decide` | task service | status and task state change in one commit, validated earlier; concurrent deciders |
| Orchestrator | in-memory run, one session per task | `run`, `_walk_to`, `_plan_for`, `_execute_plan`, handlers | services, planner, subgraphs | handlers that themselves fail, snapshots of approvals, re-runs |
| Task worker | `_active_tasks` | `_poll_once`, `_run_task`, `stop` | database, orchestrator | claims without a lock, several workers, death of the process |
| Rate limiter | one token bucket per tool | `acquire` | engine | lazy refill, cap, boundary of a token |
| Tool engine | none between calls (bucket in the limiter) | `execute`, retry | registry, tools, limiter | concurrent callers, calls from inside a tool, errors re-wrapped at each level |
| Fact-check tool | none | nested engine calls, verdict | engine | retries inside retries |
| Publish tools and adapters | `social_posts`, `publish_attempts` | `execute`, `publish` | database, X and LinkedIn | exactly-once over an unreliable external service |
| Social and content routes | `drafts` | publish, update | engine, approvals | draft edited between approval and publication |
| Social verification | `verification_status` | `execute` | adapters | compares stored hashes only |
| Browser manager (`app/browser/session.py` 350-436), browser routes | driver, browser, dict of sessions | `start`, `open_session`, `close_session`, `stop` | Playwright, orchestrator, routes | one manager shared by all tasks and users, every method awaits half-way |
| Browser sessions and tools | pages, active page, handlers, crash counter | 13 tools, tabs, `_recover_crashed_page` | Playwright | concurrent calls read `self.page` before and after an await; handlers of crashes |
| Research pipeline, classification | none between runs | search, fallback, extract, cross-check, synthesize | engine, model | failing sources, ranking before the cap, conflicts recorded in both claims while looping |
| Content generation and validation | `drafts` rows | `content_draft`, `content_validate`, POST `/content/drafts` | model, database | a post is filled before its number is known; the model replaces the text that was sent |
| Model router | settings | `_select_class` | providers | order of the rules |
| Graphs, LangChain adapter, factory, callbacks | none | `collect_tools`, `to_langchain_tool` | LangGraph, engine | which of a graph's tools can be performed at all |
| Filesystem and shell tools | files, processes | read, write, edit, folders, `shell_run` | OS | copies older than the file, processes that outlive their call, retried commands |
| Fetch and search tools | none | one call each | HTTP | - |
| Audit service, CLI, skills, configuration, migrations | - | - | - | - |

What makes them correct, in a sentence each:

* tasks: a state is entered only along the state machine; COMPLETED means that
  every planned step was performed; no task is left where nobody moves it on;
* approvals: nothing that needs an approval is performed without one; a waiting
  task can be decided; a decided one goes on;
* worker: one run per task, no more runs than the limit, every task is claimed;
* limiter and engine: a window of time sees a bounded number of calls; a call
  causes a bounded amount of work and ends; errors that must not be retried are
  not;
* publishing: one post per idempotency key; rows, answers and posts agree;
* browser: a session that can be found can be used, one that works can be found,
  nothing is left running, a result tells of the page it acted on, the active
  page is open, and recovery goes on or gives up by the crashes there were;
* research and fact check: a dispute is shown on both sides and a verdict follows
  from everything that was read, however many attempts it took;
* drafts: a thread says what the text says and fits, and is refused only for cause;
* local system: what an agent or a command wrote is not lost to another agent but
  through a copy that was older; a command is not run twice at once.

`PROJECT.json` lists every component with its status and every hazard with the
line where it bites and the properties that would catch it.

## 2. Modules

    TaskStates         constants: the state machine, the walk along the happy path
      TaskLifecycle    abstract: what a reader of tasks.state may rely on
      TaskStore        the committed rows of tasks and approvals
        TaskApi          cancel and decide requests
        OrchestratorRun  Orchestrator.run, one action per transaction or invocation
          TaskWorker       poll, claim, death of a process, re-runs
            TaskSystem       all of the above over one database, and the properties
              MCTaskSystem       constants for TLC
              TaskSystemProofs   types, the approval gate, capacity, nobody stranded,
                                 runs are finite
                TaskLifecycleProofs   TaskSystem implements TaskLifecycle; what
                                   COMPLETED means, and
                                   which states stay
    RateLimiter        token buckets
      ToolEngine       execute, retries, nested calls
        MCToolEngine, ToolEngineProofs
    SocialPublish      publish requests, rows, the platform, verification
        MCSocialPublish, SocialPublishProofs
    BrowserManager     driver, browser and sessions, one step per await
      BrowserTabs      the pages of a session and the tool calls on it
        BrowserSystem  both, with runs, users, calls and what pages do
          MCBrowserSystem, BrowserProofs
    AgentTools         constants: registry, graphs, routing
    Research           DefaultResearchPipeline.run
    FactCheck          FactCheckTool.execute under the engine's retry
    ContentDraft       threads, validation, the draft route
    LocalSystem        files, commands and their processes under concurrent agents
      AgentJobs        one of the four jobs above, equipped by AgentTools
        MCAgentJobs
        ContentDraftProofs (of ContentDraft),
        EvidenceProofs (of AgentTools, Research and FactCheck),
        AgentJobsProofs (of LocalSystem, and of the jobs together)

`PROJECT.json` ("map") gives the source lines of every definition.

### Tasks

*State.* `tasks[t]` is the committed row (state, the plan key and the report
keys of the JSON column `result`, whether `error` is set); `approvals` is the
sequence of approval rows. A run `run[w][t]` carries its program counter, the
copy of the row its session holds (`row`), the rest of a walk (`path`), the plan,
the snapshot of approved actions and its counter. `expire_on_commit=False` means
that the copy is replaced only by an explicit `refresh`, so every validation is
made against `row` and never against `tasks`. `request[c]` is a cancel or decide
request between its SELECT and its COMMIT. `approvedOnce`, `visited` and
`performed` are history variables: no action reads them.

*Actions.* One per transaction: `Load` (`orchestrator.py` 106-119), `Walk` and
`Refresh` (the two halves of `transition_task`), `PlanMade`/`PlanCached`/
`PlannerFails` (`_plan_for`), `Snapshot` (`_approved_actions_for`),
`AskApproval`/`AskRefused` (`_request_approval`), `StepBegin`/`StepSucceeds`/
`StepFails`/`NoGraph` (one iteration of `_execute_plan`), `LimitReached`
(`_check_limits`), `PlanDone`, `PersistResult`, and the handlers `Pause`,
`Handle`, `HandleRefused`, `PersistError`. `WalkRefused` is an
`InvalidStateTransitionError`: on the way to PLANNING it leaves `run()`, later
the handler catches it. `PollSelect` and `PollClaim` are the SELECT and the loop
of `_poll_once`. `Crash` loses every run of a process and rolls its sessions
back. `Resume` is a second call of `run()` on an approved task, as the
integration tests make it.

*Abstractions.* The planner returns any plan of the constant `Plans` or raises.
A subgraph succeeds or fails. The clock may run out at any check of the limits.
`RecoveryAgent._classify` is handed the text of the error and answers FAIL for
every text, so the RETRY and ESCALATE branches cannot be reached and are left
out; one invocation per step follows, and the two counters of `_check_limits`
agree. `cancelled_tasks` is filled by no code, so its check never fires.
AgentRun rows are flushed in the same transactions and read by nobody.

### Tool engine

`RateLimiter` counts exactly what the code counts in floats: a token is `Minute`
units, a tick of the clock adds `Rpm` units, and a bucket holds `Rpm * Minute`.
`acquire()` does not await, so `Grant` and `Deny` are single steps. In
`ToolEngine` every caller is a coroutine with an outer frame and, while a
composite tool waits for a nested call, an inner one; a frame has its attempt
number and the number of nested calls it has made. A retryable error at the
inner level is retried there first, then becomes a `ToolError` for the outer
level; an error that is not retryable becomes a `ToolError` at once. Calls that
are refused by the permission check change nothing. Since no caller sets
`agent_run_id`, no ToolCall row is written and `execute()` does not touch the
session it shares with concurrent calls.

### Publishing

`rows[key]` is the `social_posts` row of an idempotency key, `attempts[key]` its
`publish_attempts`, `posts[key]` what the platform really accepted for that key
(the platform is external and never forgets), and `calls[key]` a history of how
often it was called. A row's `post` stands for its `external_id`: the number of
the post, or 0 for the empty string, because an adapter takes a 201 without an id
for a success (`PostAccepted` with `named` FALSE). A pending row is the uncommitted
insert of its owner: other requests cannot see it, but the unique index makes
their INSERT wait. `Submit` is the route up to the engine, `FindDuplicate`,
`Insert`/`InsertConflict`, `PostAccepted`/`PostRejected`/`AnswerLost`,
`CommitSuccess`/`CommitFailure` are the tool, `Crash` rolls the transaction
back. `CommitFailure` includes the engine's decision to try again; the attempt
that follows finds the failed row of the first in its way and ends in
`InsertConflict`. The X tool and the LinkedIn tool are the same code but for names, so they are one model. A hash is
the text it was made from. `Decide` and `UpdateDraft` are the humans.

### Browser

*State.* A client is an orchestrator run with browser steps or a user of the
routes; it opens one session, so its launch, its context and its session bear its
name. `launch[c]` is the driver and browser its `start()` launched; `playwright`
and `browser` are the manager's only references, to the launch that was assigned
last; `sessions` are the keys of the dict; `client[c].on` is the launch its
context is on. `tabs[u]` is the `BrowserSession` of a user: the pages that were
not closed one by one (`Live` is `context.pages`, none of which is open once the
context is closed), the active one, the handlers on each page, `_crash_count`.
`heard`, `twice`, `gone`, `broken` and `switched` are history. `call[k]` is a tool call,
with the page it acts on and the page its result names.

*Actions.* One per await: `StartDriver` and `LaunchBrowser` (`start`),
`CreateContext` and `OpenPage` (`open_session`), `ContextClosed`
(`close_session`), `CloseDoomed`, `BrowserClosed`, `DriverStopped` (`stop`);
`FailOpen` and `FailClose` are a Playwright failure, or the error that follows
when another client has closed what is awaited. A run that fails while it opens
(`orchestrator.py` 126) is not yet inside the `try` whose `finally` closes and
stops; a run that closes calls `stop()`, whatever else is open. `stop()` does not
clear `_browser`, so a later route does not start a new one. A tool call reads
`self.page` (`CallPage`), awaits, and reads it again for the url of its result
(`PageDone`; `InspectOn` is one of the awaits of `inspect`); `NewTab` and
`Reopen` install the handlers on the page that is being left and swap after
that; `SwitchTab` does not await. Pages act by themselves (`PageEvent`): any page
may crash, with a handler or without (`CrashPage`), close (`PageCloses`, which
the session is not told, so it may be the active one) or open another
(`PopupOpens`). `CallRecover`, `ClosePage`, `Reopen` are `_recover_crashed_page`,
which only tests call.

*Abstractions.* What an action does inside a page, selectors, downloads and the
settings of the launch. The session a run opens for itself is put where nothing
reads it (`configurable["browser_session_id"]`), so tool calls go to the sessions
of users. `browser_download` needs an approval that no graph has.

### The agents' jobs

The four jobs share no state. `AgentJobs` runs one of them per behaviour and
checks that they are equipped: `Equipped` asks `AgentTools` that the registry,
the graph and the permissions let the job's tools be performed and that the class
of model the graph asks for calls tools. `AgentTools` records that a graph's
context is `None`, so tools with an approval are collected but never performed,
and that `verify_action` is registered by nobody.

`Research` is `run()` one iteration at a time: `Search`, `SearchAgain` (the
`lang_search` fallback), `TopSources` (stable ranking by type, then the cap),
`Fetch` or `SkipSource` (a failing source costs a warning), `ReadSentence` with
the limit per chunk, `Compare` for every ordered pair of claims, `Synthesize`.
Word overlap and agreement are symmetric relations on texts; a page is a sequence
of sentences of which some open a chunk. `published_at` is never set, so the
freshness in the ranking orders nothing.

`FactCheck` is `execute()`: per claim a search, a fetch of each hit and of the
claim's own source, and `Verdict` with `Confidence` in thousandths. `SubToolRaises`
is a ToolError that left the sub-tool's own retries: the engine runs the whole
check again, up to three times. A hit without a url fails validation
(`HitRejected`), which is not retried.

`ContentDraft` gives a text by the places where its sentences end and the
sentences with a faulty link. `PlaceSentence` is one round of `_build_raw_posts`,
`ValidatePost` validates a numbered post, `DraftWhole` a text that needs no
split; `ContentValidate` refuses an invalid text, and asks the tone checker, which
fails open, about a valid one only; `Generate` and `StoreDraft` are the route, in
which the model's text replaces the one that was sent and is validated instead.
The duplicate check is never given hashes.

`LocalSystem`: a file is the set of its lines, `seen[a][f]` what agent `a` last
read of it. `FileRead`, `FileWrite` and `FileEdit` do not await; `WriteBreaksOff`
is an error while writing, after `write_text` has emptied the file. `Spawn`,
`ShellExits`, `ShellTimesOut` and `PipesClosed` are `shell_run`; at any time while
it lives a process may append to its file, rewrite, empty or remove it (`Act`,
with any content of `Outputs`), and a child may survive the kill of
its shell, with the pipes ("orphan") or without ("detached"). `GuardRefuses` is
the guard on paths and commands. Every ToolError is retried up to three times.

## 3. What TLC checks

The passing runs explore the whole state space of their instance.

| Run | Instance | Properties | States |
|---|---|---|---|
| `task_safety` | 1 task, 1 worker with graphs, 1 caller that re-runs, 1 canceller, 1 decider, plans of 0 to 2 steps with and without approval, limits of 2, 1 crash | `TypeOK` `GateHonoured` `PlanPerformed` `CompletedIsReported` `NotStranded` `LifecycleSpec` | 974 k |
| `task_progress` | 2 tasks, 1 worker as deployed (`graphs={}`), 1 canceller, at most 1 concurrent run | `WorkerCapacity` `RunsEnd` `ClaimedEventually` | 36 k |
| `tool_engine` | 2 callers, a plain, a composite and a gated tool, 1 token a minute of 2 ticks, 2 ticks | `TypeOK` `WindowBound` `EffortBounded` `CallsEnd` | 207 k |
| `social_publish` | 2 concurrent requests, 2 keys, 3 submissions, 1 edit, 2 crashes | `TypeOK` `DuplicatesNeedCrashes` `RowStandsForPost` `AnswersAgree` `AttemptsOnRecord` `RequestsEnd` | 287 k |
| `browser_system` | 1 manager; all of 2 runs and 1 user with 1 Playwright failure and no calls; 1 run and the user with 2 calls; the user with 4 calls and 1 page event, and with 3 calls and 2 events, 2 calls at a time, 3 tabs | `TypeOK` `RunLeavesNothing` `RegisteredIsUsable` `RoutesFailOnlyAfterStop` `SessionsNotLost` `ResultNamesItsPage` `ActiveIsLive` `UsedPageUnwatched` `RecoveriesJudged` `Settles` | 834 k |
| `agent_jobs` | research: 3 urls, 4 texts, 4 searches, 2 sources kept; fact check: 2 claims, 4 lists of hits, 3 attempts; drafts: 10 texts; local system: 2 agents, 2 files, 3 calls, commands with 4 outcomes | `TypeOK` `DisputesExact` `BestSourcesKept` `ReportOfOneAttempt` `VerdictFollows` `PostsCoverText` `PostsFilled` `RefusedForCause` `OneAttached` `LostOnlyByStaleWriter` `JobsEnd` | 264 k |

* `GateHonoured`: no subgraph is invoked for a step that requires approval
  unless a human approved an action of that name for that task.
* `PlanPerformed`: every step of the stored plan of a COMPLETED task was handed
  to a subgraph. `CompletedIsReported`: as long as no process died, a completed
  task has its report, or a run that is on its way to commit it. Both hold for one
  process per task; with two workers both fail, because a second worker stores
  its plan over the result of the first (`double_claim` is the cause).
* `NotStranded`: as long as no process died, a task in VALIDATING, RESEARCHING,
  DRAFTING, VALIDATING_RESULT or VERIFYING has a run that is still at work.
  PLANNING is left out because a failing planner leaves a task there; EXECUTING
  because an approval does.
* `LifecycleSpec`: `TaskSystem` implements `TaskLifecycle` under the mapping
  `state <- [t |-> tasks[t].state]`.
* `WorkerCapacity`, `RunsEnd`, `ClaimedEventually`: a worker never runs more
  than its limit, every run leaves `run()`, no CREATED task starves.
* `WindowBound`: calls granted between two grants are at most a burst plus what
  the refill adds in between. `EffortBounded`: three invocations a token at
  most, and one call takes at most one token plus three times the nested calls
  of an attempt. `CallsEnd`: nested retries end.
* `DuplicatesNeedCrashes`: a key is posted more than once only by as many posts
  as there were crashes; concurrency, engine retries, client retries and lost
  answers alone never cause a second post. `RowStandsForPost`: a row that says
  succeeded holds the hash of the text that was posted last for its key, although
  the draft may change at any time, and its `external_id` is that post's or empty.
  `AnswersAgree`: whoever is answered with success is told what the row holds.
  `AttemptsOnRecord`: of the calls to the platform, only the one being committed
  and those of processes that died are not on record. `RequestsEnd`: every request
  is answered.
* `RunLeavesNothing`: a run that has closed and stopped leaves no driver and no
  context, unless the `start()` of another client has replaced the manager's only
  reference to them. `RegisteredIsUsable`: a session that the routes still find
  is usable, unless a `stop()` is closing it, broke off, or stopped its browser.
  `RoutesFailOnlyAfterStop`: without Playwright failures only a run's `stop()`
  makes the route refuse; overlapping routes alone never do. `SessionsNotLost`: a
  session that works can be found, and so be closed, although `stop()` clears the
  dict also of sessions that were opened since it took its list of them; excepted
  are a `stop()` that closes their browser next or failed before it could, and
  browsers that another `start()` has replaced. `Settles`: opening and closing
  end, also when another client stops the manager in between.
* `ResultNamesItsPage`: the url in a result is that of the page that was acted on,
  unless another call changed tabs meanwhile. `ActiveIsLive`: the active page of an
  open context is open, unless it closed by itself, and except within a recovery
  or after one that failed. `RecoveriesJudged`: a recovery goes on only if at most
  one crash was heard since the last load that was, and is refused only after two,
  or after one that two handlers of a page heard. `UsedPageUnwatched`: the page in
  use has no handler unless `switch_tab` came back to it, so what is heard is not
  what happens to the page that is used.
* `DisputesExact`: when the answer is written, a claim is disputed exactly if a
  claim of another source contradicts it, and shows the first such claim.
  `BestSourcesKept`: the cap leaves out no hit for one of a lower rank.
* `ReportOfOneAttempt`: a report has one result per claim and cites only pages
  that its own attempt fetched for that claim. `VerdictFollows`: "SUPPORTED only
  when we found corroboration and no contradiction", and no contradicted claim
  with support reaches 0.9.
* `PostsCoverText`: the posts of a thread are the sentences of the text, in order,
  each once. `PostsFilled`: a post is over the budget only if it is one sentence,
  and none could have taken the next one. `RefusedForCause`: fewer than ten posts
  are refused only for a faulty link or an overlong sentence, which is what
  "Reserve 5 chars" promises.
* `OneAttached`: a command is not run again while its last run holds the pipes.
  `LostOnlyByStaleWriter`: a line is lost only by an edit of it, by a writer that
  read the file before the line was there, with the whole file when a write breaks
  off, or while a command is at work on the file: an edit never undoes what others,
  commands included, have made of the file since its agent read it. `JobsEnd`: every job ends, except a `shell_run` that waits for a
  child that lives on.

Six runs show statements of the repository that the code does not keep. Each
ends in a counterexample of a few steps.

| Run | Statement | What happens |
|---|---|---|
| `terminal_state_left` | "Terminal states can never transition further." (`app/domain/state_machine.py:31`) | a session that read the row earlier commits over CANCELLED |
| `double_claim` | "`SELECT ... FOR UPDATE SKIP LOCKED` ensures each task is claimed by exactly one worker" (`docs/deployment.md:103`) | the SELECT takes no lock, both workers run the task |
| `undecidable_wait` | "we only transition when still needed" (`app/agents/orchestrator.py:146`) | a decision between commit and refresh of `create_approval` is undone; the task waits with nothing pending |
| `approved_never_resumed` | "Approving a request resumes the task" (`app/services/approval_service.py:3`) | the task is EXECUTING and only CREATED tasks are polled |
| `fatal_error_retried` | "Non-retryable errors are not retried." (`tests/unit/test_tool_executor.py:148`) | below a composite tool they are, once wrapped in a ToolError |
| `duplicate_post` | "publishing the same draft twice (e.g. after a crash-and-retry) must not create a duplicate post" (`app/social/base.py:33`) | the pending row is flushed, not committed, before the platform is called |

Some statements are kept in part only; they have no run of their own, and the
properties above say what is left of them:

* "API error → raise ToolError (retryable with backoff, max 3 attempts)"
  (`skills/x_publishing/SKILL.md:47`, `skills/linkedin_publishing/SKILL.md:47`): the
  engine does try again, but with the key of the failed row, and the INSERT is
  refused. One call reaches the platform (`InsertConflict`).
* "Every publish attempt is persisted as a `PublishAttempt` row"
  (`app/tools/builtin/social_publish.py:8`): not that of a process that dies before
  its commit (`AttemptsOnRecord` allows one call per crash).
* "Only retries once before escalating" (`app/browser/session.py:328`) and
  `tests/unit/test_browser_session.py:346`, which sets the counter by hand: a
  page that a recovery opens has no handlers, so its crash is not counted and it is
  recovered again, as often as it crashes (`UsedPageUnwatched`).
* "per-task isolation" (`app/agents/orchestrator.py:339-341`,
  `skills/browser_control/SKILL.md:60` and 72): each task has its own context, but the
  `stop()` at the end of one task closes those of all (`RegisteredIsUsable` and
  `SessionsNotLost` say what remains).
* "Search unavailable → mark claims as UNVERIFIABLE, do not fail the draft"
  (`skills/fact-checking/SKILL.md:50`): the check raises after its third attempt;
  `FactCheck` ends in "failed".
* A session whose active page closed itself: `list_tabs` answers -1 and every other
  tool fails until `switch_tab`, `new_tab` or a recovery. No document speaks of it.

### Bounds

| Constant | Bounds | Why it is enough |
|---|---|---|
| `Tasks` | task ids | tasks meet only in the poll's order, its LIMIT and the worker's capacity: two tasks and a capacity of one show all three; the rest is per task |
| `MaxIterations`, `MaxToolCalls` | limits of a run | at 2 a plan of two steps runs to its end, at 1 (`task_progress`) the limits may cut plans |
| `MaxCrashes`, `MaxResumes` | deaths of workers, re-runs | one death at every point of a run, and one run after it or beside it |
| `MaxTime`, `Minute`, `Rpm` | the clock | a bucket is emptied, refills and is full again within the bound; the proof covers all values |
| `MaxSubCalls` | nested calls per attempt | one is enough for a retry inside a retry and a refusal after a granted call; the proof covers all values |
| `MaxSubmits`, `MaxEdits`, `MaxCrashes` | publish requests, edits, crashes | three submissions: two that race and one that comes after; two crashes so that the bound 1 + crashes is reached and counted; the proofs cover all values |
| `MaxFaults`, `Casts` | Playwright failures, who takes part | one failure at every point of two runs and a user that overlap; tool calls meet the manager only through `sessions` and the closing of a context, so one run is enough there; a user alone has one page event among four calls or two among three, so a page crashes or closes between any two awaits, and twice around a recovery; without `Casts` the calls would be multiplied with every overlap of starts; the proofs cover all casts |
| `Callers`, `MaxTabs` | calls in flight, pages of a session | two calls race; with three pages a page can be left twice and recovered once; the proofs cover all values |
| `Searches`, `PagesOf`, `MaxSources`, `MaxPerChunk` | what the web answers, the caps of research | three sources of three ranks for a cap of two, twice the same hit, a page that overlaps and is cut, contradictions within and across sources |
| `HitLists`, `MaxHits` | what a search answers, its cap | none, two, three for a cap of two, and one without a url |
| `TextCases` | the texts that are drafted | posts exactly at the budget and one over it, nine and ten posts, a sentence too long, a faulty link; the proofs cover all texts up to 999 sentences |
| `MaxUses`, `Requests`, `Contents`, `Outputs` | tool calls, what they may be, the disk, what a command makes of its file | two agents read, one writes between: three calls; a command removes the file, empties it, rewrites it or adds to what was there; the proofs cover all values |

Deadlock checking is off in every run because every system may stop: tasks
settle, callers need not call again, and the bounds end.

### Fairness

`task_progress` and `approved_never_resumed`: weak fairness of a worker's poll
and claim (the loop of `start()` sleeps and polls again whatever a poll raises)
and of every run (`asyncio` schedules every coroutine; database, planner and
subgraphs return or raise). `tool_engine`: weak fairness of every running call
(tools return or raise, pauses end). `social_publish`: weak fairness of every
request (httpx gives up after 30 seconds, the owner of a row lock commits or
dies). `browser_system`: weak fairness of every client's step in `start`,
`open_session`, `close_session` and `stop` (Playwright answers or raises); how
long a session stays open is not promised. `agent_jobs`: weak fairness of the
research run, the fact check, the draft and every agent's tool step (the web and
the model answer or raise, the timer of a command fires); a child process need
never end. Requests, new calls, decisions, edits, crashes and re-runs are never
promised. `task_progress` gives a worker no graphs because `_run_task` passes
`graphs={}`; `task_safety` gives it all of them, which is what the orchestrator
is written for.

## 4. What is proved

| Module | Theorems | What they state |
|---|---|---|
| `TaskSystemProofs` | `TypeCorrect`, `GateAlwaysHonoured`, `CapacityHolds`, `NeverStranded` | `TypeOK`, `GateHonoured`, `WorkerCapacity`, `NotStranded` of `TaskSystem` |
| | `RunsAreFinite` | the safety half of `RunsEnd`: at most `76 + 2*MaxIterations` steps |
| `TaskLifecycleProofs` | `ImplementsLifecycle` | `Spec => LifecycleSpec` (refinement) |
| | `CompletedIsDone`, `CompletedIsAnswered`, `OneWorkerCompletes` | `PlanPerformed`, `CompletedIsReported` of `TaskSystem`, where claims are exclusive |
| | `TerminalOnceSettled`, `TerminalWithoutOverlap` | a terminal row stays as it is once no session is left that validates against an older copy; without such overlaps, `TerminalIsFinal` |
| | `QueuedOnce` | a task that has left CREATED never returns to it |
| `ToolEngineProofs` | `EngineTypeCorrect`, `WindowsBounded`, `EffortAlwaysBounded` | `TypeOK`, `WindowBound`, `EffortBounded` |
| | `CallsAreFinite` | the safety half of `CallsEnd`: at most `18*MaxSubCalls + 10` steps |
| `SocialPublishProofs` | `PublishTypeCorrect`, `DuplicatesOnlyByCrashes`, `RowsStandForPosts`, `AnswersAlwaysAgree`, `AttemptsAreRecorded` | the five invariants of the run |
| | `RequestsAreFinite` | the safety half of `RequestsEnd`: four steps a try, no deadlock on rows |
| `BrowserProofs` | `BrowserTypeCorrect` and eight named after their properties | the eight invariants and `RecoveriesJudged` of `BrowserSystem` |
| | `BrowserStepsEnd` | the safety half of `Settles`: always a later phase or a shorter list |
| `ContentDraftProofs` | `DraftTypeCorrect`, `DraftPostsCoverText`, `DraftPostsFilled`, `DraftRefusedForCause` | types and the three invariants of `ContentDraft` |
| | `DraftIsFinite` | a draft of n sentences takes at most 2n + 4 steps |
| `EvidenceProofs` | `FactTypeCorrect`, `FactReportOfOneAttempt`, `FactVerdictFollows` | types and the two invariants of `FactCheck` |
| | `ResearchTypeCorrect`, `ResearchDisputesExact`, `ResearchBestSourcesKept` | types and the two invariants of `Research` |
| | `FactIsFinite`, `ResearchIsFinite` | three attempts at every claim and nothing beyond; no place of the list of sources fetched and no pair of claims compared twice |
| | `RoutingMonotone`, `ToolsAreServed` | `SelectClass`: harder criteria never get a weaker class; tools never go to the fast class |
| `AgentJobsProofs` | `LocalTypeCorrect`, `LocalOneAttached`, `LocalLostOnlyByStaleWriter` | types, `OneAttached`, `LostOnlyByStaleWriter` of `LocalSystem` |
| | `UsesAreFinite` | a tool call of a local agent takes at most nine steps |
| | `JobsAreTheirParts`, `JobsTypeCorrect`, `JobsKeepPromises` | `AgentJobs` implements the specification of each job; hence `TypeOK` and all the above of `AgentJobs` |
| | `JobsAreFinite` | the safety half of `JobsEnd`: the four bounds, of `AgentJobs` |

With these every invariant and every action property that a passing run checks
is a theorem, and so are the refinement and the bounds behind the liveness
properties. The theorems about a job are first proved
of its own specification (`LocalSpec`, `DraftSpec`, `FactSpec`, `ResearchSpec`); a
step of `AgentJobs` is a step of one of them and a stutter of the other three, so
they hold of `AgentJobs` too.

`CompletedIsDone` and `CompletedIsAnswered` have a hypothesis on the behaviour,
`[]ExclusiveClaim`: no task is run by two workers at once, which is what
`docs/deployment.md` promises and `double_claim` refutes. It is needed: with two
workers and no such restriction TLC finds both properties violated. It rules out
neither callers that run a task again beside the worker, nor deaths, nor several
workers on different tasks. `OneWorkerCompletes` needs no hypothesis on the
behaviour: one worker excludes itself.

`TerminalWithoutOverlap` has one too: whenever a row is terminal, no session is
left that validates against an older copy of it (`Settled`). Behaviours that
complete a task and behaviours that cancel one meet it; `terminal_state_left` is one
that does not, and the theorem says that an overlap is the only way to leave a
terminal state. `TerminalOnceSettled` has no hypothesis.

The only assumptions are the named ones on the constants (`TasksAssumption`,
`PlansAssumption`, `RunnersAssumption`, `LimitsAssumption`, `WorkerAssumption`,
`ClientsAssumption`, `RpmAssumption`, `ClockAssumption`, `ToolsAssumption`,
`ContentsAssumption`, `KeysAssumption`, `BoundsAssumption`, `FaultsAssumption`,
`TabsAssumption`, `CastsAssumption`, `ResearchAssumption`, `FactCheckAssumption`,
`TextAssumption`, `LocalAssumption`), which TLC evaluates in the runs. The arguments:

* *Types of the task subsystem* (`TypeInv`). `TypeOK` is not inductive: an
  approval is typed because the run that asks for it holds a plan with a step
  left, and a decision because the request names an existing approval. `GoodRun`
  and `GoodRequest` say so.
* *The gate* (`GateInv`). A run consults a snapshot, so the invariant says that
  every name in a snapshot was once approved (`GrantsReadFromRows`) and that every
  approved row was approved by a decision (`ApprovedByDecision`); then a step
  that passes the gate has an approval on record, whatever happened since.
* *The refinement* (`LifeInv`). A stale copy may be committed over a newer
  state. What saves the abstract promise is that every copy was read from the
  row: the state a session validated against is one the row has been in
  (`CopiesVisited`), and so is that of a validated request. Every action either
  enters a state enterable from a visited one, creates a row, or leaves the
  states alone. No transition leads to CREATED from any state, so `QueuedOnce`
  follows from the same invariant.
* *Terminal states* (`Settled`). That a row is terminal is not kept by every step,
  so the invariant is about sessions. A run is late if it will validate its next commit
  on a copy that is not terminal; a request is late once it has validated. Every
  other run reads the row again first (`RunStepRereads`) and then can commit no
  state (`RunStepCommits`), and a new request is refused on the row it reads: if no
  session is late, none becomes late.
* *The limiter* (`LimiterInv`). `WindowBound` speaks of pairs of grants and is not
  inductive. `LevelBound` strengthens it to the grants since the i-th one plus
  the present level of the bucket, which a grant turns into the new pair, a tick
  raises by `Rpm` on both sides, and the cap only lowers.
* *The engine's effort* (`CallInv`). The tool of the outer call has one token and one
  invocation per attempt (`OwnEffort`). A nested call that is active still has
  attempts to come, which are owed to the token it took (`Owed`, `SubEffort`);
  tokens are counted by the attempts of the outer call and the nested calls of
  the present one. `Shape` says when the inner frame is active, and `GoodFrame`
  that a frame in backoff has an attempt left.
* *Publishing* (`PublishInv`). A request between INSERT and COMMIT holds the only
  row of its key (`HoldsItsRow`, `OneHolder`); a key without a row has no more posts
  than there were crashes (`FreeKeysOwed`), and neither has a request that is
  about to post (`UnpostedOwed`); so one more post stays within the bound, and
  a crash that frees the key pays for it. An accepted post is the last of its key
  (`AcceptedIsLast`) until its row is committed. `AttemptsOnRecord` needs only that
  one request holds the row: a step calls, records or forgets for one key at most
  once.

* *Capacity* (`CapacityInv`). A poll selects from the oldest tasks as many as the
  worker has room for (`OldestBound` counts them by an injection into an
  interval); until it claims them its runs can only end (`RunStepTouches`), so
  the claim stays within the limit.
* *Nobody is stranded* (`Driven`). Somebody always drives a task in flight: a run
  that has just committed this very state, or has read it and has the way from it
  before it. `Routed` says that every path is a stretch of the happy path to its
  goal (`Follows`), so the next transition of the driver is never refused, and
  whoever overwrites the state becomes its driver.
* *COMPLETED means done* (`PlanInv`). `PlanPerformed` relates the stored plan to what
  was handed over, so the invariant has to say why the two are of one plan: a
  plan, once stored, is never replaced. `PlannedFirst`: whatever state lets a
  caller or a decider in comes after planning, so only the worker's run can
  still have to plan. `CopyCurrent`: the plan in the copy of a run is that in the
  row, and therefore what it writes back with its report. `StepsDone`: a run
  follows the stored plan, and its counter tells which steps it has handed over.
  `AllDone`: a run on the way to VERIFYING or COMPLETED has handed over all of them.
  That COMPLETED is entered on no other way is a fact about paths
  (`FollowsLate`, `HeadOnTheWay`). With two claims on a task `CopyCurrent` is what fails.
* *COMPLETED means reported* (`ReportInv`). The run that has committed COMPLETED is
  between that commit and the next one in one of three places (`Reporting`), and
  no step but a death takes it elsewhere: its path is empty, so nothing can be
  refused. A run that writes back an older result would need a plan to store,
  which `PlanInv` excludes.
* *Browser* (`SystemInv`). `Fresh`, `Launched`, `Registered` and `Mine` say what each
  client holds at each step; `Mine` is what makes `RunLeavesNothing` inductive: a
  run whose launch the manager still names is the target of its own `stop()`.
  `Undisturbed` strengthens `RoutesFailOnlyAfterStop` to "nothing that is awaited has
  been closed". `SessionsNotLost` is
  inductive beside these: `Mine` tells which launch a `stop()` is at when it
  clears the dict. For the tabs, `CallsAtActive` says that a call acts on the
  active page as long as nobody moved it; `CountsCrashes` that the crash counter is
  at least what was heard, and no more unless two handlers heard one crash;
  `WellWatched` that pages not opened yet carry no handlers, so that a new page
  has none; `ActiveAccounted` why a session may be without its active page.
* *Local system* (`Attached`). An attached process is that of its agent's present
  call, its file included; so two of them are one. The action property needs no
  more than the types.
* *Drafts* (`DraftInv`). `Filling` is the loop invariant of the split: what is
  placed, what the current post holds and how long it is, and that the post
  before could not have taken more. `PostsFilled` and `RefusedForCause` follow from
  it when the last post is closed.
* *Fact check*. The lists hold exactly the pages that spoke of the claim at hand in
  this attempt, and the results those of the claims before (`Recorded`).
* *Disputes* (`CrossInv`). `DisputesExact` speaks of the end of two nested loops. The
  invariant says the same of the pairs met so far (`Met`): a claim knows the first
  of the contradictions it has met, and the order of the loops makes that the
  first of all.
* *Sources* (`ResearchInv`). The ranking puts a hit at the place that the number of hits
  ahead of it tells (`Ahead`): those of a higher rank, and those of the same rank
  listed before it. Hits ahead of a hit have fewer ahead of them, so the places
  are all different (an injection on a finite set is onto), each is taken, and a
  cap keeps the hits with the fewest ahead.

* *Everything is finite.* Behind each liveness property is a bound on the steps to
  come which every step of its owner lowers and no step of anybody else raises;
  what fairness adds is only that the steps are taken. A run of a task: two steps
  for each transition of the walk it is on, of which the state machine leaves at
  most eight, two for each iteration up to the limit, and the goals of walks only
  go forward (`Bounded`, `StepsLeft`). A call of a tool: six steps for each nested
  call; an attempt is worth all its nested calls and two more, so that starting
  over costs less than what it gives up (`Shrinking`). A publish request: four
  steps for each try; it waits at the INSERT only for a request that holds the
  row (`PendingIsHeld`), and a holder waits for nothing. A client of the browser:
  later phases, and in `stop()` a list that nobody adds to (`ListsFinite`). A draft
  counts its sentences and posts, a fact check its claims and attempts; a research
  run goes in lexicographic order through stages, sources, sentences and pairs.

Only model-checked:

* the rest of the liveness properties (`RunsEnd`, `ClaimedEventually`, `CallsEnd`,
  `RequestsEnd`, `Settles`, `JobsEnd`): that nothing loops is proved for all but
  `ClaimedEventually`; that something under way can take a step, and by fairness
  takes it, needs ENABLED and is out of this prover's reach.

No module uses a RECURSIVE operator.

## 5. What is not modelled

* `TaskWorker.stop()`: no entry point calls it. `RateLimiter.reset()`: only tests do.
* Rounding of floats in the limiter, and the length of pauses.
* The limiter is one per engine, and an engine is built per request
  (`app/api/deps.py:45`); the bound is per engine. `docs/deployment.md:87` calls
  it a per-tool rate limit.
* The platform column of a post: `_find_duplicate` ignores it, so a key used for
  X answers a LinkedIn request.
* `TaskCreateRequest.timeout_seconds` is not stored by the route, so the limit of
  a run is the global one.
* The link between an approval and a draft: no column holds one. An approved
  draft may be edited and published with the old approval.
* Verdicts of concurrent deciders: the later commit overwrites the earlier verdict. No
  document promises otherwise.
* Inside the browser: what a page shows, selectors, downloads.
* The regular expressions and word counts of research and content are given by
  the constants (`Similar`, `Agreeing`, `Hints`, `TextCases`). What they match is
  not checked: `_URL_PATTERN` (`app/content/validators.py:33`), for one, leaves the
  letter `s` out of links.
* The borders of chunks: a page may repeat sentences at the start of a chunk, as
  `chunk_overlap` makes it do.
* `file_delete`, `folder_delete` and `browser_download`: they need an approval that no
  graph has, so the engine refuses them (`Performable`).
* The declared `timeout_seconds` of a tool: nothing enforces it.
* The order of the engine's retry pauses in the jobs: attempts follow one another.
* LangGraph's loop, the providers of models and the callbacks: libraries, or
  logging.
* Audit, CLI, skills, configuration and migrations carry no state that interleaves:
  a scan on request, printing, packaging, settings, a schema.

## 6. Plan

Done: the task subsystem with its abstract life cycle, the tool engine over the
rate limiter, publishing, the browser with its tabs, the four jobs of the agents,
and the theorems of section 4.

Left, in this order:

1. A platform column in `SocialPublish`, with the X and the LinkedIn tool as two
   tools over one table of keys.
2. Composition of `OrchestratorRun` with `BrowserManager`: a run's handlers and its
   `finally` in one behaviour. At present a run of `BrowserManager` opens, works
   for any time and closes; the handlers that follow are in `OrchestratorRun`.

## 7. Running

    tlc -workers 2 -config task_safety.cfg MCTaskSystem.tla
    tlc -workers 2 -config browser_system.cfg MCBrowserSystem.tla
    tlc -workers 2 -config agent_jobs.cfg MCAgentJobs.tla
    tlapm TaskSystemProofs.tla

Operators whose comment begins with "Mutant" are wrong versions of the operator
that follows them. They are used by no specification; putting one in the place
of its original makes TLC report the property that `PROJECT.json` names for it.
