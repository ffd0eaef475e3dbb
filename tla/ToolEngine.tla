------------------------------ MODULE ToolEngine ------------------------------
(***************************************************************************)
(* ToolExecutionEngine.execute with its permission check, rate limiter and  *)
(* tenacity retry, called concurrently by the coroutines that serve one     *)
(* model answer, and called again from inside a tool: fact_check runs       *)
(* web_search and web_fetch through the same engine.                        *)
(*                                                                          *)
(* No caller in the repository sets ExecutionContext.agent_run_id, so       *)
(* _start_tool_call and _finish_tool_call return at once: execute() awaits  *)
(* nothing between the limiter and the tool.                                *)
(***************************************************************************)
EXTENDS RateLimiter

CONSTANTS
  Callers,       \* coroutines with a tool call of their own
  Registered,    \* names in the ToolRegistry
  Gated,         \* tools whose permissions or risk level require approval
  Composite,     \* tools that call others through the engine: fact_check
  SubTools,      \* the tools they call, none of them gated
  MaxSubCalls    \* sub-tool calls in one execute() of a composite tool

ASSUME ToolsAssumption ==
  /\ Tools # {}
  /\ Registered \subseteq Tools
  /\ Composite \subseteq Registered
  /\ SubTools \subseteq Registered \ (Composite \cup Gated)
  /\ MaxSubCalls \in Nat

VARIABLES
  call,      \* call[k][l]: the execute() of caller k and the one nested in it
  spent      \* history: spent[k][tool], what the current call of k has done

vars == <<limiterVars, call, spent>>

MaxAttempts == 3       \* stop_after_attempt(3)

Levels == {"outer", "inner"}

Frame == [pc : {"idle", "running", "waiting", "backoff"}, tool : Tools,
          attempt : 0..MaxAttempts, subs : 0..MaxSubCalls]

\* tries: invocations of tool.execute(); tokens: tokens taken; fatal: whether it
\* raised an error that is not retryable.
Effort == [tries : Nat, tokens : Nat, fatal : BOOLEAN]

NoEffort == [tries |-> 0, tokens |-> 0, fatal |-> FALSE]

NothingSpent == [tool \in Tools |-> NoEffort]

IdleFrame == [pc |-> "idle", tool |-> CHOOSE t \in Tools : TRUE,
              attempt |-> 0, subs |-> 0]

NewFrame(tool) == [IdleFrame EXCEPT !.pc = "running", !.tool = tool, !.attempt = 1]

Init ==
  /\ LimiterInit
  /\ call = [k \in Callers |-> [l \in Levels |-> IdleFrame]]
  /\ spent = [k \in Callers |-> NothingSpent]

At(k, l, pc) == call[k][l].pc = pc

Outer(k) == call[k]["outer"]

Inner(k) == call[k]["inner"]

SetFrame(k, l, f) == call' = [call EXCEPT ![k] = [@ EXCEPT ![l] = f]]

SetCall(k, outer, inner) ==
  call' = [call EXCEPT ![k] = [l \in Levels |-> IF l = "outer" THEN outer ELSE inner]]

Invoked(e) == [e EXCEPT !.tries = @ + 1]

Admitted(e) == [e EXCEPT !.tries = @ + 1, !.tokens = @ + 1]

Fatal(e) == [e EXCEPT !.fatal = TRUE]

-----------------------------------------------------------------------------
(* Entering execute().                                                      *)

\* registry.get and _enforce_permissions, which raise before anything is done.
\* No shipped tool asks for an authenticated caller.
Allowed(tool, approved) ==
  tool \in Registered /\ (tool \in Gated => tool \in approved)

LimitOuter(k, tool, approved) ==
  /\ At(k, "outer", "idle")
  /\ Allowed(tool, approved)
  /\ Deny(tool)
  /\ UNCHANGED <<call, spent>>

Start(k, tool, approved) ==
  /\ At(k, "outer", "idle")
  /\ Allowed(tool, approved)
  /\ Grant(tool)
  /\ SetFrame(k, "outer", NewFrame(tool))
  /\ spent' = [spent EXCEPT ![k][tool] = Admitted(@)]

-----------------------------------------------------------------------------
(* Leaving an attempt.                                                      *)

\* The call of k leaves execute().
Leave(k) ==
  /\ SetCall(k, IdleFrame, IdleFrame)
  /\ spent' = [spent EXCEPT ![k] = NothingSpent]

\* Mutant: one attempt too many.
LastAttemptOffByOne(f) == f.attempt > MaxAttempts

LastAttempt(f) == f.attempt >= MaxAttempts

Backoff(f) == [f EXCEPT !.pc = "backoff"]

\* The outer tool ends its attempt with a retryable error: another attempt after
\* a pause, or RetryError, which execute() wraps in a ToolError.
OuterRaises(k) ==
  IF LastAttempt(Outer(k))
  THEN Leave(k)
  ELSE SetCall(k, Backoff(Outer(k)), IdleFrame) /\ UNCHANGED spent

\* tool.execute() returned, or raised an error that is not retryable: tenacity
\* lets it through and execute() wraps it in a ToolError.
FinishOuter(k) ==
  /\ At(k, "outer", "running")
  /\ Leave(k)
  /\ UNCHANGED limiterVars

\* Mutant: the outer tool never hears of the result.
ReturnInnerLost(k) ==
  /\ At(k, "inner", "running")
  /\ SetFrame(k, "inner", IdleFrame)
  /\ UNCHANGED <<limiterVars, spent>>

Resumed(f) == [f EXCEPT !.pc = "running"]

ReturnInner(k) ==
  /\ At(k, "inner", "running")
  /\ SetCall(k, Resumed(Outer(k)), IdleFrame)
  /\ UNCHANGED <<limiterVars, spent>>

\* ToolError, RateLimitError or ModelError.
RaiseRetryable(k, l) ==
  /\ At(k, l, "running")
  /\ IF l = "outer" \/ LastAttempt(call[k][l])
     THEN OuterRaises(k)
     ELSE SetFrame(k, l, Backoff(call[k][l])) /\ UNCHANGED spent
  /\ UNCHANGED limiterVars

\* An error that is not retryable reaches the outer tool as a ToolError, which
\* is retryable.
RaiseFatalInner(k) ==
  /\ At(k, "inner", "running")
  /\ IF LastAttempt(Outer(k))
     THEN Leave(k)
     ELSE /\ SetCall(k, Backoff(Outer(k)), IdleFrame)
          /\ spent' = [spent EXCEPT ![k][Inner(k).tool] = Fatal(@)]
  /\ UNCHANGED limiterVars

NextAttempt(f) == [f EXCEPT !.pc = "running", !.attempt = @ + 1, !.subs = 0]

\* The next attempt takes no token, and a composite tool starts from its top.
Retry(k, l) ==
  /\ At(k, l, "backoff")
  /\ SetFrame(k, l, NextAttempt(call[k][l]))
  /\ spent' = [spent EXCEPT ![k][call[k][l].tool] = Invoked(@)]
  /\ UNCHANGED limiterVars

-----------------------------------------------------------------------------
(* fact_check: _call_sub_tool, with the default ExecutionContext.           *)

MayCallSub(k) ==
  /\ At(k, "outer", "running")
  /\ Outer(k).tool \in Composite
  /\ Outer(k).subs < MaxSubCalls

Waiting(f) == [f EXCEPT !.pc = "waiting", !.subs = @ + 1]

SubCall(k, tool) ==
  /\ MayCallSub(k)
  /\ Grant(tool)
  /\ SetCall(k, Waiting(Outer(k)), NewFrame(tool))
  /\ spent' = [spent EXCEPT ![k][tool] = Admitted(@)]

\* RateLimitError leaves the outer tool and is retryable.
LimitSub(k, tool) ==
  /\ MayCallSub(k)
  /\ Deny(tool)
  /\ OuterRaises(k)

-----------------------------------------------------------------------------

Step(k) ==
  \/ FinishOuter(k) \/ ReturnInner(k) \/ RaiseFatalInner(k)
  \/ \E l \in Levels : RaiseRetryable(k, l) \/ Retry(k, l)
  \/ \E tool \in SubTools : SubCall(k, tool) \/ LimitSub(k, tool)

Enter(k) ==
  \E tool \in Tools, approved \in SUBSET Gated :
    LimitOuter(k, tool, approved) \/ Start(k, tool, approved)

Next ==
  \/ \E k \in Callers : Enter(k) \/ Step(k)
  \/ Tick /\ UNCHANGED <<call, spent>>

Spec == Init /\ [][Next]_vars

\* Tools return or raise and pauses end; new calls are not promised.
FairSpec == Spec /\ \A k \in Callers : WF_vars(Step(k))

TypeOK ==
  /\ LimiterTypeOK
  /\ call \in [Callers -> [Levels -> Frame]]
  /\ spent \in [Callers -> [Tools -> Effort]]

(***************************************************************************)
(* Retries and nesting multiply the load on a tool by a known factor only:  *)
(* a tool is invoked at most three times per token it took, and one call    *)
(* takes no more tokens than three attempts of a composite tool may need.   *)
(***************************************************************************)
EffortBounded ==
  \A k \in Callers, tool \in Tools :
    /\ spent[k][tool].tries <= MaxAttempts * spent[k][tool].tokens
    /\ spent[k][tool].tokens <= 1 + MaxAttempts * MaxSubCalls

(***************************************************************************)
(* Every call leaves execute(): retries of nested calls inside retries of   *)
(* the outer one, with pauses and rate limits, come to an end.              *)
(***************************************************************************)
CallsEnd == \A k \in Callers : ~At(k, "outer", "idle") ~> At(k, "outer", "idle")

(***************************************************************************)
(* tests/unit/test_tool_executor.py: "Non-retryable errors are not          *)
(* retried."  Nested, they are: execute() has turned the error into a       *)
(* ToolError before the retry of the outer call looks at it.                *)
(***************************************************************************)
FatalNotRetried ==
  [][\A k \in Callers, tool \in Tools :
       spent[k][tool].fatal => spent'[k][tool].tries <= spent[k][tool].tries]_vars
=============================================================================
