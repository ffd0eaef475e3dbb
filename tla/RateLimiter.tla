----------------------------- MODULE RateLimiter ------------------------------
(***************************************************************************)
(* app/policies/rate_limit.py: one token bucket per tool name, refilled     *)
(* lazily by acquire().  The code counts tokens and seconds in floats and   *)
(* refills Rpm / 60 tokens a second; here a token is Minute units and a     *)
(* tick of the clock is worth Rpm units, so every quantity is an integer.   *)
(* acquire() does not await: it is one step.  No code but the tests calls   *)
(* reset(), so no bucket is ever reset here.                                *)
(***************************************************************************)
EXTENDS Integers, Sequences

CONSTANTS
  Tools,     \* tool names
  Rpm,       \* requests_per_minute
  Minute,    \* clock ticks in a minute: 60 in the code
  MaxTime    \* bound: the last tick

\* __init__ raises ValueError below 1.
ASSUME RpmAssumption == Rpm \in Nat \ {0}
ASSUME ClockAssumption == Minute \in Nat \ {0} /\ MaxTime \in Nat

VARIABLES
  now,       \* time.monotonic()
  bucket,    \* _tokens and _last_refill
  grants     \* history: the times at which acquire() granted, by tool

limiterVars == <<now, bucket, grants>>

Full == Rpm * Minute

\* A name that is in neither dict counts as a full bucket, whenever it is read.
FullBucket == [tokens |-> Full, last |-> 0]

LimiterInit ==
  /\ now = 0
  /\ bucket = [tool \in Tools |-> FullBucket]
  /\ grants = [tool \in Tools |-> <<>>]

\* Mutant: the refill is not capped at _max_tokens.
RefilledUncapped(tool) == bucket[tool].tokens + Rpm * (now - bucket[tool].last)

\* _refill
Refilled(tool) ==
  LET level == bucket[tool].tokens + Rpm * (now - bucket[tool].last)
  IN  IF level > Full THEN Full ELSE level

SetBucket(tool, level) ==
  bucket' = [bucket EXCEPT ![tool] = [tokens |-> level, last |-> now]]

Grant(tool) ==
  /\ Refilled(tool) >= Minute
  /\ SetBucket(tool, Refilled(tool) - Minute)
  /\ grants' = [grants EXCEPT ![tool] = Append(@, now)]
  /\ UNCHANGED now

\* A refused acquire() has refilled the bucket all the same.
Deny(tool) ==
  /\ Refilled(tool) < Minute
  /\ SetBucket(tool, Refilled(tool))
  /\ UNCHANGED <<now, grants>>

Tick ==
  /\ now < MaxTime
  /\ now' = now + 1
  /\ UNCHANGED <<bucket, grants>>

LimiterTypeOK ==
  /\ now \in Nat
  /\ bucket \in [Tools -> [tokens : 0..Full, last : Nat]]
  /\ grants \in [Tools -> Seq(Nat)]

(***************************************************************************)
(* "to prevent runaway loops from hammering external APIs": whatever window *)
(* of time is looked at, the calls granted in it are no more than a burst   *)
(* of requests_per_minute and what the refill adds while the window is      *)
(* open.  Denied calls and idle time in between never add to it.            *)
(***************************************************************************)
WindowBound ==
  \A tool \in Tools : \A i, j \in DOMAIN grants[tool] :
    i <= j => Minute * (j - i + 1) <= Full + Rpm * (grants[tool][j] - grants[tool][i])
=============================================================================
