---------------------------- MODULE ToolEngineProofs ---------------------------
(***************************************************************************)
(* The safety properties of ToolEngine and RateLimiter for every set of     *)
(* tools and callers, every rate, clock resolution and number of sub-calls. *)
(***************************************************************************)
EXTENDS ToolEngine, SequenceTheorems, TLAPS

-----------------------------------------------------------------------------
(* Arithmetic of the bucket.                                                *)

LEMMA FullIsNat == Full \in Nat /\ Minute \in Nat /\ Rpm \in Nat
BY RpmAssumption, ClockAssumption DEF Full

LEMMA Distributes ==
  ASSUME NEW a \in Int, NEW b \in Int
  PROVE  a * (b + 1) = a * b + a /\ a * b \in Int /\ a * (b + 1) \in Int
OBVIOUS

\* A grant takes from the level what it adds to the window.
LEMMA WindowGrows ==
  ASSUME NEW w \in Int, NEW d \in Int, NEW level \in Int,
         Minute * w + level <= Full + Rpm * d
  PROVE  Minute * (w + 1) + (level - Minute) <= Full + Rpm * d
<1>1. Minute * (w + 1) = Minute * w + Minute /\ Minute * w \in Int /\ Rpm * d \in Int
  BY FullIsNat, Distributes
<1> DEFINE a == Minute * w
           b == Rpm * d
           c == Minute * (w + 1)
<1>2. a \in Int /\ b \in Int /\ c = a + Minute /\ a + level <= Full + b
  BY <1>1
<1> HIDE DEF a, b, c
<1>3. c + (level - Minute) <= Full + b
  BY <1>2, FullIsNat
<1> QED BY <1>3 DEF a, b, c

\* A tick adds to the window at least what it adds to the level.
LEMMA WindowAges ==
  ASSUME NEW w \in Int, NEW d \in Int, NEW level \in Int, NEW later \in Int,
         later <= level + Rpm,
         Minute * w + level <= Full + Rpm * d
  PROVE  Minute * w + later <= Full + Rpm * (d + 1)
<1>1. Rpm * (d + 1) = Rpm * d + Rpm /\ Minute * w \in Int /\ Rpm * d \in Int
  BY FullIsNat, Distributes
<1> DEFINE a == Minute * w
           b == Rpm * d
           c == Rpm * (d + 1)
<1>2. a \in Int /\ b \in Int /\ c = b + Rpm /\ a + level <= Full + b
  BY <1>1
<1> HIDE DEF a, b, c
<1>3. a + later <= Full + c
  BY <1>2, FullIsNat
<1> QED BY <1>3 DEF a, b, c

\* While the level is not negative the window is within its bound.
LEMMA WindowFits ==
  ASSUME NEW w \in Int, NEW d \in Int, NEW level \in Nat,
         Minute * w + level <= Full + Rpm * d
  PROVE  Minute * w <= Full + Rpm * d
<1> DEFINE a == Minute * w
           b == Rpm * d
<1>1. a \in Int /\ b \in Int /\ a + level <= Full + b
  BY FullIsNat, Distributes
<1> HIDE DEF a, b
<1>2. a <= Full + b
  BY <1>1, FullIsNat
<1> QED BY <1>2 DEF a, b

\* The clock never runs behind the last refill of a bucket.
ClockInv == \A tool \in Tools : bucket[tool].last <= now

LEMMA RefilledRange ==
  ASSUME LimiterTypeOK, ClockInv, NEW tool \in Tools
  PROVE  Refilled(tool) \in 0..Full
<1>1. bucket[tool].tokens \in 0..Full /\ bucket[tool].last \in Nat /\ now \in Nat
  BY DEF LimiterTypeOK
<1>2. now - bucket[tool].last \in Nat
  BY <1>1 DEF ClockInv
<1>3. Rpm * (now - bucket[tool].last) \in Nat
  BY <1>2, FullIsNat
<1> QED BY <1>1, <1>3, FullIsNat DEF Refilled

(***************************************************************************)
(* What is left in a bucket now is a part of what the burst and the refill  *)
(* allow since any earlier grant, after all the grants since then.  It is   *)
(* what the bound on windows needs to survive the next grant.               *)
(***************************************************************************)
LevelBound ==
  \A tool \in Tools : \A i \in DOMAIN grants[tool] :
    Minute * (Len(grants[tool]) - i + 1) + Refilled(tool) <= Full + Rpm * (now - grants[tool][i])

LimiterInv == LimiterTypeOK /\ ClockInv /\ LevelBound /\ WindowBound

LEMMA LimiterInvInit == LimiterInit => LimiterInv
<1> SUFFICES ASSUME LimiterInit PROVE LimiterInv
  OBVIOUS
<1>1. LimiterTypeOK
  BY FullIsNat DEF LimiterInit, LimiterTypeOK, FullBucket
<1>2. ClockInv
  <2>1. \A tool \in Tools : bucket[tool].last = 0
    BY Zenon DEF LimiterInit, FullBucket
  <2>2. now = 0
    BY DEF LimiterInit
  <2>3. ASSUME NEW tool \in Tools PROVE bucket[tool].last <= now
    <3>1. bucket[tool].last \in Int /\ now \in Int /\ bucket[tool].last = now
      BY <2>1, <2>2
    <3> QED BY <3>1
  <2> QED BY <2>3, Zenon DEF ClockInv
<1>3. \A tool \in Tools : DOMAIN grants[tool] = {}
  <2>1. \A tool \in Tools : grants[tool] = <<>>
    BY Zenon DEF LimiterInit
  <2>2. DOMAIN << >> = {}
    OBVIOUS
  <2> QED BY <2>1, <2>2, Zenon
<1> QED BY <1>1, <1>2, <1>3 DEF LimiterInv, LevelBound, WindowBound

\* A bucket that is written holds its new level, whatever the clock says later.
LEMMA SetBucketLevel ==
  ASSUME LimiterTypeOK, ClockInv, NEW tool \in Tools, NEW level \in 0..Full,
         SetBucket(tool, level), UNCHANGED now
  PROVE  /\ bucket' \in [Tools -> [tokens : 0..Full, last : Nat]]
         /\ ClockInv'
         /\ Refilled(tool)' = level
         /\ \A t \in Tools : t # tool => Refilled(t)' = Refilled(t)
<1>1. now \in Nat
  BY DEF LimiterTypeOK
<1>2. bucket' \in [Tools -> [tokens : 0..Full, last : Nat]]
  BY <1>1 DEF SetBucket, LimiterTypeOK
<1>3. bucket'[tool].tokens = level /\ bucket'[tool].last = now
  BY DEF SetBucket, LimiterTypeOK
<1>4. \A t \in Tools : t # tool => bucket'[t] = bucket[t]
  BY DEF SetBucket, LimiterTypeOK
<1>5. ClockInv'
  BY <1>1, <1>3, <1>4 DEF ClockInv
<1>6. Rpm * (now - now) = 0
  BY <1>1, FullIsNat
<1>7. Refilled(tool)' = level
  BY <1>1, <1>3, <1>6, FullIsNat DEF Refilled
<1>8. \A t \in Tools : t # tool => Refilled(t)' = Refilled(t)
  BY <1>4 DEF Refilled
<1> QED BY <1>2, <1>5, <1>7, <1>8

LEMMA DenyKeepsLimiter ==
  ASSUME LimiterInv, NEW tool \in Tools, Deny(tool)
  PROVE  LimiterInv'
<1>1. Refilled(tool) \in 0..Full
  BY RefilledRange DEF LimiterInv
<1>2. UNCHANGED <<now, grants>>
  BY DEF Deny
<1>3. bucket' \in [Tools -> [tokens : 0..Full, last : Nat]] /\ ClockInv'
  BY <1>1, <1>2, SetBucketLevel DEF Deny, LimiterInv
<1>4. \A t \in Tools : Refilled(t)' = Refilled(t)
  BY <1>1, <1>2, SetBucketLevel DEF Deny, LimiterInv
<1> QED BY <1>2, <1>3, <1>4 DEF LimiterInv, LimiterTypeOK, LevelBound, WindowBound

LEMMA GrantKeepsLimiter ==
  ASSUME LimiterInv, NEW tool \in Tools, Grant(tool)
  PROVE  LimiterInv'
<1> DEFINE n == Len(grants[tool])
<1>1. Refilled(tool) \in 0..Full /\ Refilled(tool) - Minute \in 0..Full
  BY RefilledRange, FullIsNat DEF LimiterInv, Grant
<1>2. UNCHANGED now /\ now \in Nat
  BY DEF Grant, LimiterInv, LimiterTypeOK
<1>3. /\ bucket' \in [Tools -> [tokens : 0..Full, last : Nat]] /\ ClockInv'
      /\ Refilled(tool)' = Refilled(tool) - Minute
      /\ \A t \in Tools : t # tool => Refilled(t)' = Refilled(t)
  BY <1>1, <1>2, SetBucketLevel DEF Grant, LimiterInv
<1>4. \A t \in Tools : grants[t] \in Seq(Nat)
  BY DEF LimiterInv, LimiterTypeOK
<1>5. grants' = [grants EXCEPT ![tool] = Append(grants[tool], now)]
  BY DEF Grant
<1>6. grants'[tool] = Append(grants[tool], now)
  BY <1>5 DEF LimiterInv, LimiterTypeOK
<1>7. \A t \in Tools : t # tool => grants'[t] = grants[t]
  BY <1>5 DEF LimiterInv, LimiterTypeOK
<1>8. /\ n \in Nat /\ DOMAIN grants[tool] = 1..n
      /\ grants'[tool] \in Seq(Nat)
      /\ Len(grants'[tool]) = n + 1 /\ DOMAIN grants'[tool] = 1..(n + 1)
      /\ grants'[tool][n + 1] = now
      /\ \A i \in 1..n : grants'[tool][i] = grants[tool][i] /\ grants[tool][i] \in Nat
  BY <1>2, <1>4, <1>6, AppendProperties, LenProperties
<1>9. LimiterTypeOK'
  BY <1>2, <1>3, <1>4, <1>5, <1>8 DEF LimiterInv, LimiterTypeOK
<1>10. ASSUME NEW i \in 1..(n + 1)
       PROVE  Minute * (n + 1 - i + 1) + (Refilled(tool) - Minute)
                <= Full + Rpm * (now - grants'[tool][i])
  <2>1. CASE i \in 1..n
    <3>1. Minute * (n - i + 1) + Refilled(tool) <= Full + Rpm * (now - grants[tool][i])
      BY <1>8, <2>1 DEF LimiterInv, LevelBound
    <3>2. n - i + 1 \in Int /\ now - grants[tool][i] \in Int /\ Refilled(tool) \in Int
      <4>1. n \in Nat /\ grants[tool][i] \in Nat
        BY <1>8, <2>1
      <4>2. Refilled(tool) \in Int
        BY <1>1
      <4> HIDE DEF n
      <4>3. n - i + 1 \in Int
        BY <2>1, <4>1
      <4>4. now - grants[tool][i] \in Int
        BY <1>2, <4>1
      <4> QED BY <4>2, <4>3, <4>4
    <3>3. (n - i + 1) + 1 = n + 1 - i + 1
      BY <1>8, <2>1
    <3>4. Minute * ((n - i + 1) + 1) + (Refilled(tool) - Minute)
            <= Full + Rpm * (now - grants[tool][i])
      BY <3>1, <3>2, WindowGrows
    <3>5. grants'[tool][i] = grants[tool][i]
      BY <1>8, <2>1
    <3> QED BY <3>3, <3>4, <3>5
  <2>2. CASE i = n + 1
    <3>1. n + 1 - i + 1 = 1 /\ now - grants'[tool][i] = 0
      BY <1>2, <1>8, <2>2
    <3>2. Minute * 1 = Minute /\ Rpm * 0 = 0
      BY FullIsNat
    <3>3. Minute + (Refilled(tool) - Minute) <= Full + 0
      BY <1>1, FullIsNat
    <3> QED BY <3>1, <3>2, <3>3
  <2> QED BY <1>8, <2>1, <2>2
<1>11. LevelBound'
  <2> SUFFICES ASSUME NEW t \in Tools, NEW i \in DOMAIN grants'[t]
               PROVE  Minute * (Len(grants'[t]) - i + 1) + Refilled(t)'
                        <= Full + Rpm * (now - grants'[t][i])
    BY <1>2 DEF LevelBound
  <2>1. CASE t = tool
    <3>1. i \in 1..(n + 1)
      BY <1>8, <2>1
    <3>2. Len(grants'[t]) - i + 1 = n + 1 - i + 1
      BY <1>8, <2>1
    <3>3. Refilled(t)' = Refilled(tool) - Minute
      BY <1>3, <2>1
    <3>4. grants'[t][i] = grants'[tool][i]
      BY <2>1
    <3> HIDE DEF n
    <3> QED BY <1>10, <3>1, <3>2, <3>3, <3>4
  <2>2. CASE t # tool
    BY <1>2, <1>3, <1>7, <2>2 DEF LimiterInv, LevelBound
  <2> QED BY <2>1, <2>2
<1>12. WindowBound'
  <2> SUFFICES ASSUME NEW t \in Tools, NEW i \in DOMAIN grants'[t], NEW j \in DOMAIN grants'[t],
                      i <= j
               PROVE  Minute * (j - i + 1) <= Full + Rpm * (grants'[t][j] - grants'[t][i])
    BY DEF WindowBound
  <2>1. CASE t # tool
    BY <1>7, <2>1 DEF LimiterInv, WindowBound
  <2>2. CASE t = tool
    <3>1. i \in 1..(n + 1) /\ j \in 1..(n + 1) /\ n \in Nat
      BY <1>8, <2>2
    <3>2. CASE j \in 1..n
      <4>1. i \in 1..n
        BY <3>1, <3>2
      <4>2. Minute * (j - i + 1) <= Full + Rpm * (grants[tool][j] - grants[tool][i])
        BY <1>8, <3>2, <4>1 DEF LimiterInv, WindowBound
      <4> QED BY <1>8, <2>2, <3>2, <4>1, <4>2
    <3>3. CASE j = n + 1
      <4>1. grants'[tool][i] \in Nat
        BY <1>2, <1>8, <3>1
      <4>2. n + 1 - i + 1 \in Int /\ now - grants'[tool][i] \in Int
            /\ Refilled(tool) - Minute \in Nat
        BY <1>1, <1>2, <3>1, <4>1
      <4>3. Minute * (n + 1 - i + 1) <= Full + Rpm * (now - grants'[tool][i])
        BY <1>10, <3>1, <4>2, WindowFits
      <4>4. grants'[tool][j] = now
        BY <1>8, <3>3
      <4>5. j - i + 1 = n + 1 - i + 1
        BY <3>1, <3>3
      <4>6. grants'[t][j] = now /\ grants'[t][i] = grants'[tool][i]
        BY <2>2, <4>4
      <4> HIDE DEF n
      <4> QED BY <4>3, <4>5, <4>6
    <3> QED BY <3>1, <3>2, <3>3
  <2> QED BY <2>1, <2>2
<1> QED BY <1>3, <1>9, <1>11, <1>12 DEF LimiterInv

LEMMA TickKeepsLimiter ==
  ASSUME LimiterInv, Tick
  PROVE  LimiterInv'
<1>1. now \in Nat /\ now' = now + 1 /\ UNCHANGED <<bucket, grants>>
  BY DEF Tick, LimiterInv, LimiterTypeOK
<1>2. LimiterTypeOK' /\ ClockInv' /\ WindowBound'
  BY <1>1 DEF LimiterInv, LimiterTypeOK, ClockInv, WindowBound
<1>3. \A tool \in Tools : Refilled(tool) \in Int /\ Refilled(tool)' \in Int
                          /\ Refilled(tool)' <= Refilled(tool) + Rpm
  <2> TAKE tool \in Tools
  <2>1. bucket[tool].tokens \in 0..Full /\ bucket[tool].last \in Nat
    BY DEF LimiterInv, LimiterTypeOK
  <2>2. now' - bucket'[tool].last = (now - bucket[tool].last) + 1
        /\ now - bucket[tool].last \in Int
    BY <1>1, <2>1
  <2>3. Rpm * (now' - bucket'[tool].last) = Rpm * (now - bucket[tool].last) + Rpm
        /\ Rpm * (now - bucket[tool].last) \in Int
    BY <2>2, FullIsNat, Distributes
  <2>4. bucket'[tool].tokens = bucket[tool].tokens
    BY <1>1
  <2> DEFINE a == Rpm * (now - bucket[tool].last)
             b == Rpm * (now' - bucket'[tool].last)
             k == bucket[tool].tokens
  <2>5. /\ Refilled(tool) = IF k + a > Full THEN Full ELSE k + a
        /\ Refilled(tool)' = IF k + b > Full THEN Full ELSE k + b
    BY <2>4 DEF Refilled
  <2>6. a \in Int /\ b = a + Rpm /\ k \in Nat
    BY <2>1, <2>3
  <2> HIDE DEF a, b, k
  <2> QED BY <2>5, <2>6, FullIsNat
<1>4. LevelBound'
  <2> SUFFICES ASSUME NEW tool \in Tools, NEW i \in DOMAIN grants[tool]
               PROVE  Minute * (Len(grants[tool]) - i + 1) + Refilled(tool)'
                        <= Full + Rpm * (now' - grants[tool][i])
    <3>1. grants' = grants
      BY <1>1
    <3> QED BY <3>1 DEF LevelBound
  <2>1. grants[tool] \in Seq(Nat)
    BY DEF LimiterInv, LimiterTypeOK
  <2>2. grants[tool][i] \in Nat /\ i \in Int /\ Len(grants[tool]) \in Nat
    BY <2>1, LenProperties
  <2>3. now - grants[tool][i] \in Int /\ Len(grants[tool]) - i + 1 \in Int
        /\ now' - grants[tool][i] = (now - grants[tool][i]) + 1
    BY <1>1, <2>2
  <2>4. Minute * (Len(grants[tool]) - i + 1) + Refilled(tool)
          <= Full + Rpm * (now - grants[tool][i])
    BY DEF LimiterInv, LevelBound
  <2>5. Minute * (Len(grants[tool]) - i + 1) + Refilled(tool)'
          <= Full + Rpm * ((now - grants[tool][i]) + 1)
    BY <1>3, <2>3, <2>4, WindowAges
  <2> QED BY <2>3, <2>5
<1> QED BY <1>2, <1>4 DEF LimiterInv

-----------------------------------------------------------------------------
(* The calls: what is known of one caller's frames o and i and ledger s.    *)

GoodFrame == {f \in Frame : f.pc = "backoff" => f.attempt < MaxAttempts}

Typed(o, i, s) == o \in GoodFrame /\ i \in GoodFrame /\ s \in [Tools -> Effort]

\* The inner frame is active exactly while the outer tool, a composite one,
\* waits for it; it runs a tool that is not composite.
Shape(o, i) ==
  /\ i.pc # "waiting"
  /\ o.pc = "waiting" <=> i.pc # "idle"
  /\ i.pc # "idle" => i.tool \in SubTools /\ o.tool \in Composite /\ i.attempt >= 1
  /\ o.pc # "idle" => o.attempt >= 1

\* The tool of the outer call has one token and one invocation per attempt.
OwnEffort(o, s) ==
  IF o.pc = "idle" THEN s = NothingSpent
  ELSE s[o.tool].tokens = 1 /\ s[o.tool].tries = o.attempt

\* The attempts an active inner call has left are owed to its token.
Owed(i, tool) == IF i.pc # "idle" /\ tool = i.tool THEN MaxAttempts - i.attempt ELSE 0

SubEffort(o, i, s) ==
  o.pc # "idle" =>
    \A tool \in Tools \ {o.tool} :
      /\ s[tool].tries + Owed(i, tool) <= MaxAttempts * s[tool].tokens
      /\ s[tool].tokens <= (o.attempt - 1) * MaxSubCalls + o.subs

Sound(o, i, s) == Typed(o, i, s) /\ Shape(o, i) /\ OwnEffort(o, s) /\ SubEffort(o, i, s)

CallInv ==
  /\ call \in [Callers -> [Levels -> GoodFrame]]
  /\ spent \in [Callers -> [Tools -> Effort]]
  /\ \A k \in Callers : Sound(Outer(k), Inner(k), spent[k])

LEMMA IdleFrameTyped == IdleFrame \in GoodFrame
<1>1. (CHOOSE t \in Tools : TRUE) \in Tools
  BY ToolsAssumption
<1> QED BY <1>1, ToolsAssumption DEF IdleFrame, GoodFrame, Frame, MaxAttempts

LEMMA AdmittedTyped ==
  ASSUME NEW e \in Effort
  PROVE  /\ Admitted(e) \in Effort
         /\ Admitted(e).tries = e.tries + 1 /\ Admitted(e).tokens = e.tokens + 1
<1> DEFINE a == e.tries + 1
           b == e.tokens + 1
<1>1. a \in Nat /\ b \in Nat
  BY DEF Effort
<1>2. Admitted(e) = [e EXCEPT !.tries = a, !.tokens = b]
  BY DEF Admitted
<1> HIDE DEF a, b
<1>3. Admitted(e) \in Effort
  BY <1>1, <1>2 DEF Effort
<1>4. Admitted(e).tries = a /\ Admitted(e).tokens = b
  BY <1>2 DEF Effort
<1> QED BY <1>3, <1>4 DEF a, b

LEMMA InvokedTyped ==
  ASSUME NEW e \in Effort
  PROVE  /\ Invoked(e) \in Effort
         /\ Invoked(e).tries = e.tries + 1 /\ Invoked(e).tokens = e.tokens
BY DEF Invoked, Effort

LEMMA FatalTyped ==
  ASSUME NEW e \in Effort
  PROVE  /\ Fatal(e) \in Effort
         /\ Fatal(e).tries = e.tries /\ Fatal(e).tokens = e.tokens
BY DEF Fatal, Effort

LEMMA NothingSpentTyped == NothingSpent \in [Tools -> Effort]
BY DEF NothingSpent, NoEffort, Effort

\* The updates of a frame that the steps make.
LEMMA NewFrameTyped ==
  ASSUME NEW tool \in Tools
  PROVE  /\ NewFrame(tool) \in GoodFrame
         /\ NewFrame(tool).pc = "running" /\ NewFrame(tool).tool = tool
         /\ NewFrame(tool).attempt = 1 /\ NewFrame(tool).subs = 0
<1> DEFINE a == 1
<1>1. IdleFrame \in Frame /\ IdleFrame.subs = 0
  BY IdleFrameTyped DEF GoodFrame, IdleFrame
<1>2. a \in 0..MaxAttempts
  BY DEF MaxAttempts
<1>3. NewFrame(tool) = [IdleFrame EXCEPT !.pc = "running", !.tool = tool, !.attempt = a]
  BY DEF NewFrame
<1> HIDE DEF a
<1>4. NewFrame(tool) \in Frame
  BY <1>1, <1>2, <1>3 DEF Frame
<1>5. /\ NewFrame(tool).pc = "running" /\ NewFrame(tool).tool = tool
      /\ NewFrame(tool).attempt = a /\ NewFrame(tool).subs = IdleFrame.subs
  BY <1>1, <1>3 DEF Frame
<1> QED BY <1>1, <1>4, <1>5 DEF GoodFrame, a

LEMMA WaitingTyped ==
  ASSUME NEW f \in Frame, f.subs < MaxSubCalls
  PROVE  /\ Waiting(f) \in GoodFrame
         /\ Waiting(f).pc = "waiting" /\ Waiting(f).tool = f.tool
         /\ Waiting(f).attempt = f.attempt /\ Waiting(f).subs = f.subs + 1
<1> DEFINE n == f.subs + 1
<1>1. n \in 0..MaxSubCalls
  BY ToolsAssumption DEF Frame
<1>2. Waiting(f) = [f EXCEPT !.pc = "waiting", !.subs = n]
  BY DEF Waiting
<1> HIDE DEF n
<1>3. Waiting(f) \in Frame
  BY <1>1, <1>2 DEF Frame
<1>4. /\ Waiting(f).pc = "waiting" /\ Waiting(f).tool = f.tool
      /\ Waiting(f).attempt = f.attempt /\ Waiting(f).subs = n
  BY <1>2 DEF Frame
<1> QED BY <1>3, <1>4 DEF GoodFrame, n

LEMMA NextAttemptTyped ==
  ASSUME NEW f \in Frame, f.attempt < MaxAttempts
  PROVE  /\ NextAttempt(f) \in GoodFrame
         /\ NextAttempt(f).pc = "running" /\ NextAttempt(f).tool = f.tool
         /\ NextAttempt(f).attempt = f.attempt + 1 /\ NextAttempt(f).subs = 0
<1> DEFINE a == f.attempt + 1
           n == 0
<1>1. a \in 0..MaxAttempts /\ n \in 0..MaxSubCalls
  BY ToolsAssumption DEF Frame, MaxAttempts
<1>2. NextAttempt(f) = [f EXCEPT !.pc = "running", !.attempt = a, !.subs = n]
  BY DEF NextAttempt
<1> HIDE DEF a, n
<1>3. NextAttempt(f) \in Frame
  BY <1>1, <1>2 DEF Frame
<1>4. /\ NextAttempt(f).pc = "running" /\ NextAttempt(f).tool = f.tool
      /\ NextAttempt(f).attempt = a /\ NextAttempt(f).subs = n
  BY <1>2 DEF Frame
<1> QED BY <1>3, <1>4 DEF GoodFrame, a, n

LEMMA IdleIsSound == Sound(IdleFrame, IdleFrame, NothingSpent)
BY IdleFrameTyped, NothingSpentTyped
   DEF Sound, Typed, Shape, OwnEffort, SubEffort, IdleFrame

-----------------------------------------------------------------------------
(* What each kind of step does to one caller.                               *)

LEMMA StartIsSound ==
  ASSUME NEW o, NEW i, NEW s, Sound(o, i, s), o.pc = "idle", NEW tool \in Tools
  PROVE  Sound(NewFrame(tool), i, [s EXCEPT ![tool] = Admitted(s[tool])])
<1> DEFINE new == NewFrame(tool)
           led == [s EXCEPT ![tool] = Admitted(s[tool])]
<1>1. s = NothingSpent /\ i.pc = "idle" /\ Typed(o, i, s)
  BY DEF Sound, Shape, OwnEffort
<1>2. new \in GoodFrame /\ new.pc = "running" /\ new.tool = tool /\ new.attempt = 1 /\ new.subs = 0
  BY NewFrameTyped
<1> HIDE DEF new
<1>3. Admitted(NoEffort) \in Effort /\ Admitted(NoEffort).tries = 1 /\ Admitted(NoEffort).tokens = 1
  <2>1. NoEffort \in Effort /\ NoEffort.tries = 0 /\ NoEffort.tokens = 0
    BY DEF NoEffort, Effort
  <2> QED BY <2>1, AdmittedTyped
<1>4. \A t \in Tools : led[t] = IF t = tool THEN Admitted(NoEffort) ELSE NoEffort
  BY <1>1 DEF NothingSpent
<1>5. led \in [Tools -> Effort]
  BY <1>1, <1>3, NothingSpentTyped DEF NothingSpent
<1> HIDE DEF led
<1>6. Shape(new, i)
  BY <1>1, <1>2 DEF Shape
<1>7. OwnEffort(new, led)
  BY <1>2, <1>3, <1>4 DEF OwnEffort
<1>8. SubEffort(new, i, led)
  <2> SUFFICES ASSUME NEW t \in Tools \ {tool}
               PROVE  /\ led[t].tries + Owed(i, t) <= MaxAttempts * led[t].tokens
                      /\ led[t].tokens <= (1 - 1) * MaxSubCalls + 0
    BY <1>2 DEF SubEffort
  <2>1. led[t].tries = 0 /\ led[t].tokens = 0
    BY <1>4 DEF NoEffort
  <2>2. Owed(i, t) = 0
    BY <1>1 DEF Owed
  <2> QED BY <2>1, <2>2, ToolsAssumption DEF MaxAttempts
<1>9. Typed(new, i, led)
  BY <1>1, <1>2, <1>5 DEF Typed
<1> QED BY <1>6, <1>7, <1>8, <1>9 DEF Sound, new, led

\* The outer frame changes its pc only, and the inner one, if any, is dropped.
LEMMA DropIsSound ==
  ASSUME NEW o, NEW i, NEW s, Sound(o, i, s), o.pc # "idle",
         NEW p \in GoodFrame, p.pc \in {"running", "backoff"},
         p.tool = o.tool, p.attempt = o.attempt, p.subs = o.subs
  PROVE  Sound(p, IdleFrame, s)
<1>1. IdleFrame.pc = "idle"
  BY DEF IdleFrame
<1>2. Typed(o, i, s) /\ Shape(o, i) /\ OwnEffort(o, s) /\ SubEffort(o, i, s)
  BY DEF Sound
<1>3. Typed(p, IdleFrame, s)
  BY <1>2, IdleFrameTyped DEF Typed
<1>4. Shape(p, IdleFrame)
  BY <1>1, <1>2 DEF Shape
<1>5. OwnEffort(p, s)
  BY <1>2 DEF OwnEffort
<1>6. SubEffort(p, IdleFrame, s)
  <2> SUFFICES ASSUME NEW t \in Tools \ {o.tool}
               PROVE  /\ s[t].tries + Owed(IdleFrame, t) <= MaxAttempts * s[t].tokens
                      /\ s[t].tokens <= (o.attempt - 1) * MaxSubCalls + o.subs
    BY DEF SubEffort
  <2>1. /\ s[t].tries + Owed(i, t) <= MaxAttempts * s[t].tokens
        /\ s[t].tokens <= (o.attempt - 1) * MaxSubCalls + o.subs
    BY <1>2 DEF SubEffort
  <2>2. Owed(i, t) \in Nat
    BY <1>2 DEF Typed, GoodFrame, Frame, Owed, MaxAttempts
  <2>3. Owed(IdleFrame, t) = 0
    BY <1>1 DEF Owed
  <2>4. s[t].tries \in Nat /\ s[t].tokens \in Nat
    BY <1>2 DEF Typed, Effort
  <2> QED BY <2>1, <2>2, <2>3, <2>4 DEF MaxAttempts
<1> QED BY <1>3, <1>4, <1>5, <1>6 DEF Sound

\* An inner call begins: a token more, and one sub-call more.
LEMMA SubCallIsSound ==
  ASSUME NEW o, NEW i, NEW s, Sound(o, i, s), o.pc = "running", o.tool \in Composite,
         o.subs < MaxSubCalls, NEW tool \in SubTools
  PROVE  Sound(Waiting(o), NewFrame(tool),
               [s EXCEPT ![tool] = Admitted(s[tool])])
<1> DEFINE p   == Waiting(o)
           new == NewFrame(tool)
           led == [s EXCEPT ![tool] = Admitted(s[tool])]
<1>1. Typed(o, i, s) /\ Shape(o, i) /\ OwnEffort(o, s) /\ SubEffort(o, i, s)
  BY DEF Sound
<1>2. tool \in Tools /\ tool # o.tool /\ MaxSubCalls \in Nat
  BY ToolsAssumption
<1>3. /\ new \in GoodFrame /\ new.pc = "running" /\ new.tool = tool /\ new.attempt = 1
  BY <1>2, NewFrameTyped
<1>4. o \in Frame
  BY <1>1 DEF Typed, GoodFrame
<1>5. /\ p \in GoodFrame /\ p.pc = "waiting" /\ p.tool = o.tool /\ p.attempt = o.attempt
      /\ p.subs = o.subs + 1
  BY <1>4, WaitingTyped
<1>6. s[tool] \in Effort
  BY <1>1, <1>2 DEF Typed
<1>7. /\ Admitted(s[tool]) \in Effort
      /\ Admitted(s[tool]).tries = s[tool].tries + 1
      /\ Admitted(s[tool]).tokens = s[tool].tokens + 1
  BY <1>6, AdmittedTyped
<1>8. led \in [Tools -> Effort]
  BY <1>1, <1>7 DEF Typed
<1>9. \A t \in Tools : led[t] = IF t = tool THEN Admitted(s[tool]) ELSE s[t]
  BY <1>1 DEF Typed
<1> HIDE DEF p, new, led
<1>10. Typed(p, new, led)
  BY <1>3, <1>5, <1>8 DEF Typed, GoodFrame
<1>11. Shape(p, new)
  BY <1>1, <1>3, <1>5 DEF Shape
<1>12. o.tool \in Tools
  BY <1>4 DEF Frame
<1>13. OwnEffort(p, led)
  BY <1>1, <1>2, <1>5, <1>9, <1>12 DEF OwnEffort
<1>14. SubEffort(p, new, led)
  <2> SUFFICES ASSUME NEW t \in Tools \ {o.tool}
               PROVE  /\ led[t].tries + Owed(new, t) <= MaxAttempts * led[t].tokens
                      /\ led[t].tokens <= (o.attempt - 1) * MaxSubCalls + (o.subs + 1)
    BY <1>5 DEF SubEffort
  <2>1. /\ s[t].tries + Owed(i, t) <= MaxAttempts * s[t].tokens
        /\ s[t].tokens <= (o.attempt - 1) * MaxSubCalls + o.subs
    BY <1>1 DEF SubEffort
  <2>2. s[t].tries \in Nat /\ s[t].tokens \in Nat /\ o.subs \in Nat /\ o.attempt \in Nat
    BY <1>1, <1>2, <1>4 DEF Typed, Effort, Frame, MaxAttempts
  <2>3. Owed(i, t) = 0
    BY <1>1 DEF Shape, Owed
  <2>4. (o.attempt - 1) * MaxSubCalls \in Int
    BY <1>2, <2>2
  <2>5. CASE t = tool
    <3>1. Owed(new, t) = MaxAttempts - 1
      BY <1>3, <2>5 DEF Owed
    <3>2. led[t].tries = s[t].tries + 1 /\ led[t].tokens = s[t].tokens + 1
      BY <1>7, <1>9, <2>5
    <3> QED BY <2>1, <2>2, <2>3, <2>4, <3>1, <3>2 DEF MaxAttempts
  <2>6. CASE t # tool
    <3>1. Owed(new, t) = 0 /\ led[t] = s[t]
      BY <1>3, <1>9, <2>6 DEF Owed
    <3> QED BY <2>1, <2>2, <2>3, <2>4, <3>1
  <2> QED BY <2>5, <2>6
<1> QED BY <1>10, <1>11, <1>13, <1>14 DEF Sound, p, new, led

\* Another attempt of the outer call may use as many sub-calls again.
LEMMA OuterRetryIsSound ==
  ASSUME NEW o, NEW i, NEW s, Sound(o, i, s), o.pc = "backoff"
  PROVE  Sound(NextAttempt(o), i, [s EXCEPT ![o.tool] = Invoked(s[o.tool])])
<1> DEFINE p   == NextAttempt(o)
           led == [s EXCEPT ![o.tool] = Invoked(s[o.tool])]
<1>1. Typed(o, i, s) /\ Shape(o, i) /\ OwnEffort(o, s) /\ SubEffort(o, i, s)
  BY DEF Sound
<1>2. o \in Frame /\ o.attempt \in Nat /\ o.attempt < MaxAttempts /\ o.tool \in Tools
      /\ o.subs \in 0..MaxSubCalls /\ MaxSubCalls \in Nat
  BY <1>1, ToolsAssumption DEF Typed, GoodFrame, Frame
<1>3. /\ p \in GoodFrame /\ p.pc = "running" /\ p.tool = o.tool /\ p.attempt = o.attempt + 1
      /\ p.subs = 0
  BY <1>2, NextAttemptTyped
<1>4. /\ Invoked(s[o.tool]) \in Effort
      /\ Invoked(s[o.tool]).tries = s[o.tool].tries + 1
      /\ Invoked(s[o.tool]).tokens = s[o.tool].tokens
  BY <1>1, <1>2, InvokedTyped DEF Typed
<1>5. led \in [Tools -> Effort]
  BY <1>1, <1>4 DEF Typed
<1>6. \A t \in Tools : led[t] = IF t = o.tool THEN Invoked(s[o.tool]) ELSE s[t]
  BY <1>1 DEF Typed
<1> HIDE DEF p, led
<1>7. Typed(p, i, led)
  BY <1>1, <1>3, <1>5 DEF Typed, GoodFrame
<1>8. Shape(p, i)
  BY <1>1, <1>2, <1>3 DEF Shape
<1>9. OwnEffort(p, led)
  BY <1>1, <1>2, <1>3, <1>4, <1>6 DEF OwnEffort
<1>10. SubEffort(p, i, led)
  <2> SUFFICES ASSUME NEW t \in Tools \ {o.tool}
               PROVE  /\ led[t].tries + Owed(i, t) <= MaxAttempts * led[t].tokens
                      /\ led[t].tokens <= (p.attempt - 1) * MaxSubCalls + p.subs
    BY <1>3 DEF SubEffort
  <2>1. /\ s[t].tries + Owed(i, t) <= MaxAttempts * s[t].tokens
        /\ s[t].tokens <= (o.attempt - 1) * MaxSubCalls + o.subs
    BY <1>1 DEF SubEffort
  <2>2. led[t] = s[t] /\ s[t].tokens \in Nat
    BY <1>1, <1>6 DEF Typed, Effort
  <2>3. /\ (o.attempt - 1) * MaxSubCalls \in Int
        /\ (p.attempt - 1) * MaxSubCalls = (o.attempt - 1) * MaxSubCalls + MaxSubCalls
    <3>1. p.attempt - 1 = (o.attempt - 1) + 1 /\ o.attempt - 1 \in Int /\ MaxSubCalls \in Int
      BY <1>2, <1>3
    <3>2. MaxSubCalls * ((o.attempt - 1) + 1) = MaxSubCalls * (o.attempt - 1) + MaxSubCalls
          /\ MaxSubCalls * (o.attempt - 1) \in Int
      BY <3>1, Distributes
    <3>3. \A a, b \in Int : a * b = b * a
      OBVIOUS
    <3>4. /\ (p.attempt - 1) * MaxSubCalls = MaxSubCalls * (p.attempt - 1)
          /\ (o.attempt - 1) * MaxSubCalls = MaxSubCalls * (o.attempt - 1)
      BY <1>2, <1>3, <3>1, <3>3
    <3> QED BY <3>1, <3>2, <3>4
  <2> DEFINE w == (o.attempt - 1) * MaxSubCalls
             v == (p.attempt - 1) * MaxSubCalls
  <2>4. w \in Int /\ v = w + MaxSubCalls /\ s[t].tokens <= w + o.subs
    BY <2>1, <2>3
  <2> HIDE DEF w, v
  <2>5. s[t].tokens <= v + p.subs
    BY <1>2, <1>3, <2>2, <2>4
  <2> QED BY <2>1, <2>2, <2>5 DEF v
<1> QED BY <1>7, <1>8, <1>9, <1>10 DEF Sound, p, led

\* Another attempt of the inner call uses one of those owed to its token.
LEMMA InnerRetryIsSound ==
  ASSUME NEW o, NEW i, NEW s, Sound(o, i, s), i.pc = "backoff"
  PROVE  Sound(o, NextAttempt(i), [s EXCEPT ![i.tool] = Invoked(s[i.tool])])
<1> DEFINE p   == NextAttempt(i)
           led == [s EXCEPT ![i.tool] = Invoked(s[i.tool])]
<1>1. Typed(o, i, s) /\ Shape(o, i) /\ OwnEffort(o, s) /\ SubEffort(o, i, s)
  BY DEF Sound
<1>2. i \in Frame /\ i.attempt \in Nat /\ i.attempt < MaxAttempts /\ i.tool \in Tools
      /\ MaxSubCalls \in Nat
  BY <1>1, ToolsAssumption DEF Typed, GoodFrame, Frame
<1>3. /\ p \in GoodFrame /\ p.pc = "running" /\ p.tool = i.tool /\ p.attempt = i.attempt + 1
  BY <1>2, NextAttemptTyped
<1>4. /\ Invoked(s[i.tool]) \in Effort
      /\ Invoked(s[i.tool]).tries = s[i.tool].tries + 1
      /\ Invoked(s[i.tool]).tokens = s[i.tool].tokens
  BY <1>1, <1>2, InvokedTyped DEF Typed
<1>5. led \in [Tools -> Effort]
  BY <1>1, <1>4 DEF Typed
<1>6. \A t \in Tools : led[t] = IF t = i.tool THEN Invoked(s[i.tool]) ELSE s[t]
  BY <1>1 DEF Typed
<1>7. o.pc = "waiting" /\ i.tool \in SubTools /\ o.tool \in Composite /\ o.tool # i.tool
      /\ o.tool \in Tools
  BY <1>1, ToolsAssumption DEF Shape
<1> HIDE DEF p, led
<1>8. Typed(o, p, led)
  BY <1>1, <1>3, <1>5 DEF Typed, GoodFrame
<1>9. Shape(o, p)
  BY <1>1, <1>2, <1>3, <1>7 DEF Shape
<1>10. OwnEffort(o, led)
  BY <1>1, <1>6, <1>7 DEF OwnEffort
<1>11. SubEffort(o, p, led)
  <2> SUFFICES ASSUME NEW t \in Tools \ {o.tool}
               PROVE  /\ led[t].tries + Owed(p, t) <= MaxAttempts * led[t].tokens
                      /\ led[t].tokens <= (o.attempt - 1) * MaxSubCalls + o.subs
    BY DEF SubEffort
  <2>1. /\ s[t].tries + Owed(i, t) <= MaxAttempts * s[t].tokens
        /\ s[t].tokens <= (o.attempt - 1) * MaxSubCalls + o.subs
    BY <1>1, <1>7 DEF SubEffort
  <2>2. s[t].tries \in Nat /\ s[t].tokens \in Nat
    BY <1>1 DEF Typed, Effort
  <2>3. CASE t = i.tool
    <3>1. Owed(i, t) = MaxAttempts - i.attempt /\ Owed(p, t) = MaxAttempts - (i.attempt + 1)
      BY <1>3, <2>3 DEF Owed
    <3>2. led[t].tries = s[t].tries + 1 /\ led[t].tokens = s[t].tokens
      BY <1>4, <1>6, <2>3
    <3> QED BY <1>2, <2>1, <2>2, <3>1, <3>2 DEF MaxAttempts
  <2>4. CASE t # i.tool
    BY <1>3, <1>6, <2>1, <2>4 DEF Owed
  <2> QED BY <2>3, <2>4
<1> QED BY <1>8, <1>9, <1>10, <1>11 DEF Sound, p, led

-----------------------------------------------------------------------------
(* The two invariants are kept by every step.                               *)

LEMMA SetCallEffect ==
  ASSUME CallInv, NEW k \in Callers, NEW p \in GoodFrame, NEW q \in GoodFrame, SetCall(k, p, q)
  PROVE  /\ call' \in [Callers -> [Levels -> GoodFrame]]
         /\ Outer(k)' = p /\ Inner(k)' = q
         /\ \A c \in Callers : c # k => call'[c] = call[c]
<1> DEFINE both == [l \in Levels |-> IF l = "outer" THEN p ELSE q]
<1>1. both \in [Levels -> GoodFrame] /\ both["outer"] = p /\ both["inner"] = q
  BY DEF Levels
<1>2. call' = [call EXCEPT ![k] = both]
  BY DEF SetCall
<1> HIDE DEF both
<1> QED BY <1>1, <1>2 DEF CallInv, Outer, Inner

LEMMA SetFrameEffect ==
  ASSUME CallInv, NEW k \in Callers, NEW l \in Levels, NEW f \in GoodFrame, SetFrame(k, l, f)
  PROVE  /\ call' \in [Callers -> [Levels -> GoodFrame]]
         /\ Outer(k)' = IF l = "outer" THEN f ELSE Outer(k)
         /\ Inner(k)' = IF l = "inner" THEN f ELSE Inner(k)
         /\ \A c \in Callers : c # k => call'[c] = call[c]
<1>1. /\ call[k] \in [Levels -> GoodFrame]
      /\ call' = [call EXCEPT ![k] = [call[k] EXCEPT ![l] = f]]
  BY DEF CallInv, SetFrame
<1>2. /\ [call[k] EXCEPT ![l] = f] \in [Levels -> GoodFrame]
      /\ \A m \in Levels : [call[k] EXCEPT ![l] = f][m] = IF m = l THEN f ELSE call[k][m]
  BY <1>1
<1>3. call'[k] = [call[k] EXCEPT ![l] = f]
  BY <1>1 DEF CallInv
<1>4. call' \in [Callers -> [Levels -> GoodFrame]]
  BY <1>1, <1>2 DEF CallInv
<1>5. Outer(k)' = (IF l = "outer" THEN f ELSE Outer(k))
      /\ Inner(k)' = (IF l = "inner" THEN f ELSE Inner(k))
  BY <1>2, <1>3 DEF Outer, Inner, Levels
<1>6. \A c \in Callers : c # k => call'[c] = call[c]
  BY <1>1 DEF CallInv
<1> QED BY <1>4, <1>5, <1>6

\* A step of one caller that leaves it sound leaves all of them sound.
LEMMA OneCaller ==
  ASSUME CallInv, NEW k \in Callers, NEW led,
         Sound(Outer(k)', Inner(k)', led),
         call' \in [Callers -> [Levels -> GoodFrame]],
         \A c \in Callers : c # k => call'[c] = call[c],
         spent' = [spent EXCEPT ![k] = led]
  PROVE  CallInv'
<1>1. led \in [Tools -> Effort]
  BY DEF Sound, Typed
<1>2. spent' \in [Callers -> [Tools -> Effort]] /\ spent'[k] = led
  BY <1>1 DEF CallInv
<1>3. \A c \in Callers : c # k => spent'[c] = spent[c]
  BY DEF CallInv
<1>4. ASSUME NEW c \in Callers PROVE Sound(Outer(c)', Inner(c)', spent'[c])
  <2>1. CASE c = k
    BY <1>2, <2>1
  <2>2. CASE c # k
    <3>1. Outer(c)' = Outer(c) /\ Inner(c)' = Inner(c) /\ spent'[c] = spent[c]
      BY <1>3, <2>2 DEF Outer, Inner
    <3>2. Sound(Outer(c), Inner(c), spent[c])
      BY DEF CallInv
    <3> QED BY <3>1, <3>2
  <2> QED BY <2>1, <2>2
<1> QED BY <1>2, <1>4 DEF CallInv

\* What CallInv says of the caller that steps.
LEMMA CallerFacts ==
  ASSUME CallInv, NEW k \in Callers
  PROVE  /\ Sound(Outer(k), Inner(k), spent[k])
         /\ Outer(k) \in GoodFrame /\ Inner(k) \in GoodFrame
         /\ Outer(k) \in Frame /\ Inner(k) \in Frame
         /\ Outer(k).tool \in Tools /\ Inner(k).tool \in Tools
         /\ spent[k] \in [Tools -> Effort]
         /\ spent = [spent EXCEPT ![k] = spent[k]]
<1>1. Sound(Outer(k), Inner(k), spent[k])
  BY DEF CallInv
<1>2. Outer(k) \in GoodFrame /\ Inner(k) \in GoodFrame /\ spent[k] \in [Tools -> Effort]
  BY <1>1 DEF Sound, Typed
<1>3. spent = [spent EXCEPT ![k] = spent[k]]
  BY DEF CallInv
<1> QED BY <1>1, <1>2, <1>3 DEF GoodFrame, Frame

LEMMA LeaveKeepsCalls ==
  ASSUME CallInv, NEW k \in Callers, Leave(k)
  PROVE  CallInv'
<1>1. SetCall(k, IdleFrame, IdleFrame) /\ spent' = [spent EXCEPT ![k] = NothingSpent]
  BY DEF Leave
<1>2. /\ call' \in [Callers -> [Levels -> GoodFrame]]
      /\ Outer(k)' = IdleFrame /\ Inner(k)' = IdleFrame
      /\ \A c \in Callers : c # k => call'[c] = call[c]
  BY <1>1, IdleFrameTyped, SetCallEffect
<1>3. Sound(Outer(k)', Inner(k)', NothingSpent)
  BY <1>2, IdleIsSound
<1> QED BY <1>1, <1>2, <1>3, OneCaller

LEMMA BackoffTyped ==
  ASSUME NEW f \in Frame, ~LastAttempt(f)
  PROVE  /\ Backoff(f) \in GoodFrame
         /\ Backoff(f).pc = "backoff" /\ Backoff(f).tool = f.tool
         /\ Backoff(f).attempt = f.attempt /\ Backoff(f).subs = f.subs
<1>1. Backoff(f) \in Frame
  BY DEF Backoff, Frame
<1>2. /\ Backoff(f).pc = "backoff" /\ Backoff(f).tool = f.tool
      /\ Backoff(f).attempt = f.attempt /\ Backoff(f).subs = f.subs
  BY DEF Backoff, Frame
<1>3. f.attempt < MaxAttempts
  BY DEF LastAttempt, Frame, MaxAttempts
<1> QED BY <1>1, <1>2, <1>3 DEF GoodFrame

LEMMA ResumedTyped ==
  ASSUME NEW f \in Frame
  PROVE  /\ Resumed(f) \in GoodFrame
         /\ Resumed(f).pc = "running" /\ Resumed(f).tool = f.tool
         /\ Resumed(f).attempt = f.attempt /\ Resumed(f).subs = f.subs
<1>1. Resumed(f) \in Frame
  BY DEF Resumed, Frame
<1>2. /\ Resumed(f).pc = "running" /\ Resumed(f).tool = f.tool
      /\ Resumed(f).attempt = f.attempt /\ Resumed(f).subs = f.subs
  BY DEF Resumed, Frame
<1> QED BY <1>1, <1>2 DEF GoodFrame

LEMMA OuterRaisesKeepsCalls ==
  ASSUME CallInv, NEW k \in Callers, Outer(k).pc # "idle", OuterRaises(k)
  PROVE  CallInv'
<1>1. CASE LastAttempt(Outer(k))
  BY <1>1, LeaveKeepsCalls DEF OuterRaises
<1>2. CASE ~LastAttempt(Outer(k))
  <2>1. SetCall(k, Backoff(Outer(k)), IdleFrame) /\ spent' = spent
    BY <1>2 DEF OuterRaises
  <2> DEFINE p == Backoff(Outer(k))
  <2>2. /\ p \in GoodFrame /\ p.pc = "backoff" /\ p.tool = Outer(k).tool
        /\ p.attempt = Outer(k).attempt /\ p.subs = Outer(k).subs
    BY <1>2, CallerFacts, BackoffTyped
  <2>3. Sound(p, IdleFrame, spent[k])
    BY <2>2, CallerFacts, DropIsSound
  <2>4. /\ call' \in [Callers -> [Levels -> GoodFrame]]
        /\ Outer(k)' = p /\ Inner(k)' = IdleFrame
        /\ \A c \in Callers : c # k => call'[c] = call[c]
    BY <2>1, <2>2, IdleFrameTyped, SetCallEffect
  <2>5. spent' = [spent EXCEPT ![k] = spent[k]]
    BY <2>1, CallerFacts
  <2> HIDE DEF p
  <2>6. Sound(Outer(k)', Inner(k)', spent[k])
    BY <2>3, <2>4
  <2> QED BY <2>4, <2>5, <2>6, OneCaller
<1> QED BY <1>1, <1>2

LEMMA CallInvInit == Init => CallInv
<1> SUFFICES ASSUME Init PROVE CallInv
  OBVIOUS
<1>1. \A k \in Callers : /\ call[k] = [l \in Levels |-> IdleFrame]
                         /\ spent[k] = NothingSpent
  BY DEF Init
<1>2. \A k \in Callers : Outer(k) = IdleFrame /\ Inner(k) = IdleFrame
  BY <1>1 DEF Outer, Inner, Levels
<1>3. \A k \in Callers : Sound(Outer(k), Inner(k), spent[k])
  BY <1>1, <1>2, IdleIsSound
<1> QED BY <1>3, IdleFrameTyped, NothingSpentTyped DEF Init, CallInv

LEMMA StartKeepsCalls ==
  ASSUME CallInv, NEW k \in Callers, NEW tool \in Tools, NEW approved, Start(k, tool, approved)
  PROVE  CallInv'
<1> DEFINE new == NewFrame(tool)
           led == [spent[k] EXCEPT ![tool] = Admitted(spent[k][tool])]
<1>1. Outer(k).pc = "idle" /\ SetFrame(k, "outer", new)
  BY DEF Start, At, Outer
<1>2. spent' = [spent EXCEPT ![k] = led]
  BY DEF Start
<1>3. Sound(new, Inner(k), led)
  BY <1>1, CallerFacts, StartIsSound
<1>4. new \in GoodFrame
  BY NewFrameTyped
<1> HIDE DEF new, led
<1>5. "outer" \in Levels /\ "outer" # "inner"
  BY DEF Levels
<1>6. /\ call' \in [Callers -> [Levels -> GoodFrame]]
      /\ Outer(k)' = new /\ Inner(k)' = Inner(k)
      /\ \A c \in Callers : c # k => call'[c] = call[c]
  BY <1>1, <1>4, <1>5, SetFrameEffect
<1>7. Sound(Outer(k)', Inner(k)', led)
  BY <1>3, <1>6
<1> QED BY <1>2, <1>6, <1>7, OneCaller

LEMMA ReturnInnerKeepsCalls ==
  ASSUME CallInv, NEW k \in Callers, ReturnInner(k)
  PROVE  CallInv'
<1> DEFINE p == Resumed(Outer(k))
<1>1. Inner(k).pc = "running" /\ SetCall(k, p, IdleFrame) /\ spent' = spent
  BY DEF ReturnInner, At, Inner
<1>2. Outer(k).pc = "waiting"
  BY <1>1, CallerFacts DEF Sound, Shape
<1>3. /\ p \in GoodFrame /\ p.pc = "running" /\ p.tool = Outer(k).tool
      /\ p.attempt = Outer(k).attempt /\ p.subs = Outer(k).subs
  BY CallerFacts, ResumedTyped
<1>4. Sound(p, IdleFrame, spent[k])
  BY <1>2, <1>3, CallerFacts, DropIsSound
<1>5. /\ call' \in [Callers -> [Levels -> GoodFrame]]
      /\ Outer(k)' = p /\ Inner(k)' = IdleFrame
      /\ \A c \in Callers : c # k => call'[c] = call[c]
  BY <1>1, <1>3, IdleFrameTyped, SetCallEffect
<1>6. spent' = [spent EXCEPT ![k] = spent[k]]
  BY <1>1, CallerFacts
<1> HIDE DEF p
<1>7. Sound(Outer(k)', Inner(k)', spent[k])
  BY <1>4, <1>5
<1> QED BY <1>5, <1>6, <1>7, OneCaller

LEMMA InnerBackoffIsSound ==
  ASSUME NEW o, NEW i, NEW s, Sound(o, i, s), i.pc = "running", ~LastAttempt(i)
  PROVE  Sound(o, Backoff(i), s)
<1> DEFINE q == Backoff(i)
<1>1. Typed(o, i, s) /\ Shape(o, i) /\ OwnEffort(o, s) /\ SubEffort(o, i, s)
  BY DEF Sound
<1>2. i \in Frame
  BY <1>1 DEF Typed, GoodFrame
<1>3. /\ q \in GoodFrame /\ q.pc = "backoff" /\ q.tool = i.tool
      /\ q.attempt = i.attempt /\ q.subs = i.subs
  BY <1>2, BackoffTyped
<1> HIDE DEF q
<1>4. Typed(o, q, s) /\ Shape(o, q)
  BY <1>1, <1>3 DEF Typed, Shape
<1>5. \A t \in Tools : Owed(q, t) = Owed(i, t)
  BY <1>3 DEF Owed
<1>6. SubEffort(o, q, s)
  BY <1>1, <1>5, Zenon DEF SubEffort
<1> QED BY <1>1, <1>4, <1>6 DEF Sound, q

LEMMA RaiseKeepsCalls ==
  ASSUME CallInv, NEW k \in Callers, NEW l \in Levels, RaiseRetryable(k, l)
  PROVE  CallInv'
<1>1. CASE l = "outer"
  BY <1>1, OuterRaisesKeepsCalls DEF RaiseRetryable, At, Outer
<1>2. CASE l = "inner"
  <2>1. Inner(k).pc = "running" /\ call[k][l] = Inner(k) /\ l # "outer"
    BY <1>2 DEF RaiseRetryable, At, Inner
  <2>2. CASE LastAttempt(Inner(k))
    <3>1. OuterRaises(k)
      BY <2>1, <2>2 DEF RaiseRetryable
    <3>2. Outer(k).pc = "waiting"
      BY <2>1, CallerFacts DEF Sound, Shape
    <3> QED BY <3>1, <3>2, OuterRaisesKeepsCalls
  <2>3. CASE ~LastAttempt(Inner(k))
    <3> DEFINE q == Backoff(Inner(k))
    <3>1. SetFrame(k, l, q) /\ spent' = spent
      BY <2>1, <2>3 DEF RaiseRetryable
    <3>2. Sound(Outer(k), q, spent[k]) /\ q \in GoodFrame
      BY <2>1, <2>3, CallerFacts, InnerBackoffIsSound, BackoffTyped
    <3> HIDE DEF q
    <3>3. /\ call' \in [Callers -> [Levels -> GoodFrame]]
          /\ Outer(k)' = Outer(k) /\ Inner(k)' = q
          /\ \A c \in Callers : c # k => call'[c] = call[c]
      BY <1>2, <2>1, <3>1, <3>2, SetFrameEffect
    <3>4. spent' = [spent EXCEPT ![k] = spent[k]]
      BY <3>1, CallerFacts
    <3>5. Sound(Outer(k)', Inner(k)', spent[k])
      BY <3>2, <3>3
    <3> QED BY <3>3, <3>4, <3>5, OneCaller
  <2> QED BY <2>2, <2>3
<1> QED BY <1>1, <1>2 DEF Levels

\* A ledger that differs in the fatal flags only is as sound.
LEMMA FatalIsSound ==
  ASSUME NEW o, NEW i, NEW s, Sound(o, i, s), o.pc # "idle", NEW tool \in Tools
  PROVE  Sound(o, i, [s EXCEPT ![tool] = Fatal(s[tool])])
<1> DEFINE led == [s EXCEPT ![tool] = Fatal(s[tool])]
<1>1. Typed(o, i, s) /\ Shape(o, i) /\ OwnEffort(o, s) /\ SubEffort(o, i, s)
  BY DEF Sound
<1>2. /\ Fatal(s[tool]) \in Effort
      /\ Fatal(s[tool]).tries = s[tool].tries /\ Fatal(s[tool]).tokens = s[tool].tokens
  BY <1>1, FatalTyped DEF Typed
<1>3. led \in [Tools -> Effort]
  BY <1>1, <1>2 DEF Typed
<1>4. \A t \in Tools : led[t].tries = s[t].tries /\ led[t].tokens = s[t].tokens
  <2> TAKE t \in Tools
  <2>1. led[t] = IF t = tool THEN Fatal(s[tool]) ELSE s[t]
    BY <1>1 DEF Typed
  <2> QED BY <1>2, <2>1
<1>5. o.tool \in Tools
  BY <1>1 DEF Typed, GoodFrame, Frame
<1> HIDE DEF led
<1>6. Typed(o, i, led)
  BY <1>1, <1>3 DEF Typed
<1>7. OwnEffort(o, led)
  BY <1>1, <1>4, <1>5 DEF OwnEffort
<1>8. SubEffort(o, i, led)
  BY <1>1, <1>4, Zenon DEF SubEffort
<1> QED BY <1>1, <1>6, <1>7, <1>8 DEF Sound, led

LEMMA RaiseFatalKeepsCalls ==
  ASSUME CallInv, NEW k \in Callers, RaiseFatalInner(k)
  PROVE  CallInv'
<1>1. Inner(k).pc = "running"
  BY DEF RaiseFatalInner, At, Inner
<1>2. Outer(k).pc = "waiting"
  BY <1>1, CallerFacts DEF Sound, Shape
<1>3. CASE LastAttempt(Outer(k))
  BY <1>3, LeaveKeepsCalls DEF RaiseFatalInner
<1>4. CASE ~LastAttempt(Outer(k))
  <2> DEFINE p   == Backoff(Outer(k))
             led == [spent[k] EXCEPT ![Inner(k).tool] = Fatal(spent[k][Inner(k).tool])]
  <2>1. SetCall(k, p, IdleFrame) /\ spent' = [spent EXCEPT ![k] = led]
    BY <1>4 DEF RaiseFatalInner
  <2>2. /\ p \in GoodFrame /\ p.pc = "backoff" /\ p.tool = Outer(k).tool
        /\ p.attempt = Outer(k).attempt /\ p.subs = Outer(k).subs
    BY <1>4, CallerFacts, BackoffTyped
  <2>3. Sound(p, IdleFrame, spent[k])
    BY <1>2, <2>2, CallerFacts, DropIsSound
  <2>4. Sound(p, IdleFrame, led)
    BY <2>2, <2>3, CallerFacts, FatalIsSound
  <2> HIDE DEF p, led
  <2>5. /\ call' \in [Callers -> [Levels -> GoodFrame]]
        /\ Outer(k)' = p /\ Inner(k)' = IdleFrame
        /\ \A c \in Callers : c # k => call'[c] = call[c]
    BY <2>1, <2>2, IdleFrameTyped, SetCallEffect
  <2>6. Sound(Outer(k)', Inner(k)', led)
    BY <2>4, <2>5
  <2> QED BY <2>1, <2>5, <2>6, OneCaller
<1> QED BY <1>3, <1>4

LEMMA RetryKeepsCalls ==
  ASSUME CallInv, NEW k \in Callers, NEW l \in Levels, Retry(k, l)
  PROVE  CallInv'
<1> DEFINE f   == NextAttempt(call[k][l])
           led == [spent[k] EXCEPT ![call[k][l].tool] = Invoked(spent[k][call[k][l].tool])]
<1>1. call[k][l].pc = "backoff" /\ SetFrame(k, l, f) /\ spent' = [spent EXCEPT ![k] = led]
  BY DEF Retry, At
<1>2. call[k][l] = IF l = "outer" THEN Outer(k) ELSE Inner(k)
  BY DEF Levels, Outer, Inner
<1>3. call[k][l] \in Frame /\ call[k][l].attempt < MaxAttempts
  BY <1>1, <1>2, CallerFacts DEF GoodFrame
<1>4. f \in GoodFrame
  BY <1>3, NextAttemptTyped
<1>5. Sound(IF l = "outer" THEN f ELSE Outer(k), IF l = "inner" THEN f ELSE Inner(k), led)
  <2>1. CASE l = "outer"
    <3>1. Sound(NextAttempt(Outer(k)), Inner(k),
                [spent[k] EXCEPT ![Outer(k).tool] = Invoked(spent[k][Outer(k).tool])])
      BY <1>1, <1>2, <2>1, CallerFacts, OuterRetryIsSound
    <3> QED BY <1>2, <2>1, <3>1
  <2>2. CASE l = "inner"
    <3>1. Sound(Outer(k), NextAttempt(Inner(k)),
                [spent[k] EXCEPT ![Inner(k).tool] = Invoked(spent[k][Inner(k).tool])])
      BY <1>1, <1>2, <2>2, CallerFacts, InnerRetryIsSound
    <3> QED BY <1>2, <2>2, <3>1
  <2> QED BY <2>1, <2>2 DEF Levels
<1> HIDE DEF f, led
<1>6. /\ call' \in [Callers -> [Levels -> GoodFrame]]
      /\ Outer(k)' = (IF l = "outer" THEN f ELSE Outer(k))
      /\ Inner(k)' = (IF l = "inner" THEN f ELSE Inner(k))
      /\ \A c \in Callers : c # k => call'[c] = call[c]
  BY <1>1, <1>4, SetFrameEffect
<1>7. Sound(Outer(k)', Inner(k)', led)
  BY <1>5, <1>6
<1> QED BY <1>1, <1>6, <1>7, OneCaller

LEMMA SubCallKeepsCalls ==
  ASSUME CallInv, NEW k \in Callers, NEW tool \in SubTools, SubCall(k, tool)
  PROVE  CallInv'
<1> DEFINE p   == Waiting(Outer(k))
           new == NewFrame(tool)
           led == [spent[k] EXCEPT ![tool] = Admitted(spent[k][tool])]
<1>1. /\ Outer(k).pc = "running" /\ Outer(k).tool \in Composite /\ Outer(k).subs < MaxSubCalls
      /\ SetCall(k, p, new) /\ spent' = [spent EXCEPT ![k] = led]
  BY DEF SubCall, MayCallSub, At, Outer
<1>2. tool \in Tools
  BY ToolsAssumption
<1>3. p \in GoodFrame /\ new \in GoodFrame
  BY <1>1, <1>2, CallerFacts, WaitingTyped, NewFrameTyped
<1>4. Sound(p, new, led)
  BY <1>1, CallerFacts, SubCallIsSound
<1> HIDE DEF p, new, led
<1>5. /\ call' \in [Callers -> [Levels -> GoodFrame]]
      /\ Outer(k)' = p /\ Inner(k)' = new
      /\ \A c \in Callers : c # k => call'[c] = call[c]
  BY <1>1, <1>3, SetCallEffect
<1>6. Sound(Outer(k)', Inner(k)', led)
  BY <1>4, <1>5
<1> QED BY <1>1, <1>5, <1>6, OneCaller

EngineInv == LimiterInv /\ CallInv

LEMMA EngineInvStep == EngineInv /\ [Next]_vars => EngineInv'
<1> SUFFICES ASSUME EngineInv, [Next]_vars PROVE EngineInv'
  OBVIOUS
<1>0. LimiterInv /\ CallInv
  BY DEF EngineInv
<1>q. UNCHANGED limiterVars => LimiterInv'
  BY <1>0 DEF limiterVars, LimiterInv, LimiterTypeOK, ClockInv, LevelBound, WindowBound, Refilled
<1>c. UNCHANGED <<call, spent>> => CallInv'
  BY <1>0 DEF CallInv, Outer, Inner
<1>1. ASSUME NEW k \in Callers, NEW tool \in Tools, NEW approved, LimitOuter(k, tool, approved)
      PROVE  EngineInv'
  BY <1>0, <1>c, <1>1, DenyKeepsLimiter DEF LimitOuter, EngineInv
<1>2. ASSUME NEW k \in Callers, NEW tool \in Tools, NEW approved, Start(k, tool, approved)
      PROVE  EngineInv'
  BY <1>0, <1>2, GrantKeepsLimiter, StartKeepsCalls DEF Start, EngineInv
<1>3. ASSUME NEW k \in Callers, FinishOuter(k) PROVE EngineInv'
  BY <1>0, <1>q, <1>3, LeaveKeepsCalls DEF FinishOuter, EngineInv
<1>4. ASSUME NEW k \in Callers, ReturnInner(k) PROVE EngineInv'
  BY <1>0, <1>q, <1>4, ReturnInnerKeepsCalls DEF ReturnInner, EngineInv
<1>5. ASSUME NEW k \in Callers, RaiseFatalInner(k) PROVE EngineInv'
  BY <1>0, <1>q, <1>5, RaiseFatalKeepsCalls DEF RaiseFatalInner, EngineInv
<1>6. ASSUME NEW k \in Callers, NEW l \in Levels, RaiseRetryable(k, l) PROVE EngineInv'
  BY <1>0, <1>q, <1>6, RaiseKeepsCalls DEF RaiseRetryable, EngineInv
<1>7. ASSUME NEW k \in Callers, NEW l \in Levels, Retry(k, l) PROVE EngineInv'
  BY <1>0, <1>q, <1>7, RetryKeepsCalls DEF Retry, EngineInv
<1>8. ASSUME NEW k \in Callers, NEW tool \in SubTools, SubCall(k, tool) PROVE EngineInv'
  <2>1. tool \in Tools
    BY ToolsAssumption
  <2> QED BY <1>0, <1>8, <2>1, GrantKeepsLimiter, SubCallKeepsCalls DEF SubCall, EngineInv
<1>9. ASSUME NEW k \in Callers, NEW tool \in SubTools, LimitSub(k, tool) PROVE EngineInv'
  <2>1. tool \in Tools
    BY ToolsAssumption
  <2>2. Outer(k).pc # "idle"
    BY <1>9 DEF LimitSub, MayCallSub, At, Outer
  <2> QED BY <1>0, <1>9, <2>1, <2>2, DenyKeepsLimiter, OuterRaisesKeepsCalls
          DEF LimitSub, EngineInv
<1>10. CASE Tick /\ UNCHANGED <<call, spent>>
  BY <1>0, <1>c, <1>10, TickKeepsLimiter DEF EngineInv
<1>11. CASE UNCHANGED vars
  BY <1>q, <1>c, <1>11 DEF vars, EngineInv, limiterVars
<1> QED BY <1>1, <1>2, <1>3, <1>4, <1>5, <1>6, <1>7, <1>8, <1>9, <1>10, <1>11
        DEF Next, Enter, Step

LEMMA EngineInvInit == Init => EngineInv
BY LimiterInvInit, CallInvInit DEF Init, EngineInv

LEMMA EngineInvImplies == EngineInv => TypeOK /\ WindowBound /\ EffortBounded
<1> SUFFICES ASSUME EngineInv PROVE TypeOK /\ WindowBound /\ EffortBounded
  OBVIOUS
<1>1. WindowBound /\ LimiterTypeOK
  BY DEF EngineInv, LimiterInv
<1>2. TypeOK
  BY <1>1 DEF EngineInv, CallInv, GoodFrame, TypeOK
<1>3. ASSUME NEW k \in Callers, NEW tool \in Tools
      PROVE  /\ spent[k][tool].tries <= MaxAttempts * spent[k][tool].tokens
             /\ spent[k][tool].tokens <= 1 + MaxAttempts * MaxSubCalls
  <2> DEFINE o == Outer(k)
             i == Inner(k)
             e == spent[k][tool]
  <2>1. Typed(o, i, spent[k]) /\ OwnEffort(o, spent[k]) /\ SubEffort(o, i, spent[k])
    BY DEF EngineInv, CallInv, Sound
  <2>2. /\ e.tries \in Nat /\ e.tokens \in Nat /\ MaxSubCalls \in Nat
        /\ o.attempt \in 0..MaxAttempts /\ o.subs \in 0..MaxSubCalls
    BY <2>1, ToolsAssumption DEF Typed, Effort, GoodFrame, Frame
  <2> HIDE DEF o, i
  <2>3. CASE o.pc = "idle"
    <3>1. e.tries = 0 /\ e.tokens = 0
      BY <2>1, <2>3 DEF OwnEffort, NothingSpent, NoEffort
    <3> QED BY <2>2, <3>1 DEF MaxAttempts
  <2>4. CASE o.pc # "idle" /\ tool = o.tool
    <3>1. e.tries = o.attempt /\ e.tokens = 1
      BY <2>1, <2>4 DEF OwnEffort
    <3> QED BY <2>2, <3>1 DEF MaxAttempts
  <2>5. CASE o.pc # "idle" /\ tool # o.tool
    <3>1. /\ e.tries + Owed(i, tool) <= MaxAttempts * e.tokens
          /\ e.tokens <= (o.attempt - 1) * MaxSubCalls + o.subs
      BY <2>1, <2>5 DEF SubEffort
    <3>2. Owed(i, tool) \in Nat
      BY <2>1 DEF Typed, GoodFrame, Frame, Owed, MaxAttempts
    <3>3. (o.attempt - 1) * MaxSubCalls <= 2 * MaxSubCalls
      <4>1. o.attempt \in {0, 1, 2, 3}
        BY <2>2 DEF MaxAttempts
      <4> QED BY <2>2, <4>1
    <3>4. (o.attempt - 1) * MaxSubCalls \in Int
      BY <2>2
    <3> QED BY <2>2, <3>1, <3>2, <3>3, <3>4 DEF MaxAttempts
  <2> QED BY <2>3, <2>4, <2>5
<1> QED BY <1>1, <1>2, <1>3 DEF EffortBounded

(***************************************************************************)
(* The engine is type correct for every set of tools and callers: buckets   *)
(* stay between empty and full, and no call makes a fourth attempt.         *)
(***************************************************************************)
THEOREM EngineTypeCorrect == Spec => []TypeOK
BY EngineInvInit, EngineInvStep, EngineInvImplies, PTL DEF Spec

(***************************************************************************)
(* The token bucket bounds the calls granted in every window of time, for   *)
(* every rate and clock, although the level is only computed when asked.    *)
(***************************************************************************)
THEOREM WindowsBounded == Spec => []WindowBound
BY EngineInvInit, EngineInvStep, EngineInvImplies, PTL DEF Spec

(***************************************************************************)
(* However calls nest and fail, three invocations per token and one token   *)
(* per sub-call of each of three attempts are the most a call costs.        *)
(***************************************************************************)
THEOREM EffortAlwaysBounded == Spec => []EffortBounded
BY EngineInvInit, EngineInvStep, EngineInvImplies, PTL DEF Spec

-----------------------------------------------------------------------------
(* Every call is finite: the safety half of CallsEnd.                       *)

\* The steps before the nested call is over: two for every attempt to come, one
\* for the present one.
InnerLeft(i) ==
  IF i.pc = "idle" THEN 0
  ELSE 2 * (MaxAttempts - i.attempt) + (IF i.pc = "backoff" THEN 0 ELSE 1)

\* A nested call is six steps of the attempt that makes it, with the one that
\* makes it; an attempt is all its nested calls and two steps of its own.
SubsLeft(o) == 6 * (MaxSubCalls - o.subs)

OuterLeft(o) ==
  IF o.pc = "idle" THEN 0
  ELSE (MaxAttempts - o.attempt) * (6 * MaxSubCalls + 2) + SubsLeft(o)
       + (IF o.pc = "backoff" THEN 0 ELSE 1)

StepsLeft(k) == OuterLeft(Outer(k)) + InnerLeft(Inner(k))

MostSteps == 18 * MaxSubCalls + 10

\* What a step of k does to the call it has under way.
NearerTheEnd(k) == StepsLeft(k)' < StepsLeft(k)

Shrinking(k) ==
  At(k, "outer", "idle") \/ call'[k] = call[k] \/ (Step(k) /\ NearerTheEnd(k))

LEMMA AttemptsLeft ==
  ASSUME NEW f \in GoodFrame, f.pc # "idle" => f.attempt >= 1
  PROVE  /\ f.pc \in {"idle", "running", "waiting", "backoff"}
         /\ f.subs \in 0..MaxSubCalls /\ MaxSubCalls \in Nat
         /\ f.pc # "idle" => f.attempt \in {1, 2, 3}
         /\ f.pc = "backoff" => f.attempt \in {1, 2}
BY ToolsAssumption DEF GoodFrame, Frame, MaxAttempts

LEMMA InnerRange ==
  ASSUME NEW i \in GoodFrame, i.pc # "idle" => i.attempt >= 1
  PROVE  /\ InnerLeft(i) \in 0..5
         /\ i.pc # "idle" => InnerLeft(i) > 0
<1>1. CASE i.pc = "idle"
  BY <1>1 DEF InnerLeft
<1>2. CASE i.pc = "backoff"
  BY <1>2, AttemptsLeft DEF InnerLeft, MaxAttempts
<1>3. CASE i.pc \in {"running", "waiting"}
  BY <1>3, AttemptsLeft DEF InnerLeft, MaxAttempts
<1> QED BY <1>1, <1>2, <1>3, AttemptsLeft

\* What is left of an outer call, attempt by attempt.
LEMMA OuterCount ==
  ASSUME NEW o \in GoodFrame, o.pc # "idle" => o.attempt >= 1
  PROVE  LET own == IF o.pc = "backoff" THEN 0 ELSE 1
         IN  /\ o.pc = "idle" => OuterLeft(o) = 0
             /\ o.pc # "idle" /\ o.attempt = 1 =>
                  OuterLeft(o) = 12 * MaxSubCalls + 4 + SubsLeft(o) + own
             /\ o.pc # "idle" /\ o.attempt = 2 =>
                  OuterLeft(o) = 6 * MaxSubCalls + 2 + SubsLeft(o) + own
             /\ o.pc # "idle" /\ o.attempt = 3 => OuterLeft(o) = SubsLeft(o) + own
             /\ SubsLeft(o) \in 0..(6 * MaxSubCalls)
<1>1. SubsLeft(o) \in 0..(6 * MaxSubCalls)
  BY AttemptsLeft DEF SubsLeft
<1>2. ASSUME o.pc # "idle", NEW n \in {1, 2, 3}, o.attempt = n
      PROVE  OuterLeft(o) = (3 - n) * (6 * MaxSubCalls + 2) + SubsLeft(o)
                            + (IF o.pc = "backoff" THEN 0 ELSE 1)
  BY <1>2 DEF OuterLeft, MaxAttempts
<1>3. MaxSubCalls \in Nat
  BY ToolsAssumption
<1>4. CASE o.pc = "idle"
  BY <1>1, <1>4 DEF OuterLeft
<1>5. CASE o.pc # "idle" /\ o.attempt = 1
  <2>1. (3 - 1) * (6 * MaxSubCalls + 2) = 12 * MaxSubCalls + 4
    BY <1>3
  <2> QED BY <1>1, <1>2, <1>5, <2>1
<1>6. CASE o.pc # "idle" /\ o.attempt = 2
  <2>1. (3 - 2) * (6 * MaxSubCalls + 2) = 6 * MaxSubCalls + 2
    BY <1>3
  <2> QED BY <1>1, <1>2, <1>6, <2>1
<1>7. CASE o.pc # "idle" /\ o.attempt = 3
  <2>1. (3 - 3) * (6 * MaxSubCalls + 2) = 0
    BY <1>3
  <2> QED BY <1>1, <1>2, <1>3, <1>7, <2>1
<1> QED BY <1>1, <1>4, <1>5, <1>6, <1>7, AttemptsLeft

LEMMA OuterRange ==
  ASSUME NEW o \in GoodFrame, o.pc # "idle" => o.attempt >= 1
  PROVE  /\ OuterLeft(o) \in 0..(18 * MaxSubCalls + 5)
         /\ o.pc \in {"running", "waiting"} => OuterLeft(o) > 0
<1>1. CASE o.pc = "idle"
  BY <1>1, OuterCount, AttemptsLeft
<1>2. CASE o.pc # "idle" /\ o.attempt = 1
  BY <1>2, OuterCount, AttemptsLeft
<1>3. CASE o.pc # "idle" /\ o.attempt = 2
  BY <1>3, OuterCount, AttemptsLeft
<1>4. CASE o.pc # "idle" /\ o.attempt = 3
  BY <1>4, OuterCount, AttemptsLeft
<1> QED BY <1>1, <1>2, <1>3, <1>4, AttemptsLeft

\* What is left of a frame after each of the updates that the steps make.
LEMMA UpdatesShrink ==
  ASSUME NEW f \in GoodFrame, f.pc # "idle", f.attempt >= 1
  PROVE  /\ f.pc \in {"running", "waiting"} /\ ~LastAttempt(f) =>
              OuterLeft(Backoff(f)) < OuterLeft(f) /\ InnerLeft(Backoff(f)) < InnerLeft(f)
         /\ f.pc = "backoff" =>
              /\ OuterLeft(NextAttempt(f)) < OuterLeft(f)
              /\ InnerLeft(NextAttempt(f)) < InnerLeft(f)
         /\ f.pc = "waiting" => OuterLeft(Resumed(f)) = OuterLeft(f)
         /\ f.pc = "running" /\ f.subs < MaxSubCalls =>
              OuterLeft(Waiting(f)) = OuterLeft(f) - 6
<1>0. f \in Frame
  BY DEF GoodFrame
<1>1. ASSUME f.pc \in {"running", "waiting"}, ~LastAttempt(f)
      PROVE  OuterLeft(Backoff(f)) < OuterLeft(f) /\ InnerLeft(Backoff(f)) < InnerLeft(f)
  <2> DEFINE b == Backoff(f)
  <2>1. /\ b \in GoodFrame /\ b.pc = "backoff" /\ b.attempt = f.attempt /\ b.subs = f.subs
    BY <1>0, <1>1, BackoffTyped
  <2>2. SubsLeft(b) = SubsLeft(f)
    BY <2>1 DEF SubsLeft
  <2> HIDE DEF b
  <2>3. OuterLeft(b) < OuterLeft(f)
    <3>1. CASE f.attempt = 1
      BY <1>1, <2>1, <2>2, <3>1, OuterCount, AttemptsLeft
    <3>2. CASE f.attempt = 2
      BY <1>1, <2>1, <2>2, <3>2, OuterCount, AttemptsLeft
    <3> QED BY <2>1, <3>1, <3>2, AttemptsLeft
  <2>4. InnerLeft(b) < InnerLeft(f)
    BY <1>1, <2>1, AttemptsLeft DEF InnerLeft, MaxAttempts
  <2> QED BY <2>3, <2>4 DEF b
<1>2. ASSUME f.pc = "backoff"
      PROVE  /\ OuterLeft(NextAttempt(f)) < OuterLeft(f)
             /\ InnerLeft(NextAttempt(f)) < InnerLeft(f)
  <2> DEFINE n == NextAttempt(f)
  <2>1. /\ n \in GoodFrame /\ n.pc = "running" /\ n.attempt = f.attempt + 1 /\ n.subs = 0
        /\ f.attempt \in {1, 2}
    BY <1>0, <1>2, NextAttemptTyped, AttemptsLeft DEF GoodFrame
  <2>2. SubsLeft(n) = 6 * MaxSubCalls /\ MaxSubCalls \in Nat
    BY <2>1, ToolsAssumption DEF SubsLeft
  <2> HIDE DEF n
  <2>3. OuterLeft(n) < OuterLeft(f)
    <3>1. CASE f.attempt = 1
      <4>1. /\ OuterLeft(n) = 6 * MaxSubCalls + 2 + SubsLeft(n) + 1
            /\ OuterLeft(f) = 12 * MaxSubCalls + 4 + SubsLeft(f) + 0
            /\ SubsLeft(f) \in 0..(6 * MaxSubCalls)
        BY <1>2, <2>1, <3>1, OuterCount
      <4> QED BY <2>2, <4>1
    <3>2. CASE f.attempt = 2
      <4>1. /\ OuterLeft(n) = SubsLeft(n) + 1
            /\ OuterLeft(f) = 6 * MaxSubCalls + 2 + SubsLeft(f) + 0
            /\ SubsLeft(f) \in 0..(6 * MaxSubCalls)
        BY <1>2, <2>1, <3>2, OuterCount
      <4> QED BY <2>2, <4>1
    <3> QED BY <2>1, <3>1, <3>2
  <2>4. InnerLeft(n) < InnerLeft(f)
    BY <1>2, <2>1 DEF InnerLeft, MaxAttempts
  <2> QED BY <2>3, <2>4 DEF n
<1>3. ASSUME f.pc = "waiting" PROVE OuterLeft(Resumed(f)) = OuterLeft(f)
  <2> DEFINE r == Resumed(f)
  <2>1. r.pc = "running" /\ r.attempt = f.attempt /\ r.subs = f.subs
    BY <1>0, ResumedTyped
  <2> HIDE DEF r
  <2>2. OuterLeft(r) = OuterLeft(f)
    BY <1>3, <2>1 DEF OuterLeft, SubsLeft
  <2> QED BY <2>2 DEF r
<1>4. ASSUME f.pc = "running", f.subs < MaxSubCalls
      PROVE  OuterLeft(Waiting(f)) = OuterLeft(f) - 6
  <2> DEFINE w == Waiting(f)
  <2>1. w \in GoodFrame /\ w.pc = "waiting" /\ w.attempt = f.attempt /\ w.subs = f.subs + 1
    BY <1>0, <1>4, WaitingTyped
  <2>2. SubsLeft(w) = SubsLeft(f) - 6 /\ SubsLeft(f) \in Int
    BY <2>1, AttemptsLeft DEF SubsLeft
  <2> HIDE DEF w
  <2>3. CASE f.attempt = 1
    BY <1>4, <2>1, <2>2, <2>3, OuterCount, AttemptsLeft DEF w
  <2>4. CASE f.attempt = 2
    BY <1>4, <2>1, <2>2, <2>4, OuterCount, AttemptsLeft DEF w
  <2>5. CASE f.attempt = 3
    BY <1>4, <2>1, <2>2, <2>5, OuterCount, AttemptsLeft DEF w
  <2> QED BY <2>3, <2>4, <2>5, AttemptsLeft
<1> QED BY <1>1, <1>2, <1>3, <1>4

\* The counts of the caller that steps.
LEMMA CallerCounts ==
  ASSUME CallInv, NEW k \in Callers
  PROVE  /\ Outer(k) \in GoodFrame /\ Inner(k) \in GoodFrame
         /\ Outer(k).pc # "idle" => Outer(k).attempt >= 1
         /\ Inner(k).pc # "idle" => Inner(k).attempt >= 1
         /\ Outer(k).pc = "waiting" <=> Inner(k).pc # "idle"
         /\ OuterLeft(Outer(k)) \in 0..(18 * MaxSubCalls + 5)
         /\ Outer(k).pc \in {"running", "waiting"} => OuterLeft(Outer(k)) > 0
         /\ InnerLeft(Inner(k)) \in 0..5
         /\ Inner(k).pc # "idle" => InnerLeft(Inner(k)) > 0
         /\ OuterLeft(IdleFrame) = 0 /\ InnerLeft(IdleFrame) = 0
<1>1. /\ Outer(k) \in GoodFrame /\ Inner(k) \in GoodFrame
      /\ Outer(k).pc # "idle" => Outer(k).attempt >= 1
      /\ Outer(k).pc = "waiting" <=> Inner(k).pc # "idle"
      /\ Inner(k).pc # "idle" => Inner(k).attempt >= 1
  BY DEF CallInv, Sound, Typed, Shape
<1>2. OuterLeft(IdleFrame) = 0 /\ InnerLeft(IdleFrame) = 0
  BY DEF OuterLeft, InnerLeft, IdleFrame
<1> QED BY <1>1, <1>2, OuterRange, InnerRange

LEMMA CallBound == CallInv => \A k \in Callers : StepsLeft(k) \in 0..MostSteps
<1> SUFFICES ASSUME CallInv, NEW k \in Callers PROVE StepsLeft(k) \in 0..MostSteps
  OBVIOUS
<1> DEFINE o == OuterLeft(Outer(k))
           i == InnerLeft(Inner(k))
<1>1. o \in 0..(18 * MaxSubCalls + 5) /\ i \in 0..5 /\ MaxSubCalls \in Nat
  BY CallerCounts, ToolsAssumption
<1> HIDE DEF o, i
<1>2. o + i \in 0..(18 * MaxSubCalls + 10)
  BY <1>1
<1> QED BY <1>2 DEF StepsLeft, MostSteps, o, i

LEMMA LeaveShrinks ==
  ASSUME CallInv, NEW k \in Callers, Outer(k).pc \in {"running", "waiting"}, Leave(k)
  PROVE  NearerTheEnd(k)
<1>1. Outer(k)' = IdleFrame /\ Inner(k)' = IdleFrame
  BY IdleFrameTyped, SetCallEffect DEF Leave
<1>2. StepsLeft(k)' = OuterLeft(IdleFrame) + InnerLeft(IdleFrame)
  BY <1>1 DEF StepsLeft, OuterLeft, InnerLeft, SubsLeft
<1>3. /\ OuterLeft(Outer(k)) \in Int /\ OuterLeft(Outer(k)) > 0
      /\ InnerLeft(Inner(k)) \in Nat
      /\ OuterLeft(IdleFrame) = 0 /\ InnerLeft(IdleFrame) = 0
  BY CallerCounts
<1>4. StepsLeft(k)' = 0 /\ StepsLeft(k) > 0
  BY <1>2, <1>3 DEF StepsLeft
<1> QED BY <1>4 DEF NearerTheEnd

\* An update of the two frames whose counts are known.
LEMMA FramesShrink ==
  ASSUME CallInv, NEW k \in Callers, NEW p, NEW q, Outer(k)' = p, Inner(k)' = q,
         OuterLeft(p) + InnerLeft(q) < OuterLeft(Outer(k)) + InnerLeft(Inner(k))
  PROVE  NearerTheEnd(k)
<1>1. StepsLeft(k)' = OuterLeft(p) + InnerLeft(q)
  BY DEF StepsLeft, OuterLeft, InnerLeft, SubsLeft
<1> QED BY <1>1 DEF NearerTheEnd, StepsLeft

LEMMA BackingOffShrinks ==
  ASSUME CallInv, NEW k \in Callers, Outer(k).pc \in {"running", "waiting"},
         ~LastAttempt(Outer(k)), SetCall(k, Backoff(Outer(k)), IdleFrame)
  PROVE  NearerTheEnd(k)
<1> DEFINE p == Backoff(Outer(k))
<1>1. p \in GoodFrame
  BY CallerFacts, BackoffTyped
<1>2. Outer(k)' = p /\ Inner(k)' = IdleFrame
  BY <1>1, IdleFrameTyped, SetCallEffect
<1>3. OuterLeft(p) < OuterLeft(Outer(k))
  BY CallerCounts, UpdatesShrink
<1>4. p.pc # "idle" => p.attempt >= 1
  BY CallerCounts, CallerFacts, BackoffTyped
<1>5. OuterLeft(p) \in Int
  BY <1>1, <1>4, OuterRange
<1> HIDE DEF p
<1>6. /\ OuterLeft(Outer(k)) \in Int /\ InnerLeft(Inner(k)) \in Nat
      /\ InnerLeft(IdleFrame) = 0
  BY CallerCounts
<1>7. OuterLeft(p) + InnerLeft(IdleFrame) < OuterLeft(Outer(k)) + InnerLeft(Inner(k))
  BY <1>3, <1>5, <1>6
<1> QED BY <1>2, <1>7, FramesShrink

LEMMA OuterRaisesShrinks ==
  ASSUME CallInv, NEW k \in Callers, Outer(k).pc \in {"running", "waiting"}, OuterRaises(k)
  PROVE  NearerTheEnd(k)
BY LeaveShrinks, BackingOffShrinks DEF OuterRaises

\* Every step of a caller with a call under way brings it nearer its end.
LEMMA StepShrinks ==
  ASSUME CallInv, NEW k \in Callers, Step(k)
  PROVE  NearerTheEnd(k)
<1> DEFINE o == Outer(k)
           i == Inner(k)
<1>0. /\ o \in GoodFrame /\ i \in GoodFrame /\ o \in Frame /\ i \in Frame
      /\ o.pc # "idle" => o.attempt >= 1
      /\ i.pc # "idle" => i.attempt >= 1
      /\ o.pc = "waiting" <=> i.pc # "idle"
      /\ OuterLeft(o) \in Int /\ InnerLeft(i) \in Nat /\ InnerLeft(IdleFrame) = 0
      /\ i.pc # "idle" => InnerLeft(i) > 0
  BY CallerCounts, CallerFacts
<1>1. CASE FinishOuter(k)
  BY <1>1, LeaveShrinks DEF FinishOuter, At, Outer
<1>2. CASE ReturnInner(k)
  <2> DEFINE p == Resumed(o)
  <2>1. i.pc = "running" /\ SetCall(k, p, IdleFrame)
    BY <1>2 DEF ReturnInner, At, Inner
  <2>2. p \in GoodFrame
    BY <1>0, ResumedTyped
  <2>3. Outer(k)' = p /\ Inner(k)' = IdleFrame
    BY <2>1, <2>2, IdleFrameTyped, SetCallEffect
  <2>4. OuterLeft(p) = OuterLeft(o)
    BY <1>0, <2>1, UpdatesShrink
  <2> HIDE DEF p
  <2>5. OuterLeft(p) + InnerLeft(IdleFrame) < OuterLeft(o) + InnerLeft(i)
    BY <1>0, <2>1, <2>4
  <2> QED BY <2>3, <2>5, FramesShrink
<1>3. CASE RaiseFatalInner(k)
  <2>1. o.pc = "waiting"
    BY <1>0, <1>3 DEF RaiseFatalInner, At, Inner
  <2>2. Leave(k) \/ (~LastAttempt(o) /\ SetCall(k, Backoff(o), IdleFrame))
    BY <1>3 DEF RaiseFatalInner
  <2> QED BY <2>1, <2>2, LeaveShrinks, BackingOffShrinks
<1>4. ASSUME NEW l \in Levels, RaiseRetryable(k, l) PROVE NearerTheEnd(k)
  <2>1. CASE l = "outer"
    BY <1>4, <2>1, OuterRaisesShrinks DEF RaiseRetryable, At, Outer
  <2>2. CASE l = "inner"
    <3>1. i.pc = "running" /\ call[k][l] = i /\ l # "outer" /\ o.pc = "waiting"
      BY <1>0, <1>4, <2>2 DEF RaiseRetryable, At, Inner
    <3>2. CASE LastAttempt(i)
      BY <1>4, <3>1, <3>2, OuterRaisesShrinks DEF RaiseRetryable
    <3>3. CASE ~LastAttempt(i)
      <4> DEFINE q == Backoff(i)
      <4>1. SetFrame(k, l, q)
        BY <1>4, <3>1, <3>3 DEF RaiseRetryable
      <4>2. q \in GoodFrame /\ q.pc = "backoff" /\ q.attempt = i.attempt
        BY <1>0, <3>3, BackoffTyped
      <4>3. Outer(k)' = o /\ Inner(k)' = q
        BY <2>2, <3>1, <4>1, <4>2, SetFrameEffect
      <4>4. InnerLeft(q) < InnerLeft(i)
        BY <1>0, <3>1, <3>3, UpdatesShrink
      <4>5. InnerLeft(q) \in Nat
        BY <1>0, <3>1, <4>2, InnerRange
      <4> HIDE DEF q
      <4>6. OuterLeft(o) + InnerLeft(q) < OuterLeft(o) + InnerLeft(i)
        BY <1>0, <4>4, <4>5
      <4> QED BY <4>3, <4>6, FramesShrink
    <3> QED BY <3>2, <3>3
  <2> QED BY <2>1, <2>2 DEF Levels
<1>5. ASSUME NEW l \in Levels, Retry(k, l) PROVE NearerTheEnd(k)
  <2> DEFINE f == call[k][l]
             n == NextAttempt(f)
  <2>1. f.pc = "backoff" /\ SetFrame(k, l, n)
    BY <1>5 DEF Retry, At
  <2>2. f = IF l = "outer" THEN o ELSE i
    BY DEF Levels, Outer, Inner
  <2>3. f \in GoodFrame /\ f \in Frame /\ f.attempt >= 1 /\ f.attempt < MaxAttempts
    BY <1>0, <2>1, <2>2 DEF GoodFrame
  <2>4. n \in GoodFrame /\ n.attempt >= 1
    BY <2>3, NextAttemptTyped DEF Frame
  <2>5. OuterLeft(n) < OuterLeft(f) /\ InnerLeft(n) < InnerLeft(f)
    BY <2>1, <2>3, UpdatesShrink
  <2>6. OuterLeft(n) \in Int /\ InnerLeft(n) \in Int
    BY <2>4, OuterRange, InnerRange
  <2> HIDE DEF n
  <2>7. CASE l = "outer"
    <3>1. Outer(k)' = n /\ Inner(k)' = i /\ f = o
      BY <2>1, <2>2, <2>4, <2>7, SetFrameEffect
    <3>2. OuterLeft(n) + InnerLeft(i) < OuterLeft(o) + InnerLeft(i)
      BY <1>0, <2>5, <2>6, <3>1
    <3> QED BY <3>1, <3>2, FramesShrink
  <2>8. CASE l = "inner"
    <3>1. Outer(k)' = o /\ Inner(k)' = n /\ f = i
      BY <2>1, <2>2, <2>4, <2>8, SetFrameEffect
    <3>2. OuterLeft(o) + InnerLeft(n) < OuterLeft(o) + InnerLeft(i)
      BY <1>0, <2>5, <2>6, <3>1
    <3> QED BY <3>1, <3>2, FramesShrink
  <2> QED BY <2>7, <2>8 DEF Levels
<1>6. ASSUME NEW tool \in SubTools, SubCall(k, tool) PROVE NearerTheEnd(k)
  <2> DEFINE p   == Waiting(o)
             new == NewFrame(tool)
  <2>1. /\ o.pc = "running" /\ o.subs < MaxSubCalls /\ SetCall(k, p, new)
    BY <1>6 DEF SubCall, MayCallSub, At, Outer
  <2>2. tool \in Tools
    BY ToolsAssumption
  <2>3. p \in GoodFrame /\ new \in GoodFrame /\ new.attempt = 1
    BY <1>0, <2>1, <2>2, WaitingTyped, NewFrameTyped
  <2>4. Outer(k)' = p /\ Inner(k)' = new
    BY <2>1, <2>3, SetCallEffect
  <2>5. OuterLeft(p) = OuterLeft(o) - 6
    BY <1>0, <2>1, UpdatesShrink
  <2>6. InnerLeft(new) \in 0..5
    BY <2>3, InnerRange
  <2> HIDE DEF p, new
  <2>7. OuterLeft(p) + InnerLeft(new) < OuterLeft(o) + InnerLeft(i)
    BY <1>0, <2>5, <2>6
  <2> QED BY <2>4, <2>7, FramesShrink
<1>7. ASSUME NEW tool \in SubTools, LimitSub(k, tool) PROVE NearerTheEnd(k)
  BY <1>7, OuterRaisesShrinks DEF LimitSub, MayCallSub, At, Outer
<1> QED BY <1>1, <1>2, <1>3, <1>4, <1>5, <1>6, <1>7 DEF Step

\* A step of one caller leaves the calls of the others alone.
LEMMA OthersUntouched ==
  ASSUME CallInv, NEW c \in Callers, NEW k \in Callers, c # k, Enter(c) \/ Step(c)
  PROVE  call'[k] = call[k]
<1>1. \/ UNCHANGED call
      \/ \E p, q : SetCall(c, p, q)
      \/ \E l, f : SetFrame(c, l, f)
  BY DEF Enter, LimitOuter, Start, Step, FinishOuter, Leave, ReturnInner, RaiseFatalInner,
         RaiseRetryable, OuterRaises, Retry, SubCall, LimitSub
<1>2. \A x : call' = [call EXCEPT ![c] = x] => call'[k] = call[k]
  BY DEF CallInv
<1> QED BY <1>1, <1>2 DEF SetCall, SetFrame

LEMMA ShrinkingStep ==
  ASSUME EngineInv, [Next]_vars, NEW k \in Callers
  PROVE  Shrinking(k)
<1>0. CallInv
  BY DEF EngineInv
<1>1. CASE Step(k)
  BY <1>0, <1>1, StepShrinks DEF Shrinking
<1>2. CASE Enter(k)
  BY <1>2 DEF Enter, LimitOuter, Start, Shrinking
<1>3. ASSUME NEW c \in Callers, c # k, Enter(c) \/ Step(c) PROVE Shrinking(k)
  BY <1>0, <1>3, OthersUntouched DEF Shrinking
<1>4. CASE UNCHANGED call
  BY <1>4 DEF Shrinking
<1> QED BY <1>1, <1>2, <1>3, <1>4 DEF Next, vars

(***************************************************************************)
(* A call of execute() under way has at most 18 * MaxSubCalls + 10 steps    *)
(* left, each of its steps leaves fewer, and no other caller gives it more: *)
(* retries of nested calls inside retries of the outer one, refused tokens  *)
(* and errors that turn retryable do not add up to a loop.                  *)
(***************************************************************************)
THEOREM CallsAreFinite ==
  Spec => /\ [](\A k \in Callers : StepsLeft(k) \in 0..MostSteps)
          /\ [][\A k \in Callers : Shrinking(k)]_vars
<1>1. EngineInv => \A k \in Callers : StepsLeft(k) \in 0..MostSteps
  BY CallBound DEF EngineInv
<1>2. EngineInv /\ [Next]_vars => [\A k \in Callers : Shrinking(k)]_vars
  BY ShrinkingStep
<1> QED BY <1>1, <1>2, EngineInvInit, EngineInvStep, PTL DEF Spec
=============================================================================
