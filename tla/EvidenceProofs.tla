----------------------------- MODULE EvidenceProofs -----------------------------
(***************************************************************************)
(* What the research run, the fact check and the model router promise, for  *)
(* claims, pages and criteria of any number.                                *)
(***************************************************************************)
EXTENDS AgentTools, Research, FactCheck, FiniteSetTheorems, TLAPS

(***************************************************************************)
(* The model router.                                                        *)
(***************************************************************************)

(***************************************************************************)
(* _select_class never answers a request that is harder in some of the      *)
(* signals it reads, and easier in none, with a weaker class of model.      *)
(***************************************************************************)
THEOREM RoutingMonotone ==
  \A c, d \in Criteria : NoHarder(c, d) => Rank(SelectClass(c)) <= Rank(SelectClass(d))
<1> SUFFICES ASSUME NEW c \in Criteria, NEW d \in Criteria, NoHarder(c, d)
             PROVE  Rank(SelectClass(c)) <= Rank(SelectClass(d))
  OBVIOUS
<1>1. /\ Rank("fast") = 0 /\ Rank("tool_calling") = 1 /\ Rank("reasoning") = 2 /\ Rank("strongest") = 3
      /\ Rank("simple") = 0 /\ Rank("moderate") = 1 /\ Rank("complex") = 2
      /\ Rank("low") = 0 /\ Rank("medium") = 1 /\ Rank("high") = 2
  BY DEF Rank
<1>2. /\ c.complexity = "complex" => d.complexity = "complex"
      /\ c.risk = "high" => d.risk = "high"
  BY <1>1 DEF NoHarder, Criteria, Complexities, Risks
<1>3. /\ c.tools => d.tools
      /\ c.conflicting => d.conflicting
      /\ c.ambiguous => d.ambiguous
      /\ c.steps <= d.steps /\ c.steps \in Nat /\ d.steps \in Nat
  BY DEF NoHarder, Criteria
<1>4. SelectClass(d) \in {"fast", "tool_calling", "reasoning", "strongest"}
  BY DEF SelectClass
<1>5. CASE SelectClass(c) = "strongest"
  <2>1. SelectClass(d) = "strongest"
    BY <1>2, <1>3, <1>5 DEF SelectClass
  <2> QED BY <1>1, <1>5, <2>1
<1>6. CASE SelectClass(c) = "reasoning"
  <2>1. SelectClass(d) \in {"reasoning", "strongest"}
    BY <1>2, <1>3, <1>6 DEF SelectClass
  <2> QED BY <1>1, <1>6, <2>1
<1>7. CASE SelectClass(c) = "tool_calling"
  <2>1. SelectClass(d) # "fast"
    BY <1>3, <1>7 DEF SelectClass
  <2> QED BY <1>1, <1>4, <1>7, <2>1
<1>8. CASE SelectClass(c) = "fast"
  BY <1>1, <1>4, <1>8
<1> QED BY <1>5, <1>6, <1>7, <1>8 DEF SelectClass

(***************************************************************************)
(* A request that needs tools is never given to a model of the fast class,  *)
(* which has none.                                                          *)
(***************************************************************************)
THEOREM ToolsAreServed == \A c \in Criteria : c.tools => Rank(SelectClass(c)) >= 1
BY DEF SelectClass, Rank

-----------------------------------------------------------------------------
(***************************************************************************)
(* The fact check.  The inductive invariant: the results are those of the   *)
(* claims before the one at hand, the lists of evidence hold pages that     *)
(* spoke for or against the claim at hand in this attempt, and what spoke   *)
(* is in them.                                                              *)
(***************************************************************************)
Recorded ==
  /\ Len(results) = claim - 1
  /\ IF phase = "done" THEN claim = NClaims + 1 ELSE claim <= NClaims
  /\ \A o \in observed : o[1] <= claim
  /\ Cites(pro, claim, "supports") /\ Cites(con, claim, "contradicts")
  /\ Spoke(claim, "supports") => pro # <<>>
  /\ Spoke(claim, "contradicts") => con # <<>>

Reported ==
  \A n \in 1..Len(results) :
    /\ results[n].claim = n
    /\ Cites(results[n].evidence, n, "supports")
    /\ Cites(results[n].contradicting, n, "contradicts")

FactInv == FactTypeOK /\ Recorded /\ Reported /\ VerdictFollows

\* The claims are of a number.
LEMMA ClaimCount == NClaims \in Nat /\ NClaims >= 1
  /\ \A n \in 1..NClaims : OwnSource[n] \in Pages \cup {NoUrl}
BY FactCheckAssumption DEF NClaims

\* The confidence is one, and that of a disputed claim is under 0.9.
LEMMA ConfidenceBounds ==
  ASSUME NEW p \in Nat, NEW c \in Nat
  PROVE  /\ Confidence(Verdict(p, c), p, c) \in Confidences
         /\ c > 0 /\ p > 0 => Confidence(Verdict(p, c), p, c) < 900
<1>1. CASE c > 0
  <2> DEFINE q == (600 * c) \div (c + p)
  <2>1. q \in Nat /\ (c + p) * q <= 600 * c
    BY <1>1
  <2>2. q <= 600
    <3>1. SUFFICES ASSUME q >= 601 PROVE FALSE
      BY <2>1
    <3>2. (c + p) * q >= (c + p) * 601
      BY <1>1, <2>1, <3>1
    <3> QED BY <1>1, <2>1, <3>2
  <2>3. p > 0 => q < 600
    <3>1. SUFFICES ASSUME p > 0, q >= 600 PROVE FALSE
      BY <2>1
    <3>2. (c + p) * q >= (c + p) * 600
      BY <1>1, <2>1, <3>1
    <3> QED BY <1>1, <2>1, <3>1, <3>2
  <2>4. Confidence(Verdict(p, c), p, c) = 300 + q
    BY <1>1 DEF Confidence, Verdict
  <2> HIDE DEF q
  <2>5. 300 + q \in Confidences
    BY <2>1, <2>2 DEF Confidences
  <2> QED BY <2>1, <2>3, <2>4, <2>5
<1>2. CASE c = 0
  <2>1. CASE p = 0
    <3>1. Confidence(Verdict(p, c), p, c) = 0
      BY <1>2, <2>1 DEF Confidence, Verdict
    <3> QED BY <1>2, <3>1 DEF Confidences
  <2>2. CASE p >= 3
    <3>1. Confidence(Verdict(p, c), p, c) = 900
      BY <1>2, <2>2 DEF Confidence, Verdict
    <3> QED BY <1>2, <3>1 DEF Confidences
  <2>3. CASE p = 1 \/ p = 2
    <3>1. Confidence(Verdict(p, c), p, c) = 550 + (350 * p) \div 3
      BY <1>2, <2>3 DEF Confidence, Verdict
    <3>2. (350 * p) \div 3 \in {116, 233}
      BY <2>3
    <3>3. Confidence(Verdict(p, c), p, c) \in {666, 783}
      BY <3>1, <3>2
    <3> QED BY <1>2, <3>3 DEF Confidences
  <2> QED BY <2>1, <2>2, <2>3
<1> QED BY <1>1, <1>2

\* A fetched page is heard: what the attempt knows of the claim at hand.
LEMMA HeardKeeps ==
  ASSUME FactInv, phase # "done", NEW url \in Pages, NEW signal \in Signals,
         Heard(url, signal), UNCHANGED <<claim, results>>, phase' # "done"
  PROVE  /\ pro' \in Seq(Pages) /\ con' \in Seq(Pages)
         /\ observed' \subseteq (1..NClaims) \X Pages \X Signals
         /\ Recorded' /\ Reported' /\ VerdictFollows'
<1>1. /\ claim \in Nat /\ claim >= 1 /\ claim <= NClaims /\ NClaims \in Nat
      /\ pro \in Seq(Pages) /\ con \in Seq(Pages) /\ Len(results) = claim - 1
  BY ClaimCount DEF FactInv, FactTypeOK, Recorded
<1>2. /\ pro' = IF signal = "supports" THEN Append(pro, url) ELSE pro
      /\ con' = IF signal = "contradicts" THEN Append(con, url) ELSE con
      /\ observed' = observed \cup {<<claim, url, signal>>}
      /\ claim' = claim /\ results' = results
  BY DEF Heard
<1>3. pro' \in Seq(Pages) /\ con' \in Seq(Pages)
  BY <1>1, <1>2
<1>4. observed' \subseteq (1..NClaims) \X Pages \X Signals
  BY <1>1, <1>2 DEF FactInv, FactTypeOK
<1>5. \A n \in 1..Len(results), s \in Signals : \A u : <<n, u, s>> \in observed' <=> <<n, u, s>> \in observed
  BY <1>1, <1>2
<1>6. Cites(pro, claim, "supports")'
  <2> SUFFICES ASSUME NEW k \in 1..Len(pro') PROVE <<claim, pro'[k], "supports">> \in observed'
    BY <1>2 DEF Cites
  <2>1. k \in 1..Len(pro) => <<claim, pro[k], "supports">> \in observed
    BY DEF FactInv, Recorded, Cites
  <2>2. CASE signal = "supports"
    <3>1. k \in 1..Len(pro) \/ k = Len(pro) + 1
      BY <1>1, <1>2, <2>2
    <3>2. CASE k \in 1..Len(pro)
      BY <1>1, <1>2, <2>1, <2>2, <3>2
    <3>3. CASE k = Len(pro) + 1
      <4>1. pro'[k] = url
        BY <1>1, <1>2, <2>2, <3>3
      <4> QED BY <1>2, <2>2, <4>1
    <3> QED BY <3>1, <3>2, <3>3
  <2> QED BY <1>2, <2>1, <2>2
<1>7. Cites(con, claim, "contradicts")'
  <2> SUFFICES ASSUME NEW k \in 1..Len(con') PROVE <<claim, con'[k], "contradicts">> \in observed'
    BY <1>2 DEF Cites
  <2>1. k \in 1..Len(con) => <<claim, con[k], "contradicts">> \in observed
    BY DEF FactInv, Recorded, Cites
  <2>2. CASE signal = "contradicts"
    <3>1. k \in 1..Len(con) \/ k = Len(con) + 1
      BY <1>1, <1>2, <2>2
    <3>2. CASE k \in 1..Len(con)
      BY <1>1, <1>2, <2>1, <2>2, <3>2
    <3>3. CASE k = Len(con) + 1
      <4>1. con'[k] = url
        BY <1>1, <1>2, <2>2, <3>3
      <4> QED BY <1>2, <2>2, <4>1
    <3> QED BY <3>1, <3>2, <3>3
  <2> QED BY <1>2, <2>1, <2>2
<1>8. \A o \in observed' : o[1] <= claim'
  BY <1>1, <1>2 DEF FactInv, Recorded
<1>9. Spoke(claim, "supports")' => pro' # <<>>
  <2>1. signal = "supports" => pro' # <<>>
    BY <1>1, <1>2
  <2>2. signal # "supports" => (Spoke(claim, "supports")' => Spoke(claim, "supports")) /\ pro' = pro
    BY <1>2 DEF Spoke
  <2> QED BY <2>1, <2>2 DEF FactInv, Recorded
<1>10. Spoke(claim, "contradicts")' => con' # <<>>
  <2>1. signal = "contradicts" => con' # <<>>
    BY <1>1, <1>2
  <2>2. signal # "contradicts" => (Spoke(claim, "contradicts")' => Spoke(claim, "contradicts")) /\ con' = con
    BY <1>2 DEF Spoke
  <2> QED BY <2>1, <2>2 DEF FactInv, Recorded
<1>11. Recorded'
  BY <1>1, <1>2, <1>6, <1>7, <1>8, <1>9, <1>10 DEF FactInv, Recorded
<1>12. Reported'
  BY <1>2 DEF FactInv, Reported, Cites
<1>13. VerdictFollows'
  <2>1. \A n \in 1..Len(results) : n # claim
    BY <1>1
  <2>2. \A n \in 1..Len(results) : \A s : Spoke(n, s)' <=> Spoke(n, s)
    BY <1>2, <2>1 DEF Spoke
  <2> QED BY <1>2, <2>2 DEF FactInv, VerdictFollows
<1> QED BY <1>3, <1>4, <1>11, <1>12, <1>13

-----------------------------------------------------------------------------

\* A verdict is recorded.
LEMMA Judged ==
  ASSUME FactInv, Judge PROVE FactInv'
<1> DEFINE r == Result
<1>1. /\ phase \in {"fetch", "judge"}
      /\ results' = Append(results, r)
      /\ pro' = <<>> /\ con' = <<>> /\ claim' = claim + 1
      /\ phase' = IF claim = NClaims THEN "done" ELSE "search"
      /\ UNCHANGED <<try, hits, observed>>
  BY DEF Judge
<1>2. /\ claim \in Nat /\ claim >= 1 /\ claim <= NClaims /\ NClaims \in Nat
      /\ pro \in Seq(Pages) /\ con \in Seq(Pages) /\ Len(results) = claim - 1
      /\ results \in Seq(FactResult) /\ Len(pro) \in Nat /\ Len(con) \in Nat
  BY <1>1, ClaimCount DEF FactInv, FactTypeOK, Recorded
<1>3. /\ r.claim = claim /\ r.evidence = pro /\ r.contradicting = con
      /\ r.verdict = Verdict(Len(pro), Len(con))
      /\ r.confidence = Confidence(Verdict(Len(pro), Len(con)), Len(pro), Len(con))
  BY DEF Result
<1>4. r \in FactResult
  <2>1. Verdict(Len(pro), Len(con)) \in {"CONTRADICTED", "SUPPORTED", "UNVERIFIABLE"}
    BY DEF Verdict
  <2>2. Confidence(Verdict(Len(pro), Len(con)), Len(pro), Len(con)) \in Confidences
    <3>1. Len(pro) \in Nat /\ Len(con) \in Nat
      BY <1>2
    <3> QED BY ONLY <3>1, ConfidenceBounds
  <2> QED BY <1>2, <2>1, <2>2 DEF Result, FactResult
<1> HIDE DEF r
<1>5. /\ results' \in Seq(FactResult) /\ Len(results') = claim
      /\ results'[claim] = r
      /\ \A n \in 1..Len(results) : results'[n] = results[n]
      /\ \A n \in 1..Len(results') : n \in 1..Len(results) \/ n = claim
  BY <1>1, <1>2, <1>4
<1>6. FactTypeOK'
  <2>1. claim' \in 1..(NClaims + 1)
    BY <1>1, <1>2
  <2> QED BY <1>1, <1>5, <2>1 DEF FactInv, FactTypeOK
<1>7. Recorded'
  <2>1. \A o \in observed : o[1] <= claim /\ o[1] \in Nat
    BY <1>2 DEF FactInv, FactTypeOK, Recorded
  <2>2. \A o \in observed' : o[1] <= claim'
    BY <1>1, <1>2, <2>1
  <2>3. \A s : ~Spoke(claim, s)'
    <3> SUFFICES ASSUME NEW s, NEW url \in Pages, <<claim', url, s>> \in observed' PROVE FALSE
      BY DEF Spoke
    <3>1. claim' <= claim
      BY <1>1, <2>1
    <3> QED BY <1>1, <1>2, <3>1
  <2>4. Cites(pro, claim, "supports")' /\ Cites(con, claim, "contradicts")'
    BY <1>1 DEF Cites
  <2>5. IF phase' = "done" THEN claim' = NClaims + 1 ELSE claim' <= NClaims
    BY <1>1, <1>2
  <2> QED BY <1>1, <1>2, <1>5, <2>2, <2>3, <2>4, <2>5 DEF Recorded
<1>8. Reported'
  <2> SUFFICES ASSUME NEW n \in 1..Len(results')
               PROVE  /\ results'[n].claim = n
                      /\ Cites(results[n].evidence, n, "supports")'
                      /\ Cites(results[n].contradicting, n, "contradicts")'
    BY DEF Reported
  <2>1. CASE n \in 1..Len(results)
    BY <1>1, <1>5, <2>1 DEF FactInv, Reported, Cites
  <2>2. CASE n = claim
    BY <1>1, <1>3, <1>5, <2>2 DEF FactInv, Recorded, Cites
  <2> QED BY <1>5, <2>1, <2>2
<1>9. VerdictFollows'
  <2>1. \A n, s : Spoke(n, s)' <=> Spoke(n, s)
    BY <1>1 DEF Spoke
  <2>2. Len(pro) > 0 <=> Spoke(claim, "supports")
    <3>1. Len(pro) > 0 => Spoke(claim, "supports")
      <4>1. Len(pro) > 0 => 1 \in 1..Len(pro)
        BY <1>2
      <4>2. Len(pro) > 0 => pro[1] \in Pages
        BY <1>2
      <4> QED BY <4>1, <4>2 DEF FactInv, Recorded, Cites, Spoke
    <3> QED BY <1>2, <3>1 DEF FactInv, Recorded
  <2>3. Len(con) > 0 <=> Spoke(claim, "contradicts")
    <3>1. Len(con) > 0 => Spoke(claim, "contradicts")
      <4>1. Len(con) > 0 => 1 \in 1..Len(con)
        BY <1>2
      <4>2. Len(con) > 0 => con[1] \in Pages
        BY <1>2
      <4> QED BY <4>1, <4>2 DEF FactInv, Recorded, Cites, Spoke
    <3> QED BY <1>2, <3>1 DEF FactInv, Recorded
  <2>4. /\ r.verdict = "CONTRADICTED" <=> Spoke(claim, "contradicts")
        /\ r.verdict = "SUPPORTED" <=> Spoke(claim, "supports") /\ ~Spoke(claim, "contradicts")
    BY <1>2, <1>3, <2>2, <2>3 DEF Verdict
  <2>5. r.verdict = "CONTRADICTED" /\ Spoke(claim, "supports") => r.confidence < 900
    <3>1. SUFFICES ASSUME Len(con) > 0, Len(pro) > 0 PROVE r.confidence < 900
      BY <2>2, <2>3, <2>4
    <3>2. Len(pro) \in Nat /\ Len(con) \in Nat
      BY <1>2
    <3>3. Confidence(Verdict(Len(pro), Len(con)), Len(pro), Len(con)) < 900
      BY ONLY <3>1, <3>2, ConfidenceBounds
    <3> QED BY <1>3, <3>3
  <2> QED BY <1>5, <2>1, <2>4, <2>5 DEF FactInv, VerdictFollows
<1> QED BY <1>6, <1>7, <1>8, <1>9 DEF FactInv

\* Nothing is reported before the first attempt, nor at the start of another.
LEMMA AttemptStarts ==
  ASSUME claim' = 1, results' = <<>>, pro' = <<>>, con' = <<>>, observed' = {}, hits' = <<>>,
         phase' \in {"idle", "search"}, try' \in 1..MaxTries
  PROVE  FactInv'
<1>1. FactTypeOK'
  BY ClaimCount DEF FactTypeOK
<1>2. Recorded'
  BY ClaimCount DEF Recorded, Cites, Spoke
<1>3. Reported' /\ VerdictFollows'
  BY DEF Reported, VerdictFollows
<1> QED BY <1>1, <1>2, <1>3 DEF FactInv

\* The verdicts follow from the same results and pages after as before.
LEMMA VerdictsStay ==
  ASSUME VerdictFollows, results' = results, observed' = observed
  PROVE  VerdictFollows'
<1>1. \A n : (Spoke(n, "supports")' <=> Spoke(n, "supports")) /\
            (Spoke(n, "contradicts")' <=> Spoke(n, "contradicts"))
  BY DEF Spoke
<1> QED BY <1>1 DEF VerdictFollows

\* A step that touches neither evidence nor results keeps the invariant.
LEMMA NothingHeard ==
  ASSUME FactInv, UNCHANGED <<try, claim, pro, con, results, observed>>,
         phase # "done", phase' \in {"search", "fetch", "failed"},
         hits' \in Seq(Pages \cup {NoUrl})
  PROVE  FactInv'
<1>1. FactTypeOK'
  BY DEF FactInv, FactTypeOK
<1>2. Recorded' /\ Reported' /\ VerdictFollows'
  <2>1. Recorded'
    BY DEF FactInv, Recorded, Cites, Spoke
  <2>2. Reported'
    BY DEF FactInv, Reported, Cites
  <2>3. VerdictFollows'
    BY VerdictsStay DEF FactInv
  <2> QED BY <2>1, <2>2, <2>3
<1> QED BY <1>1, <1>2 DEF FactInv

\* The invariant is kept by every step.
LEMMA FactNextInv == FactInv /\ [FactNext]_factVars => FactInv'
<1> SUFFICES ASSUME FactInv, [FactNext]_factVars PROVE FactInv'
  OBVIOUS
<1>0. hits \in Seq(Pages \cup {NoUrl}) /\ try \in 1..MaxTries
  BY DEF FactInv, FactTypeOK
<1>1. CASE StartChecking
  BY <1>0, <1>1, NothingHeard DEF StartChecking
<1>2. ASSUME NEW list \in HitLists, SearchClaim(list) PROVE FactInv'
  <2>1. list \in Seq(Pages \cup {NoUrl}) /\ MaxHits \in Nat
    BY FactCheckAssumption
  <2>2. hits' \in Seq(Pages \cup {NoUrl})
    BY <1>2, <2>1 DEF SearchClaim
  <2> QED BY <1>2, <2>2, NothingHeard DEF SearchClaim
<1>3. ASSUME NEW signal \in Signals, FetchHit(signal) PROVE FactInv'
  <2>1. Head(hits) \in Pages /\ hits' \in Seq(Pages \cup {NoUrl})
    BY <1>0, <1>3 DEF FetchHit
  <2>2. /\ phase # "done" /\ phase' # "done" /\ Heard(Head(hits), signal)
        /\ UNCHANGED <<claim, results>> /\ phase' = phase /\ try' = try
    BY <1>3 DEF FetchHit
  <2>3. /\ pro' \in Seq(Pages) /\ con' \in Seq(Pages)
        /\ observed' \subseteq (1..NClaims) \X Pages \X Signals
        /\ Recorded' /\ Reported' /\ VerdictFollows'
    BY <2>1, <2>2, HeardKeeps
  <2> QED BY <2>1, <2>2, <2>3 DEF FactInv, FactTypeOK
<1>4. ASSUME NEW signal \in Signals, FetchOwn(signal) PROVE FactInv'
  <2>1. OwnSource[claim] \in Pages
    <3>1. claim \in 1..NClaims
      BY <1>4, ClaimCount DEF FetchOwn, FactInv, FactTypeOK, Recorded
    <3> QED BY <1>4, <3>1, ClaimCount DEF FetchOwn
  <2>2. /\ phase # "done" /\ phase' = "judge" /\ Heard(OwnSource[claim], signal)
        /\ UNCHANGED <<claim, results>> /\ hits' = hits /\ try' = try
    BY <1>4 DEF FetchOwn
  <2>3. /\ pro' \in Seq(Pages) /\ con' \in Seq(Pages)
        /\ observed' \subseteq (1..NClaims) \X Pages \X Signals
        /\ Recorded' /\ Reported' /\ VerdictFollows'
    BY <2>1, <2>2, HeardKeeps
  <2> QED BY <2>2, <2>3 DEF FactInv, FactTypeOK
<1>5. CASE Judge
  BY <1>5, Judged
<1>6. CASE SubToolRaises
  <2>1. CASE try < MaxTries
    <3>1. try + 1 \in 1..MaxTries
      BY <1>0, <2>1 DEF MaxTries
    <3> QED BY <1>6, <2>1, <3>1, AttemptStarts DEF SubToolRaises
  <2>2. CASE ~(try < MaxTries)
    BY <1>0, <1>6, <2>2, NothingHeard DEF SubToolRaises
  <2> QED BY <2>1, <2>2
<1>7. CASE HitRejected
  BY <1>0, <1>7, NothingHeard DEF HitRejected
<1>8. CASE UNCHANGED factVars
  <2>1. UNCHANGED <<phase, try, claim, hits, pro, con, results, observed>>
    BY <1>8 DEF factVars
  <2>2. FactTypeOK' /\ Reported'
    BY <2>1 DEF FactInv, FactTypeOK, Reported, Cites
  <2>3. Recorded'
    BY <2>1 DEF FactInv, Recorded, Cites, Spoke
  <2>4. VerdictFollows'
    BY <2>1, VerdictsStay DEF FactInv
  <2> QED BY <2>2, <2>3, <2>4 DEF FactInv
<1> QED BY <1>1, <1>2, <1>3, <1>4, <1>5, <1>6, <1>7, <1>8 DEF FactNext

\* The invariant always holds.
LEMMA FactInvariant == FactSpec => []FactInv
<1>1. FactInit => FactInv
  <2> SUFFICES ASSUME FactInit PROVE FactInv
    OBVIOUS
  <2>1. FactTypeOK
    BY ClaimCount DEF FactInit, FactTypeOK, MaxTries
  <2>2. Recorded
    BY ClaimCount DEF FactInit, Recorded, Cites, Spoke
  <2>3. Reported /\ VerdictFollows
    BY DEF FactInit, Reported, VerdictFollows
  <2> QED BY <2>1, <2>2, <2>3 DEF FactInv
<1> QED BY <1>1, FactNextInv, PTL DEF FactSpec

(***************************************************************************)
(* The state of FactCheckTool.execute is always of its type.                *)
(***************************************************************************)
THEOREM FactTypeCorrect == FactSpec => []FactTypeOK
<1>1. FactInv => FactTypeOK
  BY DEF FactInv
<1> QED BY <1>1, FactInvariant, PTL

(***************************************************************************)
(* A report of FactCheckTool.execute never mixes the evidence of two        *)
(* attempts or of two claims, for any number of claims and hits.            *)
(***************************************************************************)
THEOREM FactReportOfOneAttempt == FactSpec => []ReportOfOneAttempt
<1>1. FactInv => ReportOfOneAttempt
  <2> SUFFICES ASSUME FactInv PROVE ReportOfOneAttempt
    OBVIOUS
  <2>1. phase = "done" => Len(results) = NClaims
    BY ClaimCount DEF FactInv, Recorded
  <2> QED BY <2>1 DEF FactInv, Reported, ReportOfOneAttempt
<1> QED BY <1>1, FactInvariant, PTL

(***************************************************************************)
(* _verdict answers from every page that was fetched for the claim, and     *)
(* never calls a disputed claim contradicted with a confidence of 0.9.      *)
(***************************************************************************)
THEOREM FactVerdictFollows == FactSpec => []VerdictFollows
<1>1. FactInv => VerdictFollows
  BY DEF FactInv
<1> QED BY <1>1, FactInvariant, PTL

-----------------------------------------------------------------------------
(***************************************************************************)
(* Every fact check ends.  A claim takes a search, at most MaxHits fetches, *)
(* that of its own source and the verdict; an attempt takes that for every  *)
(* claim it has left; and each attempt to come takes a whole attempt.       *)
(***************************************************************************)
PerClaim == MaxHits + 3

PerAttempt == NClaims * PerClaim + 1

AtClaim ==
  CASE phase = "idle"   -> MaxHits + 4
    [] phase = "search" -> MaxHits + 3
    [] phase = "fetch"  -> Len(hits) + 2
    [] OTHER            -> 1

ClaimsLeft(n) == (NClaims - n) * PerClaim

CheckLeft ==
  IF phase \in {"done", "failed"} THEN 0
  ELSE (MaxTries - try) * PerAttempt + ClaimsLeft(claim) + AtClaim

\* One claim less is PerClaim steps less.
LEMMA ClaimsCount ==
  ASSUME NEW n \in 1..NClaims
  PROVE  /\ ClaimsLeft(n) \in Nat /\ PerClaim \in Nat /\ PerAttempt \in Nat
         /\ n < NClaims => ClaimsLeft(n) = ClaimsLeft(n + 1) + PerClaim
         /\ ClaimsLeft(1) + PerClaim + 1 = PerAttempt
<1> DEFINE d == NClaims - n
<1>1. d \in Nat /\ NClaims \in Nat /\ n \in Nat /\ NClaims >= 1 /\ NClaims - (n + 1) = d - 1
  BY ClaimCount
<1>2. PerClaim \in Nat
  BY FactCheckAssumption DEF PerClaim
<1>3. ClaimsLeft(n) = d * PerClaim /\ ClaimsLeft(n + 1) = (d - 1) * PerClaim
  BY <1>1 DEF ClaimsLeft
<1>4. ClaimsLeft(1) = (NClaims - 1) * PerClaim
  BY DEF ClaimsLeft
<1> HIDE DEF d
<1>5. \A a \in Int : a * PerClaim \in Int /\ (a - 1) * PerClaim = a * PerClaim - PerClaim
                     /\ (a \in Nat => a * PerClaim \in Nat)
  BY <1>2
<1> QED BY <1>1, <1>2, <1>3, <1>4, <1>5 DEF PerAttempt

\* The steps left are a number, and there is one while the check goes on.
LEMMA CheckLeftTyped ==
  ASSUME FactInv
  PROVE  /\ CheckLeft \in Nat
         /\ phase \notin {"done", "failed"} =>
              /\ claim \in 1..NClaims /\ AtClaim \in Nat \ {0}
              /\ CheckLeft = (MaxTries - try) * PerAttempt + ClaimsLeft(claim) + AtClaim
<1>1. /\ try \in 1..3 /\ Len(hits) \in Nat /\ MaxHits \in Nat
      /\ phase \notin {"done", "failed"} => claim \in 1..NClaims
  BY ClaimCount, FactCheckAssumption DEF FactInv, FactTypeOK, Recorded, MaxTries
<1>2. CASE phase \in {"done", "failed"}
  BY <1>2 DEF CheckLeft
<1>3. CASE phase \notin {"done", "failed"}
  <2>1. AtClaim \in Nat \ {0}
    BY <1>1 DEF AtClaim
  <2>2. ClaimsLeft(claim) \in Nat /\ PerAttempt \in Nat
    BY <1>1, <1>3, ClaimsCount
  <2>3. (MaxTries - try) * PerAttempt \in Nat
    BY <1>1, <2>2 DEF MaxTries
  <2>4. CheckLeft = (MaxTries - try) * PerAttempt + ClaimsLeft(claim) + AtClaim
    BY <1>3 DEF CheckLeft
  <2> QED BY <1>1, <1>3, <2>1, <2>2, <2>3, <2>4
<1> QED BY <1>2, <1>3

\* A step within a claim.
LEMMA WithinClaim ==
  ASSUME FactInv, phase \notin {"done", "failed"}, UNCHANGED <<try, claim>>,
         \/ phase' \in {"done", "failed"}
         \/ phase' \notin {"done", "failed"} /\ AtClaim' \in Nat /\ AtClaim' < AtClaim
  PROVE  CheckLeft' < CheckLeft
<1>1. /\ claim \in 1..NClaims /\ AtClaim \in Nat \ {0} /\ try \in 1..3
      /\ CheckLeft = (MaxTries - try) * PerAttempt + ClaimsLeft(claim) + AtClaim
  BY CheckLeftTyped DEF FactInv, FactTypeOK, MaxTries
<1>2. ClaimsLeft(claim) \in Nat /\ PerAttempt \in Nat
  BY <1>1, ClaimsCount
<1>3. (MaxTries - try) * PerAttempt \in Nat
  BY <1>1, <1>2 DEF MaxTries
<1>4. CASE phase' \in {"done", "failed"}
  <2>1. CheckLeft' = 0
    BY <1>4 DEF CheckLeft
  <2> QED BY <1>1, <1>2, <1>3, <2>1
<1>5. CASE phase' \notin {"done", "failed"} /\ AtClaim' \in Nat /\ AtClaim' < AtClaim
  <2>1. CheckLeft' = (MaxTries - try) * PerAttempt + ClaimsLeft(claim) + AtClaim'
    BY <1>5 DEF CheckLeft, ClaimsLeft, PerAttempt, PerClaim
  <2> QED BY <1>1, <1>2, <1>3, <1>5, <2>1
<1> QED BY <1>4, <1>5

\* The verdict on a claim.
LEMMA JudgeGoesOn == FactInv /\ Judge => CheckLeft' < CheckLeft
<1> SUFFICES ASSUME FactInv, Judge PROVE CheckLeft' < CheckLeft
  OBVIOUS
<1>1. /\ phase \in {"judge", "fetch"} /\ claim' = claim + 1 /\ try' = try
      /\ phase' = IF claim = NClaims THEN "done" ELSE "search"
  BY DEF Judge
<1>2. /\ claim \in 1..NClaims /\ AtClaim \in Nat \ {0} /\ try \in 1..3
      /\ CheckLeft = (MaxTries - try) * PerAttempt + ClaimsLeft(claim) + AtClaim
  BY <1>1, CheckLeftTyped DEF FactInv, FactTypeOK, MaxTries
<1>3. ClaimsLeft(claim) \in Nat /\ PerAttempt \in Nat /\ PerClaim \in Nat
  BY <1>2, ClaimsCount
<1>4. (MaxTries - try) * PerAttempt \in Nat
  BY <1>2, <1>3 DEF MaxTries
<1>5. CASE claim = NClaims
  <2>1. CheckLeft' = 0
    BY <1>1, <1>5 DEF CheckLeft
  <2> QED BY <1>2, <1>3, <1>4, <2>1
<1>6. CASE claim # NClaims
  <2>1. claim < NClaims
    BY <1>2, <1>6, ClaimCount
  <2>2. claim + 1 \in 1..NClaims
    BY <1>2, <2>1, ClaimCount
  <2>3. ClaimsLeft(claim) = ClaimsLeft(claim + 1) + PerClaim /\ ClaimsLeft(claim + 1) \in Nat
    BY <1>2, <2>1, <2>2, ClaimsCount
  <2>4. CheckLeft' = (MaxTries - try) * PerAttempt + ClaimsLeft(claim + 1) + PerClaim
    BY <1>1, <1>6 DEF CheckLeft, AtClaim, ClaimsLeft, PerAttempt, PerClaim
  <2> QED BY <1>2, <1>3, <1>4, <2>3, <2>4
<1> QED BY <1>5, <1>6

\* Another attempt: it takes no more than was counted for it.
LEMMA AttemptGoesOn == FactInv /\ SubToolRaises => CheckLeft' < CheckLeft
<1> SUFFICES ASSUME FactInv, SubToolRaises PROVE CheckLeft' < CheckLeft
  OBVIOUS
<1>1. phase \in {"search", "fetch"}
  BY DEF SubToolRaises
<1>2. /\ claim \in 1..NClaims /\ AtClaim \in Nat \ {0} /\ try \in 1..3
      /\ CheckLeft = (MaxTries - try) * PerAttempt + ClaimsLeft(claim) + AtClaim
  BY <1>1, CheckLeftTyped DEF FactInv, FactTypeOK, MaxTries
<1>3. ClaimsLeft(claim) \in Nat /\ PerAttempt \in Nat /\ PerClaim \in Nat
  BY <1>2, ClaimsCount
<1>4. CASE try < MaxTries
  <2>1. phase' = "search" /\ try' = try + 1 /\ claim' = 1
    BY <1>4 DEF SubToolRaises
  <2>2. CheckLeft' = (MaxTries - (try + 1)) * PerAttempt + ClaimsLeft(1) + PerClaim
    BY <2>1 DEF CheckLeft, AtClaim, ClaimsLeft, PerAttempt, PerClaim
  <2>3. 1 \in 1..NClaims
    BY ClaimCount
  <2>4. ClaimsLeft(1) + PerClaim + 1 = PerAttempt /\ ClaimsLeft(1) \in Nat
    BY <2>3, ClaimsCount
  <2>5. (MaxTries - try) * PerAttempt = (MaxTries - (try + 1)) * PerAttempt + PerAttempt
    BY <1>2, <1>3 DEF MaxTries
  <2>6. (MaxTries - (try + 1)) * PerAttempt \in Nat
    BY <1>2, <1>3, <1>4 DEF MaxTries
  <2> QED BY <1>2, <1>3, <2>2, <2>4, <2>5, <2>6
<1>5. CASE ~(try < MaxTries)
  <2>1. phase' = "failed" /\ UNCHANGED <<try, claim>>
    BY <1>5 DEF SubToolRaises
  <2> QED BY <1>1, <2>1, WithinClaim
<1> QED BY <1>4, <1>5

\* Every step brings a check closer to its end.
LEMMA CheckGoesOn == FactInv /\ FactNext => CheckLeft' < CheckLeft
<1> SUFFICES ASSUME FactInv, FactNext PROVE CheckLeft' < CheckLeft
  OBVIOUS
<1>0. MaxHits \in Nat /\ hits \in Seq(Pages \cup {NoUrl})
  BY FactCheckAssumption DEF FactInv, FactTypeOK
<1>1. CASE StartChecking
  <2>1. phase = "idle" /\ phase' = "search" /\ UNCHANGED <<try, claim>>
    BY <1>1 DEF StartChecking
  <2>2. AtClaim = MaxHits + 4 /\ AtClaim' = MaxHits + 3
    BY <2>1 DEF AtClaim
  <2> QED BY <1>0, <2>1, <2>2, WithinClaim
<1>2. ASSUME NEW list \in HitLists, SearchClaim(list) PROVE CheckLeft' < CheckLeft
  <2>1. /\ phase = "search" /\ phase' = "fetch" /\ UNCHANGED <<try, claim>>
        /\ hits' = SubSeq(list, 1, IF Len(list) < MaxHits THEN Len(list) ELSE MaxHits)
    BY <1>2 DEF SearchClaim
  <2>2. Len(hits') \in Nat /\ Len(hits') <= MaxHits
    <3>1. list \in Seq(Pages \cup {NoUrl})
      BY FactCheckAssumption
    <3> QED BY <1>0, <2>1, <3>1
  <2>3. AtClaim = MaxHits + 3 /\ AtClaim' = Len(hits') + 2
    BY <2>1 DEF AtClaim
  <2> QED BY <1>0, <2>1, <2>2, <2>3, WithinClaim
<1>3. ASSUME NEW signal \in Signals, FetchHit(signal) PROVE CheckLeft' < CheckLeft
  <2>1. /\ phase = "fetch" /\ phase' = "fetch" /\ UNCHANGED <<try, claim>>
        /\ hits # <<>> /\ hits' = Tail(hits)
    BY <1>3 DEF FetchHit
  <2>2. Len(hits') = Len(hits) - 1 /\ Len(hits) \in Nat /\ Len(hits) >= 1
    BY <1>0, <2>1
  <2>3. AtClaim = Len(hits) + 2 /\ AtClaim' = Len(hits') + 2
    BY <2>1 DEF AtClaim
  <2> QED BY <2>1, <2>2, <2>3, WithinClaim
<1>4. ASSUME NEW signal \in Signals, FetchOwn(signal) PROVE CheckLeft' < CheckLeft
  <2>1. phase = "fetch" /\ phase' = "judge" /\ UNCHANGED <<try, claim>> /\ Len(hits) \in Nat
    BY <1>0, <1>4 DEF FetchOwn
  <2>2. AtClaim = Len(hits) + 2 /\ AtClaim' = 1
    BY <2>1 DEF AtClaim
  <2> QED BY <2>1, <2>2, WithinClaim
<1>5. CASE Judge
  BY <1>5, JudgeGoesOn
<1>6. CASE SubToolRaises
  BY <1>6, AttemptGoesOn
<1>7. CASE HitRejected
  BY <1>7, WithinClaim DEF HitRejected
<1> QED BY <1>1, <1>2, <1>3, <1>4, <1>5, <1>6, <1>7 DEF FactNext

(***************************************************************************)
(* The safety half of the liveness of a fact check: three attempts at the   *)
(* claims, each with a search and at most MaxHits + 1 fetches a claim, and  *)
(* nothing beyond; however the sub-tools raise, execute() is not started a  *)
(* fourth time.                                                             *)
(***************************************************************************)
THEOREM FactIsFinite ==
  FactSpec => /\ [](CheckLeft \in 0..(3 * PerAttempt))
              /\ [][CheckLeft' < CheckLeft]_factVars
<1>1. FactInit => CheckLeft = 3 * PerAttempt
  <2> SUFFICES ASSUME FactInit PROVE CheckLeft = 3 * PerAttempt
    OBVIOUS
  <2>1. 1 \in 1..NClaims
    BY ClaimCount
  <2>2. CheckLeft = 2 * PerAttempt + ClaimsLeft(1) + (MaxHits + 4)
    BY DEF FactInit, CheckLeft, AtClaim, MaxTries
  <2>3. /\ ClaimsLeft(1) + PerClaim + 1 = PerAttempt
        /\ ClaimsLeft(1) \in Nat /\ PerAttempt \in Nat /\ MaxHits \in Nat
    BY <2>1, ClaimsCount, FactCheckAssumption
  <2> QED BY <2>2, <2>3 DEF PerClaim
<1>2. PerAttempt \in Nat
  <2>1. 1 \in 1..NClaims
    BY ClaimCount
  <2> QED BY <2>1, ClaimsCount
<1>3. FactInit => CheckLeft \in 0..(3 * PerAttempt)
  BY <1>1, <1>2
<1>4. FactInv => CheckLeft \in Nat
  BY CheckLeftTyped
<1>5. FactInv /\ CheckLeft \in 0..(3 * PerAttempt) /\ (CheckLeft \in Nat)' /\ [FactNext]_factVars
        => (CheckLeft \in 0..(3 * PerAttempt))'
  <2> SUFFICES ASSUME FactInv, CheckLeft \in 0..(3 * PerAttempt), CheckLeft' \in Nat,
                      [FactNext]_factVars
               PROVE  (CheckLeft \in 0..(3 * PerAttempt))'
    OBVIOUS
  <2>1. CheckLeft' <= CheckLeft
    <3>1. CASE FactNext
      BY <3>1, CheckGoesOn
    <3>2. CASE UNCHANGED factVars
      <4>1. CheckLeft' = CheckLeft
        BY <3>2 DEF factVars, CheckLeft, AtClaim, ClaimsLeft, PerAttempt, PerClaim
      <4> QED BY <4>1
    <3> QED BY <3>1, <3>2
  <2>2. PerAttempt' = PerAttempt
    BY DEF PerAttempt, PerClaim
  <2> QED BY <1>2, <2>1, <2>2
<1>6. FactInv /\ [FactNext]_factVars => [CheckLeft' < CheckLeft]_factVars
  BY CheckGoesOn
<1> QED BY <1>3, <1>4, <1>5, <1>6, FactInvariant, PTL DEF FactSpec

-----------------------------------------------------------------------------
(***************************************************************************)
(* The research run.  cross_check compares the claims pair by pair; a pair  *)
(* is met when its lower claim has been on the left and its higher one on   *)
(* the right, and the inductive invariant is that DisputesExact holds of    *)
(* the pairs met so far.                                                    *)
(***************************************************************************)
Met(n, k) ==
  LET low == IF n < k THEN n ELSE k
      high == IF n < k THEN k ELSE n
  IN  low < left \/ (low = left /\ high < right)

MetClashes(n) == {k \in Clashing(n) : Met(n, k)}

Told(n, K) ==
  IF K = {} THEN claims[n].against = Nothing
  ELSE \E k \in K : IsFirst(k, K) /\ claims[n].against = claims[k].text

\* Whatever the urls are, the claims have texts.
TextedClaim(U) == [text : Texts, url : U, against : Texts \cup {Nothing}]

Texted == \E U : claims \in Seq(TextedClaim(U))

Turn ==
  /\ left \in Nat /\ right \in Nat /\ left >= 1 /\ right >= 1
  /\ stage \in {"idle", "fallback", "nothing", "fetch", "read"} => left = 1 /\ right = 1
  /\ stage = "compare" => left <= Len(claims) /\ right <= Len(claims)
  /\ stage \in {"synthesis", "done"} => left > Len(claims)

CrossInv ==
  /\ stage \in Stages
  /\ page \in Seq([text : Texts, opens : BOOLEAN])
  /\ Texted /\ Turn
  /\ \A n \in 1..Len(claims) : Told(n, MetClashes(n))

\* A pair clashes whichever of the two is on the left.
LEMMA ClashBoth ==
  ASSUME Texted, NEW n \in 1..Len(claims), NEW k \in 1..Len(claims)
  PROVE  Clash(claims[n], claims[k]) <=> Clash(claims[k], claims[n])
<1>1. claims[n].text \in Texts /\ claims[k].text \in Texts
  <2>1. PICK U : claims \in Seq(TextedClaim(U))
    BY DEF Texted
  <2>2. /\ claims[n] \in TextedClaim(U)
        /\ claims[k] \in TextedClaim(U)
    BY <2>1
  <2> QED BY <2>2 DEF TextedClaim
<1> QED BY <1>1, ResearchAssumption DEF Clash

\* The comparison at hand is the one pair newly met.
LEMMA MeetsNext ==
  ASSUME left \in Nat, right \in Nat, NEW N \in Nat, left \in 1..N, right \in 1..N,
         right' = IF right < N THEN right + 1 ELSE 1,
         left' = IF right < N THEN left ELSE left + 1,
         NEW n \in 1..N, NEW k \in 1..N, n # k
  PROVE  Met(n, k)' <=> \/ Met(n, k)
                        \/ left < right /\ n = left /\ k = right
                        \/ left < right /\ n = right /\ k = left
<1>0. /\ n < k \/ k < n
      /\ \/ right < N /\ right' = right + 1 /\ left' = left
         \/ right = N /\ right' = 1 /\ left' = left + 1
  OBVIOUS
<1>1. CASE n < k
  BY <1>0, <1>1 DEF Met
<1>2. CASE k < n
  BY <1>0, <1>2 DEF Met
<1> QED BY <1>0, <1>1, <1>2

\* A claim that hears of one more claim, after all it heard of, keeps the first.
LEMMA FirstStays ==
  ASSUME NEW N \in Nat, NEW n \in 1..N, NEW m \in 1..N, NEW K, NEW L,
         \A k \in K : k \in 1..N /\ k < m, L = K \cup {m}, Told(n, K),
         \A k \in 1..N : claims[k].text # Nothing /\ claims'[k].text = claims[k].text,
         claims'[n].against = IF claims[n].against = Nothing THEN claims[m].text ELSE claims[n].against
  PROVE  \E k \in L : IsFirst(k, L) /\ claims'[n].against = claims'[k].text
<1>1. CASE K = {}
  <2>1. m \in L /\ IsFirst(m, L)
    BY <1>1 DEF IsFirst
  <2> QED BY <1>1, <2>1 DEF Told
<1>2. CASE K # {}
  <2>1. PICK k \in K : IsFirst(k, K) /\ claims[n].against = claims[k].text
    BY <1>2 DEF Told
  <2>2. k \in L /\ IsFirst(k, L)
    BY <2>1 DEF IsFirst
  <2>3. claims'[n].against = claims'[k].text
    BY <2>1
  <2> QED BY <2>2, <2>3
<1> QED BY <1>1, <1>2

\* One comparison keeps the invariant.
LEMMA Compared == ASSUME CrossInv, Compare PROVE CrossInv'
<1> DEFINE N == Len(claims)
           c == claims[left]
           d == claims[right]
<1>1. PICK U : claims \in Seq(TextedClaim(U))
  BY DEF CrossInv, Texted
<1>0. N \in Nat
  BY <1>1
<1>2. N \in Nat /\ left \in 1..N /\ right \in 1..N /\ left \in Nat /\ right \in Nat
  <2>1. N \in Nat
    BY <1>1
  <2>2. stage = "compare"
    BY DEF Compare
  <2>3. left \in Nat /\ right \in Nat /\ left >= 1 /\ right >= 1 /\ left <= N /\ right <= N
    BY <2>2 DEF CrossInv, Turn
  <2> QED BY <2>1, <2>3
<1>3. /\ claims' = IF left # right /\ Clash(c, d)
                   THEN [claims EXCEPT ![left] = Against(c, d), ![right] = Against(d, c)]
                   ELSE claims
      /\ right' = IF right < N THEN right + 1 ELSE 1
      /\ left' = IF right < N THEN left ELSE left + 1
      /\ stage' = IF left = N /\ right = N THEN "synthesis" ELSE stage
      /\ stage = "compare" /\ page' = page
  BY DEF Compare
<1>4. /\ c \in TextedClaim(U)
      /\ d \in TextedClaim(U)
  BY <1>1, <1>2
<1>5. /\ Against(c, d) \in TextedClaim(U)
      /\ Against(c, d).text = c.text /\ Against(c, d).url = c.url
      /\ Against(d, c) \in TextedClaim(U)
      /\ Against(d, c).text = d.text /\ Against(d, c).url = d.url
      /\ Against(c, d).against = IF c.against = Nothing THEN d.text ELSE c.against
      /\ Against(d, c).against = IF d.against = Nothing THEN c.text ELSE d.against
  BY <1>4 DEF Against, TextedClaim
<1> HIDE DEF c, d
<1>6. /\ claims' \in Seq(TextedClaim(U))
      /\ Len(claims') = N
      /\ \A n \in 1..N : n # left /\ n # right => claims'[n] = claims[n]
      /\ left # right /\ Clash(c, d) => claims'[left] = Against(c, d) /\ claims'[right] = Against(d, c)
      /\ ~(left # right /\ Clash(c, d)) => claims' = claims
  BY <1>1, <1>2, <1>3, <1>5
<1>7. \A n \in 1..N : claims'[n].text = claims[n].text /\ claims'[n].url = claims[n].url
  <2> SUFFICES ASSUME NEW n \in 1..N
               PROVE  claims'[n].text = claims[n].text /\ claims'[n].url = claims[n].url
    OBVIOUS
  <2>1. CASE left # right /\ Clash(c, d)
    BY <1>5, <1>6, <2>1 DEF c, d
  <2> QED BY <1>6, <2>1
<1>8. \A n, k \in 1..N : Clash(claims[n], claims[k])' <=> Clash(claims[n], claims[k])
  BY <1>7 DEF Clash
<1>9. \A n \in 1..N : Clashing(n)' = Clashing(n)
  BY <1>6, <1>8 DEF Clashing
<1>10. \A n, k \in 1..N : n # k =>
         (Met(n, k)' <=> \/ Met(n, k)
                         \/ left < right /\ n = left /\ k = right
                         \/ left < right /\ n = right /\ k = left)
  BY <1>2, <1>3, MeetsNext
<1>11. \A n \in 1..N : Told(n, MetClashes(n))
  BY DEF CrossInv
<1>12. Clash(c, d) <=> Clash(d, c)
  BY <1>2, ClashBoth DEF CrossInv, c, d
<1>13. \A n \in 1..N : Told(n, MetClashes(n))'
  <2>1. CASE ~(left # right /\ Clash(c, d))
    <3>1. \A n \in 1..N : \A k \in Clashing(n) : Met(n, k)' <=> Met(n, k)
      BY <1>10, <1>12, <2>1 DEF Clashing, c, d
    <3>2. \A n \in 1..N : MetClashes(n)' = MetClashes(n)
      BY <1>9, <3>1 DEF MetClashes
    <3> QED BY <1>6, <1>11, <2>1, <3>2 DEF Told
  <2>2. CASE left > right /\ Clash(c, d)
    <3>1. \A n \in 1..N : \A k \in Clashing(n) : Met(n, k)' <=> Met(n, k)
      BY <1>2, <1>10, <2>2 DEF Clashing
    <3>2. \A n \in 1..N : MetClashes(n)' = MetClashes(n)
      BY <1>9, <3>1 DEF MetClashes
    <3>3. right \in MetClashes(left) /\ left \in MetClashes(right)
      BY <1>2, <1>12, <2>2 DEF MetClashes, Clashing, Met, c, d
    <3>4. \A k \in 1..N : claims[k].text # Nothing
      <4> SUFFICES ASSUME NEW k \in 1..N PROVE claims[k].text \in Texts
        BY ResearchAssumption
      <4>1. claims[k] \in TextedClaim(U)
        BY <1>1
      <4> QED BY <4>1 DEF TextedClaim
    <3>5. c.against # Nothing /\ d.against # Nothing
      <4>1. Told(left, MetClashes(left)) /\ Told(right, MetClashes(right))
        BY <1>2, <1>11
      <4>2. MetClashes(left) \subseteq 1..N /\ MetClashes(right) \subseteq 1..N
        BY DEF MetClashes, Clashing
      <4> QED BY <3>3, <3>4, <4>1, <4>2 DEF Told, IsFirst, c, d
    <3>6. \A n \in 1..N : claims'[n] = claims[n]
      BY <1>2, <1>6, <2>2, <3>5 DEF Against, c, d
    <3>7. \A n \in 1..N : MetClashes(n) \subseteq 1..N
      BY DEF MetClashes, Clashing
    <3>8. ASSUME NEW n \in 1..N PROVE Told(n, MetClashes(n))'
      <4>1. Told(n, MetClashes(n)) /\ MetClashes(n) \subseteq 1..N
        BY <1>11, <3>7
      <4>2. claims'[n] = claims[n] /\ \A k \in MetClashes(n) : claims'[k] = claims[k]
        BY <3>6, <4>1
      <4> QED BY <3>2, <4>1, <4>2 DEF Told, IsFirst
    <3> QED BY <3>8
  <2>3. CASE left < right /\ Clash(c, d)
    <3>1. PICK l \in 1..N, r \in 1..N : l = left /\ r = right
      BY <1>2
    <3>2. l < r /\ r \in Clashing(l) /\ l \in Clashing(r)
      BY <1>2, <1>12, <2>3, <3>1 DEF Clashing, c, d
    <3>3. \A n, k \in 1..N : n # k =>
            (Met(n, k)' <=> Met(n, k) \/ (n = l /\ k = r) \/ (n = r /\ k = l))
      BY <1>10, <2>3, <3>1
    <3>4. MetClashes(l)' = MetClashes(l) \cup {r}
      BY <1>9, <3>2, <3>3 DEF MetClashes, Clashing
    <3>5. MetClashes(r)' = MetClashes(r) \cup {l}
      BY <1>9, <3>2, <3>3 DEF MetClashes, Clashing
    <3>6. \A k \in MetClashes(l) : k \in 1..N /\ k < r
      BY <1>2, <2>3, <3>1 DEF MetClashes, Clashing, Met
    <3>7. \A k \in MetClashes(r) : k \in 1..N /\ k < l
      BY <1>2, <2>3, <3>1 DEF MetClashes, Clashing, Met
    <3>8. \A k \in 1..N : claims[k].text \in Texts /\ claims[k].text # Nothing
      <4> SUFFICES ASSUME NEW k \in 1..N PROVE claims[k].text \in Texts
        BY ResearchAssumption
      <4>1. claims[k] \in TextedClaim(U)
        BY <1>1
      <4> QED BY <4>1 DEF TextedClaim
    <3>9. /\ claims'[l].against = IF claims[l].against = Nothing THEN claims[r].text ELSE claims[l].against
          /\ claims'[r].against = IF claims[r].against = Nothing THEN claims[l].text ELSE claims[r].against
      BY <1>2, <1>5, <1>6, <2>3, <3>1 DEF c, d
    <3>13. \A k \in 1..N : claims[k].text # Nothing /\ claims'[k].text = claims[k].text
      BY <1>7, <3>8
    <3>10. Told(l, MetClashes(l))'
      <4>1. \E k \in MetClashes(l)' : IsFirst(k, MetClashes(l)') /\ claims'[l].against = claims'[k].text
        <5>1. Told(l, MetClashes(l))
          BY <1>11
        <5> QED BY <1>0, <3>4, <3>6, <3>9, <3>13, <5>1, FirstStays
      <4>2. MetClashes(l)' # {}
        BY <3>4
      <4> QED BY <4>1, <4>2 DEF Told, IsFirst
    <3>11. Told(r, MetClashes(r))'
      <4>1. \E k \in MetClashes(r)' : IsFirst(k, MetClashes(r)') /\ claims'[r].against = claims'[k].text
        <5>1. Told(r, MetClashes(r))
          BY <1>11
        <5> QED BY <1>0, <3>5, <3>7, <3>9, <3>13, <5>1, FirstStays
      <4>2. MetClashes(r)' # {}
        BY <3>5
      <4> QED BY <4>1, <4>2 DEF Told, IsFirst
    <3>12. ASSUME NEW n \in 1..N, n # l, n # r PROVE Told(n, MetClashes(n))'
      <4>1. MetClashes(n) \subseteq 1..N
        BY DEF MetClashes, Clashing
      <4>2. MetClashes(n)' = MetClashes(n)
        BY <1>9, <3>3, <3>12 DEF MetClashes, Clashing
      <4>3. claims'[n] = claims[n]
        BY <1>6, <3>1, <3>12
      <4> QED BY <1>7, <1>11, <4>1, <4>2, <4>3 DEF Told
    <3> QED BY <3>10, <3>11, <3>12
  <2> QED BY <1>2, <2>1, <2>2, <2>3
<1>14. Texted' /\ page' \in Seq([text : Texts, opens : BOOLEAN]) /\ stage' \in Stages
  BY <1>3, <1>6 DEF CrossInv, Texted, Stages
<1>15. Turn'
  <2>1. Len(claims') = N /\ left >= 1 /\ right >= 1 /\ left <= N /\ right <= N
    BY <1>2, <1>6
  <2>2. CASE right < N
    <3>1. right' = right + 1 /\ left' = left /\ stage' = "compare"
      BY <1>2, <1>3, <2>2
    <3> QED BY <1>2, <2>1, <2>2, <3>1 DEF Turn
  <2>3. CASE right = N
    <3>1. right' = 1 /\ left' = left + 1 /\ stage' = IF left = N THEN "synthesis" ELSE "compare"
      BY <1>2, <1>3, <2>3
    <3> QED BY <1>2, <2>1, <3>1 DEF Turn
  <2> QED BY <1>2, <2>1, <2>2, <2>3
<1> QED BY <1>6, <1>13, <1>14, <1>15 DEF CrossInv

\* A step in which cross_check does not compare keeps the invariant if it adds
\* no claim.
LEMMA NotCompared ==
  ASSUME CrossInv, UNCHANGED <<claims, left, right>>,
         page' \in Seq([text : Texts, opens : BOOLEAN]), stage' \in Stages, Turn'
  PROVE  CrossInv'
<1>1. Texted'
  BY DEF CrossInv, Texted
<1>2. \A n \in 1..Len(claims) : MetClashes(n)' = MetClashes(n)
  BY DEF MetClashes, Clashing, Clash, Met
<1>3. \A n \in 1..Len(claims') : Told(n, MetClashes(n))'
  BY <1>2 DEF CrossInv, Told
<1> QED BY <1>1, <1>3 DEF CrossInv

\* One more of the same kind.
LEMMA OneAdded ==
  ASSUME NEW S, NEW q \in Seq(S), NEW e \in S PROVE Append(q, e) \in Seq(S)
OBVIOUS

\* The first of a sequence and the rest of it.
LEMMA SentenceTaken ==
  ASSUME NEW S, NEW q \in Seq(S), q # <<>> PROVE Head(q) \in S /\ Tail(q) \in Seq(S)
OBVIOUS

\* A new claim has heard of nothing, and nothing of it.
LEMMA ClaimAdded == ASSUME CrossInv, ReadSentence PROVE CrossInv'
<1> DEFINE s == Head(page)
           new == [text |-> s.text, url |-> sources[at], against |-> Nothing]
<1>1. PICK U : claims \in Seq(TextedClaim(U))
  BY DEF CrossInv, Texted
<1>2. /\ stage = "read" /\ stage' = "read" /\ page # <<>> /\ page' = Tail(page)
      /\ left' = left /\ right' = right
      /\ claims' \in {claims, Append(claims, new)}
  BY DEF ReadSentence
<1>3. left = 1 /\ right = 1
  BY <1>2 DEF CrossInv, Turn
<1>4. page' \in Seq([text : Texts, opens : BOOLEAN]) /\ s.text \in Texts
  <2>1. page \in Seq([text : Texts, opens : BOOLEAN])
    BY DEF CrossInv
  <2>2. s \in [text : Texts, opens : BOOLEAN] /\ page' \in Seq([text : Texts, opens : BOOLEAN])
    BY <1>2, <2>1, SentenceTaken
  <2> QED BY <2>2
<1>5. new \in TextedClaim(U \cup {sources[at]})
  BY <1>4 DEF TextedClaim
<1> HIDE DEF new
<1>6. claims \in Seq(TextedClaim(U \cup {sources[at]}))
  <2>1. TextedClaim(U) \subseteq TextedClaim(U \cup {sources[at]})
    BY DEF TextedClaim
  <2>2. \A S, T : S \subseteq T => Seq(S) \subseteq Seq(T)
    OBVIOUS
  <2> QED BY ONLY <1>1, <2>1, <2>2
<1>7. claims' \in Seq(TextedClaim(U \cup {sources[at]}))
  <2>1. Append(claims, new) \in Seq(TextedClaim(U \cup {sources[at]}))
    BY <1>5, <1>6, OneAdded, Zenon
  <2> QED BY <1>2, <1>6, <2>1, Zenon
<1>8. Turn'
  BY <1>2, <1>3 DEF Turn
<1>9. \A n : MetClashes(n) = {} \/ n \notin 1..Len(claims)
  <2> SUFFICES ASSUME NEW n \in 1..Len(claims), NEW k \in MetClashes(n) PROVE FALSE
    OBVIOUS
  <2>1. n \in Nat /\ n >= 1 /\ k \in Nat /\ k >= 1 /\ Met(n, k) /\ n # k
    BY DEF MetClashes, Clashing
  <2> QED BY <1>3, <2>1 DEF Met
<1>10. \A n \in 1..Len(claims') : MetClashes(n)' = {}
  <2> SUFFICES ASSUME NEW n \in 1..Len(claims'), NEW k \in MetClashes(n)' PROVE FALSE
    OBVIOUS
  <2>1. n \in Nat /\ n >= 1 /\ k \in Nat /\ k >= 1 /\ Met(n, k)' /\ n # k
    BY DEF MetClashes, Clashing
  <2> QED BY <1>2, <1>3, <2>1 DEF Met
<1>11. \A n \in 1..Len(claims') : claims'[n].against = Nothing
  <2> SUFFICES ASSUME NEW n \in 1..Len(claims') PROVE claims'[n].against = Nothing
    OBVIOUS
  <2>1. CASE n \in 1..Len(claims)
    <3>1. claims'[n] = claims[n]
      BY <1>2, <1>6, <2>1
    <3> QED BY <1>9, <2>1, <3>1 DEF CrossInv, Told
  <2>2. CASE n \notin 1..Len(claims)
    <3>1. claims'[n] = new
      BY <1>2, <1>6, <2>2
    <3> QED BY <3>1 DEF new
  <2> QED BY <2>1, <2>2
<1>12. \A n \in 1..Len(claims') : Told(n, MetClashes(n))'
  BY <1>10, <1>11 DEF Told
<1> QED BY <1>2, <1>4, <1>7, <1>8, <1>12 DEF CrossInv, Texted, Stages

\* The invariant is kept by every step.
LEMMA CrossNextInv == CrossInv /\ [ResearchNext]_researchVars => CrossInv'
<1> SUFFICES ASSUME CrossInv, [ResearchNext]_researchVars PROVE CrossInv'
  OBVIOUS
<1>0. page \in Seq([text : Texts, opens : BOOLEAN]) /\ Turn /\ Len(claims) \in Nat
  BY DEF CrossInv, Texted
<1>1. ASSUME NEW list \in Searches, Search(list) PROVE CrossInv'
  <2>1. /\ UNCHANGED <<claims, left, right, page>> /\ stage = "idle"
        /\ stage' \in {"fallback", "nothing", "fetch"}
    BY <1>1 DEF Search, Collect
  <2>2. Turn'
    BY <1>0, <2>1 DEF Turn
  <2> QED BY <1>0, <2>1, <2>2, NotCompared DEF Stages
<1>2. ASSUME NEW list \in Searches, SearchAgain(list) PROVE CrossInv'
  <2>1. /\ UNCHANGED <<claims, left, right, page>> /\ stage = "fallback"
        /\ stage' \in {"nothing", "fetch"}
    BY <1>2 DEF SearchAgain, Collect
  <2>2. Turn'
    BY <1>0, <2>1 DEF Turn
  <2> QED BY <1>0, <2>1, <2>2, NotCompared DEF Stages
<1>3. ASSUME NEW url \in Urls, NEW sentences \in PagesOf[url], Fetch(sentences) PROVE CrossInv'
  <2>1. sentences \in Seq([text : Texts, opens : BOOLEAN])
    BY ResearchAssumption
  <2>2. /\ UNCHANGED <<claims, left, right>> /\ stage = "fetch" /\ stage' = "read"
        /\ page' \in Seq([text : Texts, opens : BOOLEAN])
    BY <1>3, <2>1 DEF Fetch
  <2>3. Turn'
    BY <1>0, <2>2 DEF Turn
  <2> QED BY <2>2, <2>3, NotCompared DEF Stages
<1>4. ASSUME SourceDone, stage \in {"fetch", "read"} PROVE CrossInv'
  <2>1. /\ UNCHANGED <<claims, left, right>> /\ page' = <<>>
        /\ \/ stage' = "fetch"
           \/ stage' = "synthesis" /\ claims = <<>>
           \/ stage' = "compare" /\ claims # <<>>
    BY <1>4 DEF SourceDone
  <2>2. left = 1 /\ right = 1
    BY <1>0, <1>4 DEF Turn
  <2>3. claims # <<>> => Len(claims) >= 1
    BY DEF CrossInv, Texted
  <2>4. Turn'
    BY <1>0, <2>1, <2>2, <2>3 DEF Turn
  <2> QED BY <2>1, <2>4, NotCompared DEF Stages
<1>5. CASE ReadSentence
  BY <1>5, ClaimAdded
<1>6. CASE Compare
  BY <1>6, Compared
<1>7. CASE Synthesize \/ ResearchRaises
  <2>1. /\ UNCHANGED <<claims, left, right, page>>
        /\ stage' = "raised" \/ (stage = "synthesis" /\ stage' = "done")
    BY <1>7 DEF Synthesize, ResearchRaises
  <2>2. Turn'
    BY <1>0, <2>1 DEF Turn
  <2> QED BY <1>0, <2>1, <2>2, NotCompared DEF Stages
<1>8. CASE UNCHANGED researchVars
  <2>1. UNCHANGED <<stage, page, claims, left, right>>
    BY <1>8 DEF researchVars
  <2>2. Turn'
    BY <1>0, <2>1 DEF Turn
  <2>3. stage' \in Stages
    BY <2>1 DEF CrossInv
  <2> QED BY <1>0, <2>1, <2>2, <2>3, NotCompared
<1>9. CASE SkipSource \/ EndPage
  BY <1>4, <1>9 DEF SkipSource, EndPage
<1> QED BY <1>1, <1>2, <1>3, <1>5, <1>6, <1>7, <1>8, <1>9 DEF ResearchNext

LEMMA CrossInitInv == ResearchInit => CrossInv
<1> SUFFICES ASSUME ResearchInit PROVE CrossInv
  OBVIOUS
<1>1. claims \in Seq(TextedClaim({})) /\ Len(claims) = 0
  BY DEF ResearchInit
<1>2. Turn
  BY <1>1 DEF ResearchInit, Turn
<1> QED BY <1>1, <1>2 DEF ResearchInit, CrossInv, Texted, Stages

(***************************************************************************)
(* However many claims the sources make, the synthesis marks exactly the    *)
(* contradicted ones as disputed, each with the first contradiction of it:  *)
(* cross_check, which writes into both claims of every pair, overwrites and *)
(* forgets nothing.                                                         *)
(***************************************************************************)
THEOREM ResearchDisputesExact == ResearchSpec => []DisputesExact
<1>1. CrossInv => DisputesExact
  <2> SUFFICES ASSUME CrossInv, stage \in {"synthesis", "done"}, NEW n \in 1..Len(claims)
               PROVE  Told(n, Clashing(n))
    BY DEF DisputesExact, Told
  <2>1. left > Len(claims) /\ left \in Nat /\ Len(claims) \in Nat
    BY DEF CrossInv, Turn, Texted
  <2>2. \A k \in Clashing(n) : Met(n, k)
    BY <2>1 DEF Clashing, Met
  <2>3. MetClashes(n) = Clashing(n)
    BY <2>2 DEF MetClashes
  <2> QED BY <2>3 DEF CrossInv
<1> QED BY <1>1, CrossInitInv, CrossNextInv, PTL DEF ResearchSpec

-----------------------------------------------------------------------------
(***************************************************************************)
(* The ranking of the hits.  The place of a hit is the number of those      *)
(* ahead of it; no two hits share a place, so every place is taken, and the *)
(* ranking is a rearrangement of the hits that keeps equals in their order. *)
(***************************************************************************)

\* How many hits come before one in the ranking.
Place(list, m) == Cardinality(Ahead(list, m))

\* A hit has as many hits ahead of it as there are others, at most.
\* The numbers up to n are n.
LEMMA UpTo ==
  ASSUME NEW n \in Nat
  PROVE  IsFiniteSet(1..n) /\ Cardinality(1..n) = n
<1>1. 1 \in Int /\ n \in Int
  OBVIOUS
<1>2. \A a, b \in Int : /\ IsFiniteSet(a..b)
                        /\ Cardinality(a..b) = IF a > b THEN 0 ELSE b - a + 1
  BY FS_Interval, Zenon
<1>3. /\ IsFiniteSet(1..n)
      /\ Cardinality(1..n) = IF 1 > n THEN 0 ELSE n - 1 + 1
  BY <1>1, <1>2, Zenon
<1> QED BY <1>3

LEMMA PlaceBound ==
  ASSUME NEW list \in Seq(Urls), NEW m \in DOMAIN list
  PROVE  IsFiniteSet(Ahead(list, m)) /\ Place(list, m) \in 0..(Len(list) - 1)
<1>1. DOMAIN list = 1..Len(list) /\ Len(list) \in Nat
  OBVIOUS
<1>2. IsFiniteSet(1..Len(list)) /\ Cardinality(1..Len(list)) = Len(list)
  BY <1>1, UpTo
<1>3. /\ IsFiniteSet((1..Len(list)) \ {m})
      /\ Cardinality((1..Len(list)) \ {m}) = Len(list) - 1
  <2>1. m \in 1..Len(list)
    BY <1>1
  <2>2. \A S, x : IsFiniteSet(S) /\ x \in S =>
          IsFiniteSet(S \ {x}) /\ Cardinality(S \ {x}) = Cardinality(S) - 1
    BY FS_RemoveElement, Zenon
  <2> QED BY <1>2, <2>1, <2>2
<1>4. Ahead(list, m) \in SUBSET ((1..Len(list)) \ {m})
  BY <1>1 DEF Ahead, SourceRank
<1>5. IsFiniteSet(Ahead(list, m)) /\ Cardinality(Ahead(list, m)) <= Len(list) - 1
  BY <1>3, <1>4, FS_Subset
<1>6. Cardinality(Ahead(list, m)) \in Nat
  BY <1>5, FS_CardinalityType
<1> QED BY <1>1, <1>5, <1>6 DEF Place

\* Of two hits the one ahead has the lower place, and one of them is ahead.
LEMMA PlaceOrder ==
  ASSUME NEW list \in Seq(Urls), NEW k \in DOMAIN list, NEW m \in DOMAIN list
  PROVE  /\ k \in Ahead(list, m) => Place(list, k) < Place(list, m)
         /\ k # m => k \in Ahead(list, m) \/ m \in Ahead(list, k)
<1>0. DOMAIN list = 1..Len(list) /\ Len(list) \in Nat
  OBVIOUS
<1>r. \A url : SourceRank(url) \in 0..4
  BY DEF SourceRank
<1>1. ASSUME k \in Ahead(list, m) PROVE Place(list, k) < Place(list, m)
  <2>1. Ahead(list, k) \cup {k} \in SUBSET Ahead(list, m)
    BY <1>0, <1>1, <1>r DEF Ahead
  <2>2. k \notin Ahead(list, k)
    BY <1>0, <1>r DEF Ahead
  <2>3. Cardinality(Ahead(list, k) \cup {k}) = Cardinality(Ahead(list, k)) + 1
    BY <2>2, PlaceBound, FS_AddElement
  <2>4. Cardinality(Ahead(list, k) \cup {k}) <= Cardinality(Ahead(list, m))
    BY <2>1, PlaceBound, FS_Subset
  <2> QED BY <2>3, <2>4, PlaceBound DEF Place
<1>2. ASSUME k # m PROVE k \in Ahead(list, m) \/ m \in Ahead(list, k)
  BY <1>0, <1>2, <1>r DEF Ahead
<1> QED BY <1>1, <1>2

\* Every place is taken: the ranking keeps every hit.
LEMMA PlaceTaken ==
  ASSUME NEW list \in Seq(Urls), NEW n \in DOMAIN list
  PROVE  \E m \in DOMAIN list : Place(list, m) = n - 1
<1> DEFINE D == 1..Len(list)
           place == [m \in D |-> Place(list, m) + 1]
<1>1. DOMAIN list = D /\ Len(list) \in Nat
  OBVIOUS
<1>2. place \in [D -> D]
  BY <1>1, PlaceBound
<1>3. \A k, m \in D : place[k] = place[m] => k = m
  <2> SUFFICES ASSUME NEW k \in D, NEW m \in D, place[k] = place[m], k # m PROVE FALSE
    OBVIOUS
  <2>1. Place(list, k) \in Nat /\ Place(list, m) \in Nat
    BY <1>1, PlaceBound
  <2>2. Place(list, k) = Place(list, m)
    BY <2>1
  <2>3. Place(list, k) < Place(list, m) \/ Place(list, m) < Place(list, k)
    BY <1>1, PlaceOrder
  <2> QED BY <2>1, <2>2, <2>3
<1>4. place \in Injection(D, D)
  BY <1>2, <1>3 DEF Injection, IsInjective
<1>5. IsFiniteSet(D)
  BY <1>1, UpTo
<1>6. place \in Surjection(D, D)
  BY <1>4, <1>5, FS_Injection
<1>7. PICK m \in D : place[m] = n
  BY <1>1, <1>6 DEF Surjection
<1>8. Place(list, m) + 1 = n /\ Place(list, m) \in Nat
  BY <1>1, <1>7, PlaceBound
<1> QED BY <1>1, <1>8

\* The hit at a place.
LEMMA RankedHit ==
  ASSUME NEW list \in Seq(Urls)
  PROVE  /\ ByRank(list) \in Seq(Urls) /\ Len(ByRank(list)) = Len(list)
         /\ \A n \in 1..Len(list) : \E m \in 1..Len(list) :
              Place(list, m) = n - 1 /\ ByRank(list)[n] = list[m]
         /\ \A m \in 1..Len(list) : ByRank(list)[Place(list, m) + 1] = list[m]
<1> DEFINE Hit(n) == CHOOSE m \in DOMAIN list : Place(list, m) = n - 1
<1>1. DOMAIN list = 1..Len(list) /\ Len(list) \in Nat
  OBVIOUS
<1>2. ByRank(list) = [n \in 1..Len(list) |-> list[Hit(n)]]
  BY <1>1 DEF ByRank, Place
<1>3. \A n \in 1..Len(list) : Hit(n) \in 1..Len(list) /\ Place(list, Hit(n)) = n - 1
  BY <1>1, PlaceTaken
<1> HIDE DEF Hit
<1>4. \A n \in 1..Len(list) : list[Hit(n)] \in Urls
  BY <1>1, <1>3
<1>5. ByRank(list) \in Seq(Urls) /\ Len(ByRank(list)) = Len(list)
  BY <1>1, <1>2, <1>4
<1>6. \A n \in 1..Len(list) : \E m \in 1..Len(list) :
              Place(list, m) = n - 1 /\ ByRank(list)[n] = list[m]
  BY <1>2, <1>3
<1>7. ASSUME NEW m \in 1..Len(list) PROVE ByRank(list)[Place(list, m) + 1] = list[m]
  <2>1. Place(list, m) \in 0..(Len(list) - 1)
    BY <1>1, PlaceBound
  <2>2. Place(list, m) + 1 \in 1..Len(list)
    BY <1>1, <2>1
  <2>3. PICK n \in 1..Len(list) : n = Place(list, m) + 1
    BY <2>2
  <2>4. Hit(n) \in 1..Len(list) /\ Place(list, Hit(n)) = Place(list, m)
    BY <1>3, <2>1, <2>3
  <2>5. Hit(n) = m
    BY <1>1, <2>1, <2>4, PlaceOrder
  <2> QED BY <1>2, <2>3, <2>5
<1> QED BY <1>5, <1>6, <1>7

\* The sources are the first of the ranked hits, as many as the cap lets.
LEMMA TopSourcesAre ==
  ASSUME NEW list \in Seq(Urls)
  PROVE  /\ TopSources(list) \in Seq(Urls)
         /\ Len(TopSources(list)) = IF Len(list) < MaxSources THEN Len(list) ELSE MaxSources
         /\ \A n \in 1..Len(TopSources(list)) : TopSources(list)[n] = ByRank(list)[n]
<1>1. ByRank(list) \in Seq(Urls) /\ Len(ByRank(list)) = Len(list)
  BY RankedHit
<1>2. MaxSources \in Nat \ {0} /\ Len(list) \in Nat
  BY ResearchAssumption
<1> QED BY <1>1, <1>2 DEF TopSources, Capped

\* What BestSourcesKept says of the sources, for any list of hits.
LEMMA BestKept ==
  ASSUME NEW list \in Seq(Urls), NEW m \in 1..Len(list),
         \A n \in 1..Len(TopSources(list)) : TopSources(list)[n] # list[m]
  PROVE  /\ Len(TopSources(list)) = MaxSources
         /\ \A n \in 1..Len(TopSources(list)) :
              /\ SourceRank(TopSources(list)[n]) <= SourceRank(list[m])
              /\ SourceRank(TopSources(list)[n]) = SourceRank(list[m]) =>
                   \E l \in 1..(m - 1) : list[l] = TopSources(list)[n]
<1> DEFINE top == TopSources(list)
           p == Place(list, m)
<1>1. /\ top \in Seq(Urls)
      /\ Len(top) = IF Len(list) < MaxSources THEN Len(list) ELSE MaxSources
      /\ \A n \in 1..Len(top) : top[n] = ByRank(list)[n]
  BY TopSourcesAre
<1>2. DOMAIN list = 1..Len(list) /\ Len(list) \in Nat /\ MaxSources \in Nat \ {0}
  BY ResearchAssumption
<1>3. p \in 0..(Len(list) - 1) /\ ByRank(list)[p + 1] = list[m]
  BY <1>2, PlaceBound, RankedHit
<1> HIDE DEF p, top
<1>4. p >= Len(top)
  <2>1. p + 1 \in 1..Len(top) => top[p + 1] = list[m]
    BY <1>1, <1>3
  <2> QED BY <1>1, <1>2, <1>3, <2>1 DEF top
<1>5. Len(top) = MaxSources
  <2>1. p < Len(list) /\ p \in Nat
    BY <1>2, <1>3
  <2>2. ~(Len(top) = Len(list))
    BY <1>2, <1>4, <2>1
  <2> QED BY <1>1, <2>2
<1>6. ASSUME NEW n \in 1..Len(top)
      PROVE  /\ SourceRank(top[n]) <= SourceRank(list[m])
             /\ SourceRank(top[n]) = SourceRank(list[m]) => \E l \in 1..(m - 1) : list[l] = top[n]
  <2>1. n \in 1..Len(list)
    BY <1>1, <1>2
  <2>2. PICK k \in 1..Len(list) : Place(list, k) = n - 1 /\ ByRank(list)[n] = list[k]
    BY <2>1, RankedHit
  <2>3. top[n] = list[k]
    BY <1>1, <2>2
  <2>4. Place(list, k) < p
    BY <1>1, <1>2, <1>3, <1>4, <2>2
  <2>5. k # m /\ ~(p < Place(list, k))
    BY <1>2, <1>3, <2>1, <2>2, <2>4 DEF p
  <2>6. k \in Ahead(list, m)
    BY <1>2, <2>5, PlaceOrder DEF p
  <2>7. SourceRank(list[k]) \in 0..4 /\ SourceRank(list[m]) \in 0..4
    BY DEF SourceRank
  <2> QED BY <1>2, <2>3, <2>6, <2>7 DEF Ahead
<1> QED BY <1>5, <1>6 DEF top

-----------------------------------------------------------------------------
(* The sources of the research run: they are the best of the hits found,    *)
(* and the one at hand is one of them while they are fetched and read.      *)

Sourced ==
  /\ sources = <<>> \/ sources = TopSources(found)
  /\ stage \in {"idle", "fallback"} => at = 1
  /\ stage \in {"fetch", "read"} => at \in 1..Len(sources)

ResearchInv == ResearchTypeOK /\ Sourced

\* A step that leaves the sources and the claims alone.
LEMMA SourcesStay ==
  ASSUME ResearchInv, UNCHANGED <<found, sources>>,
         stage' \in Stages, at' \in Nat,
         stage' \in {"idle", "fallback"} => at' = 1,
         stage' \in {"fetch", "read"} => at' \in 1..Len(sources),
         page' \in Seq([text : Texts, opens : BOOLEAN]), kept' \in 0..MaxPerChunk,
         claims' \in Seq(Claim), left' \in Nat, right' \in Nat
  PROVE  ResearchInv'
BY DEF ResearchInv, ResearchTypeOK, Sourced

\* The answer of a search.
LEMMA SearchAnswered ==
  ASSUME ResearchInv, at = 1, NEW list \in Searches, Collect(list)
  PROVE  ResearchInv'
<1>1. list \in Seq(Urls)
  BY ResearchAssumption
<1>2. TopSources(list) \in Seq(Urls)
  BY <1>1, TopSourcesAre
<1>3. /\ found' = list /\ sources' = TopSources(list)
      /\ stage' = IF TopSources(list) = <<>> THEN "nothing" ELSE "fetch"
      /\ UNCHANGED <<at, page, kept, claims, left, right>>
  BY DEF Collect
<1>4. stage' \in {"fetch", "read"} => at' \in 1..Len(sources')
  BY <1>2, <1>3
<1> QED BY <1>1, <1>2, <1>3, <1>4 DEF ResearchInv, ResearchTypeOK, Sourced, Stages

\* The invariant is kept by every step; CrossInv keeps the two claims that are
\* compared among the claims.
LEMMA ResearchNextInv ==
  ResearchInv /\ CrossInv /\ [ResearchNext]_researchVars => ResearchInv'
<1> SUFFICES ASSUME ResearchInv, CrossInv, [ResearchNext]_researchVars PROVE ResearchInv'
  OBVIOUS
<1>0. /\ stage \in Stages /\ at \in Nat /\ kept \in 0..MaxPerChunk
      /\ found \in Seq(Urls) /\ sources \in Seq(Urls)
      /\ page \in Seq([text : Texts, opens : BOOLEAN])
      /\ claims \in Seq(Claim) /\ left \in Nat /\ right \in Nat
      /\ MaxPerChunk \in Nat /\ Nothing \notin Texts
  BY ResearchAssumption DEF ResearchInv, ResearchTypeOK
<1>1. ASSUME NEW list \in Searches, Search(list) PROVE ResearchInv'
  <2>1. stage = "idle" /\ at = 1
    BY <1>1 DEF Search, ResearchInv, Sourced
  <2>2. CASE list = <<>> /\ HasLangSearch
    BY <1>0, <1>1, <2>1, <2>2, SourcesStay DEF Search, Stages
  <2>3. CASE ~(list = <<>> /\ HasLangSearch)
    BY <1>1, <2>1, <2>3, SearchAnswered DEF Search
  <2> QED BY <2>2, <2>3
<1>2. ASSUME NEW list \in Searches, SearchAgain(list) PROVE ResearchInv'
  <2>1. at = 1 /\ Collect(list)
    BY <1>2 DEF SearchAgain, ResearchInv, Sourced
  <2> QED BY <2>1, SearchAnswered
<1>3. ASSUME NEW url \in Urls, NEW sentences \in PagesOf[url], Fetch(sentences)
      PROVE  ResearchInv'
  <2>1. sentences \in Seq([text : Texts, opens : BOOLEAN])
    BY ResearchAssumption
  <2>2. at \in 1..Len(sources)
    BY <1>3 DEF Fetch, ResearchInv, Sourced
  <2> QED BY <1>0, <1>3, <2>1, <2>2, SourcesStay DEF Fetch, Stages
<1>4. ASSUME SourceDone, stage \in {"fetch", "read"} PROVE ResearchInv'
  <2>1. at \in 1..Len(sources)
    BY <1>4 DEF ResearchInv, Sourced
  <2>2. /\ at' = at + 1 /\ page' = <<>> /\ kept' = 0
        /\ stage' \in {"fetch", "synthesis", "compare"}
        /\ stage' = "fetch" => at < Len(sources)
        /\ UNCHANGED <<found, sources, claims, left, right>>
    BY <1>4 DEF SourceDone
  <2>3. stage' = "fetch" => at' \in 1..Len(sources)
    BY <1>0, <2>1, <2>2
  <2> QED BY <1>0, <2>2, <2>3, SourcesStay DEF Stages
<1>5. CASE ReadSentence
  <2> DEFINE new == [text |-> Head(page).text, url |-> sources[at], against |-> Nothing]
  <2>1. at \in 1..Len(sources)
    BY <1>5 DEF ReadSentence, ResearchInv, Sourced
  <2>2. /\ Head(page) \in [text : Texts, opens : BOOLEAN]
        /\ page' \in Seq([text : Texts, opens : BOOLEAN])
    BY <1>0, <1>5, SentenceTaken DEF ReadSentence
  <2>3. sources[at] \in Urls
    BY <1>0, <2>1
  <2>4. new \in Claim
    BY <2>2, <2>3 DEF Claim
  <2>5. claims' \in {claims, Append(claims, new)}
    BY <1>5 DEF ReadSentence
  <2> HIDE DEF new
  <2>6. claims' \in Seq(Claim)
    <3>1. claims \in Seq(Claim) /\ Append(claims, new) \in Seq(Claim)
      BY <1>0, <2>4
    <3> QED BY <2>5, <3>1
  <2>7. kept' \in 0..MaxPerChunk
    BY <1>0, <1>5 DEF ReadSentence
  <2>8. UNCHANGED <<stage, found, sources, at, left, right>> /\ stage = "read"
    BY <1>5 DEF ReadSentence
  <2> QED BY <1>0, <2>1, <2>2, <2>6, <2>7, <2>8, SourcesStay
<1>6. CASE Compare
  <2>1. /\ stage = "compare"
        /\ stage' \in {"compare", "synthesis"}
        /\ UNCHANGED <<found, sources, at, page, kept>>
        /\ left' \in {left, left + 1} /\ right' \in {1, right + 1}
    BY <1>6 DEF Compare
  <2>2. left \in 1..Len(claims) /\ right \in 1..Len(claims)
    BY <1>0, <2>1 DEF CrossInv, Turn
  <2> DEFINE c == claims[left]
             d == claims[right]
  <2>3. c \in Claim /\ d \in Claim
    BY <1>0, <2>2
  <2>4. Against(c, d) \in Claim /\ Against(d, c) \in Claim
    BY <2>3 DEF Against, Claim
  <2>5. \/ claims' = claims
        \/ claims' = [claims EXCEPT ![left] = Against(c, d), ![right] = Against(d, c)]
    BY <1>6 DEF Compare
  <2> HIDE DEF c, d
  <2>6. claims' \in Seq(Claim)
    <3>1. claims \in Seq(Claim)
      BY <1>0
    <3>2. [claims EXCEPT ![left] = Against(c, d), ![right] = Against(d, c)] \in Seq(Claim)
      BY <2>2, <2>4, <3>1
    <3> QED BY <2>5, <3>1, <3>2
  <2> QED BY <1>0, <2>1, <2>6, SourcesStay DEF Stages
<1>7. CASE Synthesize \/ ResearchRaises
  <2>1. /\ UNCHANGED <<found, sources, at, page, kept, claims, left, right>>
        /\ stage' \in {"done", "raised"}
    BY <1>7 DEF Synthesize, ResearchRaises
  <2> QED BY <1>0, <2>1, SourcesStay DEF Stages
<1>8. CASE UNCHANGED researchVars
  BY <1>8 DEF researchVars, ResearchInv, ResearchTypeOK, Sourced
<1>9. CASE SkipSource \/ EndPage
  BY <1>4, <1>9 DEF SkipSource, EndPage
<1> QED BY <1>1, <1>2, <1>3, <1>5, <1>6, <1>7, <1>8, <1>9 DEF ResearchNext

LEMMA ResearchInitInv == ResearchInit => ResearchInv
<1> SUFFICES ASSUME ResearchInit PROVE ResearchInv
  OBVIOUS
<1>1. MaxPerChunk \in Nat
  BY ResearchAssumption
<1> QED BY <1>1 DEF ResearchInit, ResearchInv, ResearchTypeOK, Sourced, Stages

LEMMA ResearchInvariant == ResearchSpec => []ResearchInv
BY ResearchInitInv, ResearchNextInv, CrossInitInv, CrossNextInv, PTL DEF ResearchSpec

(***************************************************************************)
(* The state of the research run keeps its types: the loops never index a   *)
(* source or a claim that is not there.                                     *)
(***************************************************************************)
THEOREM ResearchTypeCorrect == ResearchSpec => []ResearchTypeOK
<1>1. ResearchInv => ResearchTypeOK
  BY DEF ResearchInv
<1> QED BY <1>1, ResearchInvariant, PTL

(***************************************************************************)
(* However many hits a search returns and wherever the cap is, no hit is    *)
(* left out for one of a lower rank, nor for an equal that was listed       *)
(* after it.                                                                *)
(***************************************************************************)
THEOREM ResearchBestSourcesKept == ResearchSpec => []BestSourcesKept
<1>1. ResearchInv => BestSourcesKept
  <2> SUFFICES ASSUME ResearchInv, sources # <<>>, NEW m \in 1..Len(found),
                      \A n \in 1..Len(sources) : sources[n] # found[m]
               PROVE  /\ \A n \in 1..Len(sources) :
                           SourceRank(sources[n]) <= SourceRank(found[m])
                      /\ Len(sources) = MaxSources
                      /\ \A n \in 1..Len(sources) :
                           SourceRank(sources[n]) = SourceRank(found[m]) =>
                             \E l \in 1..(m - 1) : found[l] = sources[n]
    BY DEF BestSourcesKept
  <2>1. sources = TopSources(found) /\ found \in Seq(Urls)
    BY DEF ResearchInv, ResearchTypeOK, Sourced
  <2> QED BY <2>1, BestKept
<1> QED BY <1>1, ResearchInvariant, PTL

-----------------------------------------------------------------------------
(***************************************************************************)
(* Every research run ends.  It passes its stages in one direction; its     *)
(* sources one by one, each fetched once and read sentence by sentence; and *)
(* the pairs of claims row by row, of which there are no more the while.    *)
(***************************************************************************)
StageRank(s) ==
  CASE s = "idle"             -> 0
    [] s = "fallback"         -> 1
    [] s \in {"fetch", "read"} -> 2
    [] s = "compare"          -> 3
    [] s = "synthesis"        -> 4
    [] OTHER                  -> 5

NextStage == StageRank(stage) < StageRank(stage')

NextSource == stage \in {"fetch", "read"} /\ stage' = "fetch" /\ at' = at + 1

OpenPage == stage = "fetch" /\ stage' = "read" /\ at' = at

NextSentence ==
  /\ stage = "read" /\ stage' = "read" /\ at' = at
  /\ Len(page') = Len(page) - 1

NextPair ==
  /\ stage = "compare" /\ stage' = "compare"
  /\ Len(claims') = Len(claims)
  /\ \/ left' = left /\ right' = right + 1
     \/ left' = left + 1 /\ right' = 1

\* While it loops, it is inside what it loops over.
LoopsInside ==
  /\ Len(sources) <= MaxSources
  /\ stage \in {"fetch", "read"} => at \in 1..Len(sources)
  /\ stage = "compare" => left \in 1..Len(claims) /\ right \in 1..Len(claims)

\* The cap is on the sources.
LEMMA SourcesCapped ==
  ASSUME NEW list \in Seq(Urls)
  PROVE  Len(TopSources(list)) <= MaxSources
BY TopSourcesAre, ResearchAssumption

LEMMA LoopsAreInside == ResearchInv /\ CrossInv => LoopsInside
<1> SUFFICES ASSUME ResearchInv, CrossInv PROVE LoopsInside
  OBVIOUS
<1>1. /\ found \in Seq(Urls) /\ claims \in Seq(Claim) /\ left \in Nat /\ right \in Nat
      /\ MaxSources \in Nat
  BY ResearchAssumption DEF ResearchInv, ResearchTypeOK
<1>2. Len(sources) <= MaxSources
  <2>1. CASE sources = <<>>
    BY <1>1, <2>1
  <2>2. CASE sources = TopSources(found)
    BY <1>1, <2>2, SourcesCapped
  <2> QED BY <2>1, <2>2 DEF ResearchInv, Sourced
<1>3. stage = "compare" => left \in 1..Len(claims) /\ right \in 1..Len(claims)
  BY <1>1 DEF CrossInv, Turn
<1> QED BY <1>2, <1>3 DEF LoopsInside, ResearchInv, Sourced

\* Every step goes on in that order.
LEMMA ResearchGoesOn ==
  ResearchInv /\ CrossInv /\ ResearchNext =>
    NextStage \/ NextSource \/ OpenPage \/ NextSentence \/ NextPair
<1> SUFFICES ASSUME ResearchInv, CrossInv, ResearchNext
             PROVE  NextStage \/ NextSource \/ OpenPage \/ NextSentence \/ NextPair
  OBVIOUS
<1>0. /\ claims \in Seq(Claim) /\ left \in Nat /\ right \in Nat
      /\ page \in Seq([text : Texts, opens : BOOLEAN])
  BY DEF ResearchInv, ResearchTypeOK
<1>1. ASSUME NEW list \in Searches, Search(list) \/ SearchAgain(list) PROVE NextStage
  <2>1. \/ stage = "idle" /\ stage' \in {"fallback", "nothing", "fetch"}
        \/ stage = "fallback" /\ stage' \in {"nothing", "fetch"}
    BY <1>1 DEF Search, SearchAgain, Collect
  <2> QED BY <2>1 DEF NextStage, StageRank
<1>2. ASSUME NEW sentences, Fetch(sentences) PROVE OpenPage
  BY <1>2 DEF Fetch, OpenPage
<1>3. ASSUME SourceDone, stage \in {"fetch", "read"} PROVE NextStage \/ NextSource
  <2>1. at' = at + 1 /\ stage' \in {"fetch", "synthesis", "compare"}
    BY <1>3 DEF SourceDone
  <2>2. CASE stage' = "fetch"
    BY <1>3, <2>1, <2>2 DEF NextSource
  <2>3. CASE stage' \in {"synthesis", "compare"}
    BY <1>3, <2>3 DEF NextStage, StageRank
  <2> QED BY <2>1, <2>2, <2>3
<1>4. CASE SkipSource \/ EndPage
  BY <1>3, <1>4 DEF SkipSource, EndPage
<1>5. CASE ReadSentence
  <2>1. page # <<>> /\ page' = Tail(page) /\ stage = "read" /\ UNCHANGED <<stage, at>>
    BY <1>5 DEF ReadSentence
  <2>2. Len(page') = Len(page) - 1
    BY <1>0, <2>1
  <2> QED BY <2>1, <2>2 DEF NextSentence
<1>6. CASE Compare
  <2>1. stage = "compare" /\ stage' \in {"compare", "synthesis"}
    BY <1>6 DEF Compare
  <2>2. CASE stage' = "synthesis"
    BY <2>1, <2>2 DEF NextStage, StageRank
  <2>3. CASE stage' = "compare"
    <3>1. \/ left' = left /\ right' = right + 1
          \/ left' = left + 1 /\ right' = 1
      BY <1>6 DEF Compare
    <3>2. \/ claims' = claims
          \/ claims' = [claims EXCEPT ![left] = Against(claims[left], claims[right]),
                                      ![right] = Against(claims[right], claims[left])]
      BY <1>6 DEF Compare
    <3>3. Len(claims') = Len(claims)
      BY <1>0, <3>2
    <3> QED BY <2>1, <2>3, <3>1, <3>3 DEF NextPair
  <2> QED BY <2>1, <2>2, <2>3
<1>7. CASE Synthesize \/ ResearchRaises
  BY <1>7 DEF Synthesize, ResearchRaises, NextStage, StageRank
<1> QED BY <1>1, <1>2, <1>4, <1>5, <1>6, <1>7 DEF ResearchNext

(***************************************************************************)
(* The safety half of the liveness of a research run: it fetches each place *)
(* of its list of sources at most once, of which there are no more than     *)
(* MaxSources, compares no pair of claims twice, and never goes back to a   *)
(* stage it has left, whatever the searches and pages return and however    *)
(* often a fetch raises.                                                    *)
(***************************************************************************)
THEOREM ResearchIsFinite ==
  ResearchSpec =>
    /\ []LoopsInside
    /\ [][NextStage \/ NextSource \/ OpenPage \/ NextSentence \/ NextPair]_researchVars
<1>1. ResearchInv /\ CrossInv /\ [ResearchNext]_researchVars =>
        [NextStage \/ NextSource \/ OpenPage \/ NextSentence \/ NextPair]_researchVars
  BY ResearchGoesOn
<1> QED BY <1>1, LoopsAreInside, ResearchInvariant, CrossInitInv, CrossNextInv, PTL DEF ResearchSpec
=============================================================================
