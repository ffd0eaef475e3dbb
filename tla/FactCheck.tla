------------------------------ MODULE FactCheck ------------------------------
(***************************************************************************)
(* FactCheckTool.execute under the engine's retry: for each claim a search, *)
(* a fetch of every hit and of the claim's own source, and a verdict.  A    *)
(* sub-tool that raises ends the attempt, and the next attempt starts over. *)
(* What the web answers is external and may differ between attempts.        *)
(***************************************************************************)
EXTENDS Naturals, Sequences, FiniteSets

CONSTANTS
  Pages,          \* urls
  NoUrl,          \* a hit without a url
  OwnSource,      \* OwnSource[n]: source_url of claim n, or NoUrl
  HitLists,       \* bound: the lists of hits that a search may return
  MaxHits         \* 5; max_search_results of the input is not looked at

ASSUME FactCheckAssumption ==
  /\ NoUrl \notin Pages
  /\ OwnSource \in Seq(Pages \cup {NoUrl}) /\ OwnSource # <<>>
  /\ HitLists \subseteq Seq(Pages \cup {NoUrl})
  /\ MaxHits \in Nat

MaxTries == 3       \* stop_after_attempt(3)

NClaims == Len(OwnSource)

VARIABLES
  phase,     \* where execute() is
  try,       \* the attempt
  claim,     \* the claim at hand
  hits,      \* its hits still to fetch
  pro,       \* supporting
  con,       \* contradicting
  results,
  observed   \* history: <<claim, url, signal>> of this attempt

factVars == <<phase, try, claim, hits, pro, con, results, observed>>

FactInit ==
  /\ phase = "idle" /\ try = 1 /\ claim = 1
  /\ hits = <<>> /\ pro = <<>> /\ con = <<>>
  /\ results = <<>> /\ observed = {}

Signals == {"supports", "contradicts", "silent"}

-----------------------------------------------------------------------------

\* _verdict; confidence in thousandths.
Confidence(verdict, p, c) ==
  IF verdict = "CONTRADICTED" THEN 300 + (600 * c) \div (c + p)
  ELSE IF verdict = "SUPPORTED" THEN IF p >= 3 THEN 900 ELSE 550 + (350 * p) \div 3
  ELSE 0

\* Mutant: the majority decides.
VerdictMajority(p, c) ==
  IF p = 0 /\ c = 0 THEN "UNVERIFIABLE" ELSE IF c >= p THEN "CONTRADICTED" ELSE "SUPPORTED"

Verdict(p, c) ==
  IF c > 0 THEN "CONTRADICTED" ELSE IF p > 0 THEN "SUPPORTED" ELSE "UNVERIFIABLE"

Result ==
  LET verdict == Verdict(Len(pro), Len(con))
  IN  [claim |-> claim, verdict |-> verdict, evidence |-> pro, contradicting |-> con,
       confidence |-> Confidence(verdict, Len(pro), Len(con))]

StartChecking ==
  /\ phase = "idle"
  /\ phase' = "search"
  /\ UNCHANGED <<try, claim, hits, pro, con, results, observed>>

SearchClaim(list) ==
  /\ phase = "search"
  /\ hits' = SubSeq(list, 1, IF Len(list) < MaxHits THEN Len(list) ELSE MaxHits)
  /\ phase' = "fetch"
  /\ UNCHANGED <<try, claim, pro, con, results, observed>>

\* _signal_for_claim of a fetched page, whatever its status code.
Heard(url, signal) ==
  /\ pro' = IF signal = "supports" THEN Append(pro, url) ELSE pro
  /\ con' = IF signal = "contradicts" THEN Append(con, url) ELSE con
  /\ observed' = observed \cup {<<claim, url, signal>>}

FetchHit(signal) ==
  /\ phase = "fetch" /\ hits # <<>> /\ Head(hits) # NoUrl
  /\ Heard(Head(hits), signal)
  /\ hits' = Tail(hits)
  /\ UNCHANGED <<phase, try, claim, results>>

\* The claim's own source, fetched again if it was among the hits.
FetchOwn(signal) ==
  /\ phase = "fetch" /\ hits = <<>> /\ OwnSource[claim] # NoUrl
  /\ Heard(OwnSource[claim], signal)
  /\ phase' = "judge"
  /\ UNCHANGED <<try, claim, hits, results>>

Judge ==
  /\ \/ phase = "judge"
     \/ phase = "fetch" /\ hits = <<>> /\ OwnSource[claim] = NoUrl
  /\ results' = Append(results, Result)
  /\ pro' = <<>> /\ con' = <<>>
  /\ claim' = claim + 1
  /\ phase' = IF claim = NClaims THEN "done" ELSE "search"
  /\ UNCHANGED <<try, hits, observed>>

\* Mutant: the next attempt goes on with the lists of the last.
SubToolRaisesKeeping ==
  /\ phase \in {"search", "fetch"}
  /\ IF try < MaxTries
     THEN /\ phase' = "search" /\ try' = try + 1 /\ claim' = 1
          /\ hits' = <<>> /\ observed' = {}
          /\ UNCHANGED <<pro, con, results>>
     ELSE phase' = "failed" /\ UNCHANGED <<try, claim, hits, pro, con, results, observed>>

\* Mutant: the attempts are not counted against their limit.
SubToolRaisesUnbounded ==
  /\ phase \in {"search", "fetch"}
  /\ phase' = "search" /\ try' = try + 1 /\ claim' = 1
  /\ hits' = <<>> /\ pro' = <<>> /\ con' = <<>>
  /\ results' = <<>> /\ observed' = {}

\* A ToolError of web_search or web_fetch: the engine runs execute() again, for
\* all claims.
SubToolRaises ==
  /\ \/ phase = "search"
     \/ phase = "fetch" /\ (hits # <<>> \/ OwnSource[claim] # NoUrl)
  /\ IF try < MaxTries
     THEN /\ phase' = "search" /\ try' = try + 1 /\ claim' = 1
          /\ hits' = <<>> /\ pro' = <<>> /\ con' = <<>>
          /\ results' = <<>> /\ observed' = {}
     ELSE phase' = "failed" /\ UNCHANGED <<try, claim, hits, pro, con, results, observed>>

\* A hit without a url is no WebFetchInput, and that error is not retried.
HitRejected ==
  /\ phase = "fetch" /\ hits # <<>> /\ Head(hits) = NoUrl
  /\ phase' = "failed"
  /\ UNCHANGED <<try, claim, hits, pro, con, results, observed>>

FactNext ==
  \/ StartChecking
  \/ \E list \in HitLists : SearchClaim(list)
  \/ \E signal \in Signals : FetchHit(signal) \/ FetchOwn(signal)
  \/ Judge \/ SubToolRaises \/ HitRejected

FactSpec == FactInit /\ [][FactNext]_factVars

-----------------------------------------------------------------------------

\* In thousandths.
Confidences == 0..1000

FactResult == [claim : Nat, verdict : {"CONTRADICTED", "SUPPORTED", "UNVERIFIABLE"},
               evidence : Seq(Pages), contradicting : Seq(Pages), confidence : Confidences]

FactTypeOK ==
  /\ phase \in {"idle", "search", "fetch", "judge", "done", "failed"}
  /\ try \in 1..MaxTries /\ claim \in 1..(NClaims + 1)
  /\ hits \in Seq(Pages \cup {NoUrl})
  /\ pro \in Seq(Pages) /\ con \in Seq(Pages)
  /\ results \in Seq(FactResult)
  /\ observed \subseteq (1..NClaims) \X Pages \X Signals

Cites(list, n, signal) == \A k \in 1..Len(list) : <<n, list[k], signal>> \in observed

(***************************************************************************)
(* A report is of one attempt: one result per claim, in the order of the    *)
(* claims, each citing only pages that this attempt fetched for that claim  *)
(* and that spoke as cited; nothing of an attempt that failed half-way      *)
(* is left in it.                                                           *)
(***************************************************************************)
ReportOfOneAttempt ==
  /\ \A n \in 1..Len(results) :
       /\ results[n].claim = n
       /\ Cites(results[n].evidence, n, "supports")
       /\ Cites(results[n].contradicting, n, "contradicts")
  /\ phase = "done" => Len(results) = NClaims

Spoke(n, signal) == \E url \in Pages : <<n, url, signal>> \in observed

(***************************************************************************)
(* "SUPPORTED only when we found corroboration and no contradiction": the   *)
(* verdict follows from all pages fetched for the claim, wherever in the    *)
(* list they came and however often, and no contradicted claim reaches the  *)
(* confidence of 0.9 while a page supports it.                              *)
(***************************************************************************)
VerdictFollows ==
  \A n \in 1..Len(results) :
    LET verdict == results[n].verdict
    IN  /\ verdict = "CONTRADICTED" <=> Spoke(n, "contradicts")
        /\ verdict = "SUPPORTED" <=> Spoke(n, "supports") /\ ~Spoke(n, "contradicts")
        /\ verdict = "CONTRADICTED" /\ Spoke(n, "supports") => results[n].confidence < 900
=============================================================================
