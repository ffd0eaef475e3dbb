------------------------------- MODULE Research -------------------------------
(***************************************************************************)
(* DefaultResearchPipeline.run: search, fetch each source, take claims from *)
(* its sentences, cross-check every pair of claims, synthesize.  The loops  *)
(* are shown one iteration at a time; only the sub-tools and the model are  *)
(* awaited, and what those answer is external.                              *)
(***************************************************************************)
EXTENDS Naturals, Sequences, FiniteSets

CONSTANTS
  Urls,
  Hints,          \* Hints[url]: what classify_source recognises in the host
  Texts,          \* sentences, of claim and evidence alike
  Noise,          \* those under 30 characters or like an injected instruction
  Similar,        \* pairs of texts that _overlaps: enough words in common
  Agreeing,       \* pairs of texts that are _consistent: nearly all in common
  Searches,       \* bound: the lists of hits that a search may return
  PagesOf,        \* PagesOf[url]: bound: what a fetch may return
  HasLangSearch,  \* lang_search is registered
  MaxSources,     \* 15
  MaxPerChunk     \* 10

SourceHints == {"government", "publisher", "news", "social"}

Nothing == "nothing"   \* contradicting_evidence is None

\* Jaccard overlap is symmetric.
ASSUME ResearchAssumption ==
  /\ Hints \in [Urls -> SUBSET SourceHints]
  /\ Noise \subseteq Texts /\ Nothing \notin Texts
  /\ \A p, q \in Texts : <<p, q>> \in Similar <=> <<q, p>> \in Similar
  /\ \A p, q \in Texts : <<p, q>> \in Agreeing <=> <<q, p>> \in Agreeing
  /\ Searches \subseteq Seq(Urls)
  /\ PagesOf \in [Urls -> SUBSET Seq([text : Texts, opens : BOOLEAN])]
  /\ HasLangSearch \in BOOLEAN
  /\ MaxSources \in Nat \ {0} /\ MaxPerChunk \in Nat

VARIABLES
  stage,     \* where run() is
  found,     \* history: the hits of the search that answered
  sources,   \* the ranked sources
  at,        \* index of the source at hand
  page,      \* its sentences still to read; opens: the first of a chunk
  kept,      \* claims kept of this chunk
  claims,    \* all_claims
  left,      \* the claims that cross_check compares next
  right

researchVars == <<stage, found, sources, at, page, kept, claims, left, right>>

Claim == [text : Texts, url : Urls, against : Texts \cup {Nothing}]

ResearchInit ==
  /\ stage = "idle"
  /\ found = <<>> /\ sources = <<>> /\ at = 1
  /\ page = <<>> /\ kept = 0
  /\ claims = <<>> /\ left = 1 /\ right = 1

-----------------------------------------------------------------------------
(* Searching.                                                               *)

\* classify_source, as the rank of the type: the first list that knows the host.
SourceRank(url) ==
  IF "government" \in Hints[url] THEN 0
  ELSE IF "publisher" \in Hints[url] THEN 1
  ELSE IF "news" \in Hints[url] THEN 2
  ELSE IF "social" \in Hints[url] THEN 3
  ELSE 4

\* The hits that a hit comes after: those of a lower rank, and of its own those
\* listed before it.
Ahead(hits, m) ==
  {l \in DOMAIN hits : \/ SourceRank(hits[l]) < SourceRank(hits[m])
                       \/ SourceRank(hits[l]) = SourceRank(hits[m]) /\ l < m}

\* sorted() is stable; published_at is never set, so freshness ranks nothing.
ByRank(hits) ==
  [n \in DOMAIN hits |-> hits[CHOOSE m \in DOMAIN hits : Cardinality(Ahead(hits, m)) = n - 1]]

Capped(hits) == SubSeq(hits, 1, IF Len(hits) < MaxSources THEN Len(hits) ELSE MaxSources)

\* Mutant: the cap comes before the ranking.
TopSourcesCappedFirst(hits) == ByRank(Capped(hits))

TopSources(hits) == Capped(ByRank(hits))

Collect(hits) ==
  /\ found' = hits
  /\ sources' = TopSources(hits)
  /\ stage' = IF TopSources(hits) = <<>> THEN "nothing" ELSE "fetch"
  /\ UNCHANGED <<at, page, kept, claims, left, right>>

Search(hits) ==
  /\ stage = "idle"
  /\ IF hits = <<>> /\ HasLangSearch
     THEN /\ stage' = "fallback"
          /\ UNCHANGED <<found, sources, at, page, kept, claims, left, right>>
     ELSE Collect(hits)

\* The lang_search fallback; its errors count as no hits.
SearchAgain(hits) == stage = "fallback" /\ Collect(hits)

-----------------------------------------------------------------------------
(* Extracting evidence.                                                     *)

\* On to the next source, or to cross_check.
SourceDone ==
  /\ at' = at + 1
  /\ page' = <<>> /\ kept' = 0
  /\ stage' = IF at < Len(sources) THEN "fetch"
              ELSE IF claims = <<>> THEN "synthesis" ELSE "compare"
  /\ UNCHANGED <<found, sources, claims, left, right>>

Fetch(sentences) ==
  /\ stage = "fetch"
  /\ sentences \in PagesOf[sources[at]]
  /\ page' = sentences
  /\ stage' = "read"
  /\ UNCHANGED <<found, sources, at, kept, claims, left, right>>

\* The fetch raises: a warning, and the run goes on without the source.
SkipSource == stage = "fetch" /\ SourceDone

\* A chunk overlaps the one before, so its first sentences may be old ones.
ReadSentence ==
  /\ stage = "read" /\ page # <<>>
  /\ LET s == Head(page)
         n == IF s.opens THEN 0 ELSE kept
         take == s.text \notin Noise /\ n < MaxPerChunk
     IN  /\ kept' = IF take THEN n + 1 ELSE n
         /\ claims' = IF take
                      THEN Append(claims, [text |-> s.text, url |-> sources[at],
                                           against |-> Nothing])
                      ELSE claims
  /\ page' = Tail(page)
  /\ UNCHANGED <<stage, found, sources, at, left, right>>

EndPage == stage = "read" /\ page = <<>> /\ SourceDone

-----------------------------------------------------------------------------
(* Cross-checking and synthesis.                                            *)

Clash(c, d) ==
  /\ c.url # d.url
  /\ <<c.text, d.text>> \in Similar
  /\ <<c.text, d.text>> \notin Agreeing

\* The first contradiction of a claim is the one it keeps.
Against(c, d) == IF c.against = Nothing THEN [c EXCEPT !.against = d.text] ELSE c

\* Mutant: only the claim on the left hears of it.
CompareOneSided ==
  LET c == claims[left] d == claims[right]
  IN  /\ stage = "compare"
      /\ claims' = IF left < right /\ Clash(c, d)
                   THEN [claims EXCEPT ![left] = Against(c, d)] ELSE claims
      /\ right' = IF right < Len(claims) THEN right + 1 ELSE 1
      /\ left' = IF right < Len(claims) THEN left ELSE left + 1
      /\ stage' = IF left = Len(claims) /\ right = Len(claims) THEN "synthesis" ELSE stage
      /\ UNCHANGED <<found, sources, at, page, kept>>

Compare ==
  LET c == claims[left] d == claims[right]
  IN  /\ stage = "compare"
      /\ claims' = IF left # right /\ Clash(c, d)
                   THEN [claims EXCEPT ![left] = Against(c, d), ![right] = Against(d, c)]
                   ELSE claims
      /\ right' = IF right < Len(claims) THEN right + 1 ELSE 1
      /\ left' = IF right < Len(claims) THEN left ELSE left + 1
      /\ stage' = IF left = Len(claims) /\ right = Len(claims) THEN "synthesis" ELSE stage
      /\ UNCHANGED <<found, sources, at, page, kept>>

\* The model answers from the claims, the disputed ones apart.
Synthesize ==
  /\ stage = "synthesis"
  /\ stage' = "done"
  /\ UNCHANGED <<found, sources, at, page, kept, claims, left, right>>

\* web_search or the model raises, and so does run().
ResearchRaises ==
  /\ stage \in {"idle", "synthesis"}
  /\ stage' = "raised"
  /\ UNCHANGED <<found, sources, at, page, kept, claims, left, right>>

ResearchNext ==
  \/ \E hits \in Searches : Search(hits) \/ SearchAgain(hits)
  \/ \E sentences \in UNION {PagesOf[url] : url \in Urls} : Fetch(sentences)
  \/ SkipSource \/ ReadSentence \/ EndPage
  \/ Compare \/ Synthesize \/ ResearchRaises

ResearchSpec == ResearchInit /\ [][ResearchNext]_researchVars

-----------------------------------------------------------------------------

Stages == {"idle", "fallback", "nothing", "fetch", "read", "compare", "synthesis", "done", "raised"}

ResearchTypeOK ==
  /\ stage \in Stages
  /\ found \in Seq(Urls) /\ sources \in Seq(Urls) /\ at \in Nat
  /\ page \in Seq([text : Texts, opens : BOOLEAN]) /\ kept \in 0..MaxPerChunk
  /\ claims \in Seq(Claim)
  /\ left \in Nat /\ right \in Nat

\* The claims that contradict claim n.
Clashing(n) == {k \in 1..Len(claims) : k # n /\ Clash(claims[n], claims[k])}

IsFirst(k, K) == k \in K /\ \A m \in K : k <= m

(***************************************************************************)
(* When the answer is written, a claim is disputed exactly if a claim of    *)
(* another source contradicts it, both sides know it, and the evidence it   *)
(* shows against itself is that of the first such claim, although the loops *)
(* record into both claims of every pair as they go.                        *)
(***************************************************************************)
DisputesExact ==
  stage \in {"synthesis", "done"} =>
    \A n \in 1..Len(claims) :
      IF Clashing(n) = {}
      THEN claims[n].against = Nothing
      ELSE \E k \in Clashing(n) :
             IsFirst(k, Clashing(n)) /\ claims[n].against = claims[k].text

(***************************************************************************)
(* The cap on the sources never leaves a hit out for one of a lower rank,   *)
(* and of equals it keeps those the search listed first.                    *)
(***************************************************************************)
BestSourcesKept ==
  sources # <<>> =>
    \A m \in 1..Len(found) :
      (\A n \in 1..Len(sources) : sources[n] # found[m]) =>
        /\ \A n \in 1..Len(sources) : SourceRank(sources[n]) <= SourceRank(found[m])
        /\ Len(sources) = MaxSources
        /\ \A n \in 1..Len(sources) : SourceRank(sources[n]) = SourceRank(found[m]) =>
             \E l \in 1..(m - 1) : found[l] = sources[n]
=============================================================================
