----------------------------- MODULE ContentDraft -----------------------------
(***************************************************************************)
(* Drafting: content_draft, which splits a long text for X into a numbered  *)
(* thread and validates its posts, and POST /content/drafts, which lets the *)
(* model write from research and validates that.                            *)
(*                                                                          *)
(* A text is given by where its sentences end once they are joined by one   *)
(* space each; links are abstracted to the sentences in which validate_links*)
(* finds a fault.  Lengths are the real ones.                               *)
(***************************************************************************)
EXTENDS Integers, Sequences

CONSTANT TextCases   \* bound: the texts that are drafted

\* raw: the length with its original white space.
Text == [count : Nat \ {0}, ends : Seq(Nat), raw : Nat, faulty : SUBSET Nat]

Starts(t, n) == IF n = 1 THEN 0 ELSE t.ends[n - 1] + 1

\* The joined length of sentences m to n.
Span(t, m, n) == t.ends[n] - Starts(t, m)

\* Bound, so that a number has at most three digits.
MaxSentences == 999

ASSUME TextAssumption ==
  \A t \in TextCases :
    /\ t \in Text
    /\ t.count <= MaxSentences /\ Len(t.ends) = t.count
    /\ \A n \in 1..t.count : Span(t, n, n) > 0
    /\ t.raw >= t.ends[t.count]

Platforms == {"x", "linkedin"}

VARIABLES
  draft,      \* the text, its platform and whether it came by the route
  step,       \* where its drafting is
  next,       \* the next sentence to place
  start,      \* the first sentence of the post being filled
  length,     \* current_len
  posts,      \* raw_posts, as pairs of first and last sentence
  checked     \* posts validated

draftVars == <<draft, step, next, start, length, posts, checked>>

Post == [first : Nat, last : Nat]

DraftInit(texts) ==
  /\ draft \in [text : texts, platform : Platforms, route : BOOLEAN]
  /\ step = "idle"
  /\ next = 1 /\ start = 1 /\ length = 0
  /\ posts = <<>> /\ checked = 0

-----------------------------------------------------------------------------
(* Validation.                                                              *)

\* PLATFORM_CHARACTER_LIMITS
Limit(platform) == IF platform = "x" THEN 280 ELSE 3000

\* validate_content: length and links.  Nobody passes existing_hashes, so
\* nothing is ever a duplicate; and no sentence is empty.
Valid(platform, len, sentences) ==
  len <= Limit(platform) /\ draft.text.faulty \cap sentences = {}

WholeValid(text) == Valid(draft.platform, text.raw, 1..text.count)

-----------------------------------------------------------------------------
(* content_draft.                                                           *)

Budget == 275   \* _THREAD_BUDGET

Digits(n) == IF n < 10 THEN 1 ELSE IF n < 100 THEN 2 ELSE 3

\* Mutant: the number stands in brackets.
SuffixBracketed(i, n) == 4 + Digits(i) + Digits(n)

\* " i/N"
Suffix(i, n) == 2 + Digits(i) + Digits(n)

DraftWhole ==
  /\ step = "idle" /\ ~draft.route
  /\ ~(draft.platform = "x" /\ draft.text.raw > 280)
  /\ step' = IF WholeValid(draft.text) THEN "whole" ELSE "refused"
  /\ UNCHANGED <<draft, next, start, length, posts, checked>>

StartThread ==
  /\ step = "idle" /\ ~draft.route
  /\ draft.platform = "x" /\ draft.text.raw > 280
  /\ step' = "split"
  /\ UNCHANGED <<draft, next, start, length, posts, checked>>

\* Mutant: the space before the sentence is forgotten.
NeededNoSpace(n) == IF start = n THEN Span(draft.text, n, n) ELSE length + Span(draft.text, n, n)

Needed(n) == IF start = n THEN Span(draft.text, n, n) ELSE length + 1 + Span(draft.text, n, n)

\* Mutant: the sentence that does not fit is lost with the post it closes.
PlaceSentenceLost ==
  /\ step = "split" /\ next <= draft.text.count
  /\ IF start < next /\ Needed(next) > Budget
     THEN /\ posts' = Append(posts, [first |-> start, last |-> next - 1])
          /\ start' = next + 1
          /\ length' = 0
     ELSE posts' = posts /\ start' = start /\ length' = Needed(next)
  /\ next' = next + 1
  /\ UNCHANGED <<draft, step, checked>>

\* _build_raw_posts: one sentence of the loop.
PlaceSentence ==
  /\ step = "split" /\ next <= draft.text.count
  /\ IF start < next /\ Needed(next) > Budget
     THEN /\ posts' = Append(posts, [first |-> start, last |-> next - 1])
          /\ start' = next
          /\ length' = Span(draft.text, next, next)
     ELSE posts' = posts /\ start' = start /\ length' = Needed(next)
  /\ next' = next + 1
  /\ UNCHANGED <<draft, step, checked>>

EndThread ==
  /\ step = "split" /\ next > draft.text.count
  /\ posts' = Append(posts, [first |-> start, last |-> next - 1])
  /\ step' = "number"
  /\ UNCHANGED <<draft, next, start, length, checked>>

PostLength(n) ==
  Span(draft.text, posts[n].first, posts[n].last) + Suffix(n, Len(posts))

\* The numbered posts are validated in turn; the first that is not valid
\* refuses them all.
ValidatePost ==
  LET n == checked + 1
  IN  /\ step = "number" /\ checked < Len(posts)
      /\ IF Valid("x", PostLength(n), posts[n].first..posts[n].last)
         THEN /\ checked' = n
              /\ step' = IF n = Len(posts) THEN "thread" ELSE step
         ELSE checked' = checked /\ step' = "refused"
      /\ UNCHANGED <<draft, next, start, length, posts>>

-----------------------------------------------------------------------------
(* content_validate.                                                        *)

\* What the model answers the tone checker: nothing, no JSON, JSON that cannot
\* be looped over, issues, or a list of none.
ToneAnswers == {"error", "unreadable", "scalar", "issues", "clean"}

\* ToneSafetyChecker.check fails open: only issues that can be read count.
ToneIssues(answer) == answer = "issues"

\* A text that is not valid is refused before its tone is looked at.  asked: the
\* input names a tone.
ContentValidate(asked, answer) ==
  /\ step = "idle" /\ ~draft.route
  /\ step' = IF ~WholeValid(draft.text) THEN "refused"
             ELSE IF asked /\ answer = "scalar" THEN "raised"
             ELSE IF asked /\ ToneIssues(answer) THEN "refused" ELSE "valid"
  /\ UNCHANGED <<draft, next, start, length, posts, checked>>

-----------------------------------------------------------------------------
(* POST /content/drafts.                                                    *)

\* With research the model writes any text on the topic, here again in draft.
\* The claims lose their dispute markers on the way: the request has none.
Generate(text) ==
  /\ step = "idle" /\ draft.route
  /\ draft' = [draft EXCEPT !.text = text]
  /\ step' = "written"
  /\ UNCHANGED <<next, start, length, posts, checked>>

GenerateRaises ==
  /\ step = "idle" /\ draft.route
  /\ step' = "raised"
  /\ UNCHANGED <<draft, next, start, length, posts, checked>>

\* The row is committed; a text that is too long is refused, not split.
StoreDraft ==
  /\ step \in {"idle", "written"} /\ draft.route
  /\ step' = IF WholeValid(draft.text) THEN "stored" ELSE "refused"
  /\ UNCHANGED <<draft, next, start, length, posts, checked>>

DraftNext ==
  \/ DraftWhole \/ StartThread \/ PlaceSentence \/ EndThread \/ ValidatePost
  \/ \E asked \in BOOLEAN, answer \in ToneAnswers : ContentValidate(asked, answer)
  \/ \E text \in TextCases : Generate(text)
  \/ GenerateRaises \/ StoreDraft

DraftSpec == DraftInit(TextCases) /\ [][DraftNext]_draftVars

-----------------------------------------------------------------------------

Steps == {"idle", "split", "number", "thread", "whole", "valid", "written", "stored", "refused", "raised"}

DraftTypeOK ==
  /\ draft \in [text : TextCases, platform : Platforms, route : BOOLEAN]
  /\ step \in Steps
  /\ next \in 1..(MaxSentences + 1) /\ start \in 1..(MaxSentences + 1) /\ length \in Nat
  /\ posts \in Seq(Post) /\ checked \in 0..Len(posts)

Placed == IF posts = <<>> THEN 0 ELSE posts[Len(posts)].last

(***************************************************************************)
(* A thread says what the text says: its posts are runs of sentences that   *)
(* follow one another from the first sentence to the last, none left out,   *)
(* repeated or moved.                                                       *)
(***************************************************************************)
PostsCoverText ==
  /\ \A n \in 1..Len(posts) :
       /\ posts[n].first = IF n = 1 THEN 1 ELSE posts[n - 1].last + 1
       /\ posts[n].first <= posts[n].last
  /\ step \in {"number", "thread"} => Placed = draft.text.count

(***************************************************************************)
(* "Reserve 5 chars for the numbering suffix": a thread is refused only for *)
(* a faulty link, a sentence that is itself over the budget, or a post      *)
(* filled so tightly that a number of two digits no longer fits, which      *)
(* takes ten posts.                                                         *)
(***************************************************************************)
RefusedForCause ==
  step = "refused" /\ posts # <<>> =>
    \/ draft.text.faulty # {}
    \/ \E n \in 1..draft.text.count : Span(draft.text, n, n) > Budget
    \/ Len(posts) >= 10

(***************************************************************************)
(* The split is not wasteful: no post could have taken the first sentence   *)
(* of the next one, and no post of several sentences is over the budget.    *)
(***************************************************************************)
PostsFilled ==
  \A n \in 1..Len(posts) :
    /\ posts[n].first < posts[n].last =>
         Span(draft.text, posts[n].first, posts[n].last) <= Budget
    /\ n < Len(posts) =>
         Span(draft.text, posts[n].first, posts[n + 1].first) > Budget
=============================================================================
