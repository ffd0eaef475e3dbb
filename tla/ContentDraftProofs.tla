--------------------------- MODULE ContentDraftProofs ---------------------------
(***************************************************************************)
(* What ContentDraft promises, for texts of any lengths.                    *)
(***************************************************************************)
EXTENDS ContentDraft, TLAPS

(***************************************************************************)
(* The inductive invariant.  While the text is split, the sentences before  *)
(* start are placed, those from start to next - 1 are in the post being     *)
(* filled, length is theirs, and the post before could not have taken one   *)
(* more.                                                                    *)
(***************************************************************************)
Filling ==
  step = "split" =>
    /\ next \in 1..(draft.text.count + 1)
    /\ start \in 1..next
    /\ start = next => next = 1
    /\ length = IF next = 1 THEN 0 ELSE Span(draft.text, start, next - 1)
    /\ start < next - 1 => length <= Budget
    /\ Placed = start - 1
    /\ posts # <<>> => Span(draft.text, posts[Len(posts)].first, start) > Budget

\* Only a split makes posts, and it starts from nothing.
Unsplit ==
  /\ step = "idle" => next = 1 /\ start = 1 /\ length = 0
  /\ step \notin {"split", "number", "thread", "refused"} => posts = <<>>

\* The posts follow one another and end inside the text.
Chained ==
  /\ \A n \in 1..Len(posts) :
       /\ posts[n].first = IF n = 1 THEN 1 ELSE posts[n - 1].last + 1
       /\ posts[n].first <= posts[n].last
       /\ posts[n].last <= draft.text.count
  /\ step \in {"number", "thread"} => Placed = draft.text.count /\ posts # <<>>

DraftInv ==
  /\ DraftTypeOK
  /\ Filling
  /\ Unsplit
  /\ Chained
  /\ PostsFilled
  /\ RefusedForCause

-----------------------------------------------------------------------------
(* Texts.                                                                   *)

\* A text has a number of sentences.
LEMMA TextCount ==
  ASSUME NEW t \in TextCases
  PROVE  t.count \in Nat /\ 1 <= t.count /\ t.count <= MaxSentences /\ MaxSentences \in Nat
<1>1. t \in Text /\ t.count <= MaxSentences
  BY TextAssumption
<1>2. t.count \in Nat \ {0}
  BY <1>1 DEF Text
<1>3. MaxSentences \in Nat
  BY DEF MaxSentences
<1> QED BY <1>1, <1>2, <1>3

\* The ends of sentences, and so the lengths of runs of them, are numbers.
LEMMA TextFacts ==
  ASSUME NEW t \in TextCases
  PROVE  /\ t.count \in Nat
         /\ \A n \in 1..t.count : t.ends[n] \in Nat
         /\ \A m, n \in 1..t.count : Starts(t, m) \in Int /\ Span(t, m, n) \in Int
<1>1. t \in Text /\ t.count \in Nat /\ Len(t.ends) = t.count
  BY TextAssumption, TextCount
<1>2. t.ends \in Seq(Nat)
  BY <1>1 DEF Text
<1>3. \A n \in 1..t.count : t.ends[n] \in Nat
  BY <1>1, <1>2
<1>4. \A m \in 1..t.count : Starts(t, m) \in Int
  BY <1>1, <1>3 DEF Starts
<1> QED BY <1>1, <1>3, <1>4 DEF Span

\* A joined run of sentences grows by a space and the next sentence.
LEMMA SpanGrows ==
  ASSUME NEW t \in TextCases, NEW m \in 1..t.count, NEW n \in 1..t.count, m < n
  PROVE  Span(t, m, n) = Span(t, m, n - 1) + 1 + Span(t, n, n)
<1>1. Starts(t, n) = t.ends[n - 1] + 1
  BY TextFacts DEF Starts
<1>2. n - 1 \in 1..t.count
  BY TextCount
<1>3. t.ends[n] \in Nat /\ t.ends[n - 1] \in Nat /\ Starts(t, m) \in Int
  BY <1>2, TextFacts
<1> QED BY <1>1, <1>3 DEF Span

\* What the types say of a draft under way.
LEMMA DraftTyped ==
  ASSUME DraftInv
  PROVE  /\ draft.text \in TextCases
         /\ draft.text.count \in Nat /\ 1 <= draft.text.count
         /\ posts \in Seq(Post) /\ next \in Nat /\ checked \in 0..Len(posts)
<1>1. draft.text \in TextCases
  BY DEF DraftInv, DraftTypeOK
<1>2. posts \in Seq(Post) /\ next \in 1..(MaxSentences + 1) /\ checked \in 0..Len(posts)
  BY DEF DraftInv, DraftTypeOK
<1>3. next \in Nat
  BY <1>2
<1> QED BY <1>1, <1>2, <1>3, TextCount

\* What the next sentence needs is the length it leads to.
LEMMA NeededIsSpan ==
  ASSUME DraftInv, step = "split", next <= draft.text.count
  PROVE  Needed(next) = Span(draft.text, start, next) /\ Needed(next) \in Int
<1>1. draft.text \in TextCases
  BY DEF DraftInv, DraftTypeOK
<1>2. draft.text.count \in Nat /\ next \in Nat
  BY DraftTyped
<1>5. /\ start \in 1..draft.text.count /\ next \in 1..draft.text.count /\ start <= next
      /\ length = IF next = 1 THEN 0 ELSE Span(draft.text, start, next - 1)
  BY <1>2 DEF DraftInv, Filling
<1>3. CASE start = next
  BY <1>1, <1>5, <1>3, TextFacts DEF Needed
<1>4. CASE start < next
  BY <1>1, <1>5, <1>4, TextFacts, SpanGrows DEF Needed
<1> QED BY <1>5, <1>3, <1>4

\* With at most nine posts a number takes four characters.
LEMMA ShortSuffix ==
  ASSUME NEW n \in Nat \ {0}, n < 10, NEW i \in 1..n
  PROVE  Suffix(i, n) = 4
BY DEF Suffix, Digits

-----------------------------------------------------------------------------
(* The steps of the split.                                                  *)

\* Closing the post that is being filled keeps what is said of the posts.
LEMMA PostClosed ==
  ASSUME DraftInv, step = "split", start < next,
         posts' = Append(posts, [first |-> start, last |-> next - 1]),
         draft' = draft
  PROVE  /\ posts' \in Seq(Post) /\ Len(posts') = Len(posts) + 1
         /\ posts'[Len(posts')] = [first |-> start, last |-> next - 1]
         /\ \A n \in 1..Len(posts') :
              /\ posts'[n].first = IF n = 1 THEN 1 ELSE posts'[n - 1].last + 1
              /\ posts'[n].first <= posts'[n].last
              /\ posts'[n].last <= draft.text.count
         /\ PostsFilled'
<1> DEFINE last == [first |-> start, last |-> next - 1]
<1>0. posts \in Seq(Post) /\ draft.text \in TextCases /\ draft.text.count \in Nat /\ next \in Nat
  BY DraftTyped
<1>1. /\ start \in 1..draft.text.count /\ next \in 2..(draft.text.count + 1)
      /\ length = Span(draft.text, start, next - 1)
      /\ start < next - 1 => length <= Budget
      /\ Placed = start - 1
      /\ posts # <<>> => Span(draft.text, posts[Len(posts)].first, start) > Budget
      /\ posts \in Seq(Post) /\ draft.text \in TextCases
      /\ draft.text.count \in Nat
  BY <1>0 DEF DraftInv, Filling
<1>2. last \in Post
  BY <1>1 DEF Post
<1>3. /\ posts' \in Seq(Post) /\ Len(posts') = Len(posts) + 1
      /\ posts'[Len(posts')] = last
      /\ \A n \in 1..Len(posts) : posts'[n] = posts[n]
  BY <1>1, <1>2
<1>4. posts # <<>> => start = posts[Len(posts)].last + 1
  BY <1>1 DEF Placed, Post
<1>5. posts = <<>> => start = 1
  BY <1>1 DEF Placed
<1>6. ASSUME NEW n \in 1..Len(posts')
      PROVE  /\ posts'[n].first = IF n = 1 THEN 1 ELSE posts'[n - 1].last + 1
             /\ posts'[n].first <= posts'[n].last
             /\ posts'[n].last <= draft.text.count
  <2>1. CASE n = Len(posts')
    BY <1>1, <1>3, <1>4, <1>5, <2>1
  <2>2. CASE n \in 1..Len(posts)
    BY <1>3, <2>2 DEF DraftInv, Chained
  <2> QED BY <1>3, <2>1, <2>2
<1>7. PostsFilled'
  <2> SUFFICES ASSUME NEW n \in 1..Len(posts')
               PROVE  /\ posts'[n].first < posts'[n].last =>
                           Span(draft.text, posts'[n].first, posts'[n].last) <= Budget
                      /\ n < Len(posts') =>
                           Span(draft.text, posts'[n].first, posts'[n + 1].first) > Budget
    BY DEF PostsFilled, Span, Starts
  <2>1. CASE n = Len(posts')
    BY <1>1, <1>3, <2>1
  <2>2. CASE n = Len(posts)
    BY <1>1, <1>3, <2>2 DEF DraftInv, PostsFilled
  <2>3. CASE n \in 1..(Len(posts) - 1)
    BY <1>1, <1>3, <2>3 DEF DraftInv, PostsFilled
  <2> QED BY <1>1, <1>3, <2>1, <2>2, <2>3
<1> QED BY <1>3, <1>6, <1>7

\* Placing a sentence keeps what is said of the split.
LEMMA SentencePlaced ==
  ASSUME DraftInv, PlaceSentence PROVE DraftInv'
<1>1. /\ step = "split" /\ step' = "split" /\ next <= draft.text.count /\ next' = next + 1
      /\ draft' = draft /\ checked' = checked
  BY DEF PlaceSentence
<1>9. /\ draft.text \in TextCases /\ draft.text.count \in Nat /\ draft.text.count <= MaxSentences
      /\ MaxSentences \in Nat /\ draft'.text.count = draft.text.count
      /\ next \in Nat /\ 1 <= next /\ next <= draft.text.count
      /\ start \in Nat /\ 1 <= start /\ start <= next
  <2>1. draft.text \in TextCases /\ draft.text.count \in Nat /\ next \in Nat
    BY DraftTyped
  <2>2. draft.text.count <= MaxSentences /\ MaxSentences \in Nat
    BY <2>1, TextCount
  <2>3. next \in 1..(draft.text.count + 1) /\ start \in 1..next
    BY <1>1 DEF DraftInv, Filling
  <2> QED BY <1>1, <2>1, <2>2, <2>3
<1>2. /\ next \in 1..draft.text.count /\ start \in 1..next /\ length \in Nat /\ checked \in 0..Len(posts)
      /\ posts \in Seq(Post) /\ Len(posts) \in Nat
      /\ start = next => next = 1
      /\ posts # <<>> => Span(draft.text, posts[Len(posts)].first, start) > Budget
      /\ Placed = start - 1
  <2>1. posts \in Seq(Post) /\ checked \in 0..Len(posts) /\ length \in Nat
    BY DEF DraftInv, DraftTypeOK
  <2>2. next \in 1..draft.text.count /\ start \in 1..next
    BY <1>9
  <2>3. /\ start = next => next = 1
        /\ posts # <<>> => Span(draft.text, posts[Len(posts)].first, start) > Budget
        /\ Placed = start - 1
    BY <1>1 DEF DraftInv, Filling
  <2> QED BY <2>1, <2>2, <2>3
<1>10. next' \in 1..(MaxSentences + 1)
  BY <1>1, <1>9
<1>3. Needed(next) = Span(draft.text, start, next) /\ Needed(next) \in Int
  BY <1>1, NeededIsSpan
<1>4. Span(draft.text, next, next) \in Nat
  <2>1. Span(draft.text, next, next) \in Int
    BY <1>2, <1>9, TextFacts
  <2>2. Span(draft.text, next, next) > 0
    BY <1>2, <1>9, TextAssumption
  <2> QED BY <2>1, <2>2
<1>5. Needed(next) \in Nat
  BY <1>2, <1>4 DEF Needed
<1>6. Unsplit' /\ RefusedForCause'
  BY <1>1 DEF Unsplit, RefusedForCause
<1>7. CASE start < next /\ Needed(next) > Budget
  <2>1. /\ posts' = Append(posts, [first |-> start, last |-> next - 1])
        /\ start' = next /\ length' = Span(draft.text, next, next)
    BY <1>7 DEF PlaceSentence
  <2>2. /\ posts' \in Seq(Post) /\ Len(posts') = Len(posts) + 1
        /\ posts'[Len(posts')] = [first |-> start, last |-> next - 1]
        /\ \A n \in 1..Len(posts') :
              /\ posts'[n].first = IF n = 1 THEN 1 ELSE posts'[n - 1].last + 1
              /\ posts'[n].first <= posts'[n].last
              /\ posts'[n].last <= draft.text.count
        /\ PostsFilled'
    BY <1>1, <1>7, <2>1, PostClosed
  <2>3. DraftTypeOK'
    <3>1. start' \in 1..(MaxSentences + 1)
      BY <1>9, <2>1
    <3>3. length' \in Nat
      BY <1>4, <2>1
    <3>2. checked' \in 0..Len(posts')
      BY <1>1, <1>2, <2>2
    <3> QED BY <1>1, <1>10, <2>2, <3>1, <3>2, <3>3 DEF DraftInv, DraftTypeOK
  <2>4. posts' # <<>>
    BY <1>2, <2>2
  <2>5. Span(draft.text, start, next) > Budget
    BY <1>3, <1>7
  <2>6. Span(draft'.text, posts'[Len(posts')].first, start') > Budget
    BY <1>1, <2>1, <2>2, <2>5
  <2>7. Placed' = start' - 1
    BY <1>2, <2>1, <2>2, <2>4 DEF Placed
  <2>8. length' = Span(draft'.text, start', next' - 1)
    BY <1>1, <1>2, <2>1
  <2>11. next' \in 1..(draft'.text.count + 1) /\ start' \in 1..next' /\ start' = next' - 1 /\ next' # 1
    BY <1>1, <1>9, <2>1
  <2>12. start' # next' /\ ~(start' < next' - 1)
    BY <1>1, <1>9, <2>1
  <2>9. Filling'
    BY <2>6, <2>7, <2>8, <2>11, <2>12 DEF Filling
  <2>10. Chained'
    BY <1>1, <2>2 DEF Chained
  <2> QED BY <1>6, <2>2, <2>3, <2>9, <2>10 DEF DraftInv
<1>8. CASE ~(start < next /\ Needed(next) > Budget)
  <2>1. posts' = posts /\ start' = start /\ length' = Needed(next)
    BY <1>8 DEF PlaceSentence
  <2>2. DraftTypeOK'
    <3>1. start' \in 1..(MaxSentences + 1)
      BY <1>9, <2>1
    <3>2. length' \in Nat
      BY <1>5, <2>1
    <3> QED BY <1>1, <1>10, <2>1, <3>1, <3>2 DEF DraftInv, DraftTypeOK
  <2>3. Chained' /\ PostsFilled'
    BY <1>1, <2>1 DEF DraftInv, Chained, PostsFilled, Placed, Span, Starts
  <2>4. length' = Span(draft'.text, start', next' - 1)
    BY <1>1, <1>2, <1>3, <2>1
  <2>5. start' < next' - 1 => length' <= Budget
    BY <1>1, <1>2, <1>5, <1>8, <2>1 DEF Budget
  <2>6. Placed' = start' - 1
    BY <1>2, <2>1 DEF Placed
  <2>7. posts' # <<>> => Span(draft'.text, posts'[Len(posts')].first, start') > Budget
    BY <1>1, <1>2, <2>1
  <2>9. /\ next' \in 1..(draft'.text.count + 1) /\ start' \in 1..next'
        /\ next' # 1 /\ start' # next'
    BY <1>1, <1>9, <2>1
  <2>8. Filling'
    BY <2>4, <2>5, <2>6, <2>7, <2>9 DEF Filling
  <2> QED BY <1>6, <2>2, <2>3, <2>8 DEF DraftInv
<1> QED BY <1>7, <1>8

\* The last post ends with the text.
LEMMA ThreadEnded ==
  ASSUME DraftInv, EndThread PROVE DraftInv'
<1>1. /\ step = "split" /\ step' = "number" /\ next > draft.text.count
      /\ posts' = Append(posts, [first |-> start, last |-> next - 1])
      /\ UNCHANGED <<draft, next, start, length, checked>>
  BY DEF EndThread
<1>2. /\ posts \in Seq(Post) /\ next \in Nat
      /\ checked \in 0..Len(posts)
  BY DraftTyped
<1>10. draft.text.count \in Nat /\ 1 <= draft.text.count
  BY DraftTyped
<1>3. next = draft.text.count + 1 /\ start < next
  <2>1. next \in 1..(draft.text.count + 1) /\ start \in 1..next /\ (start = next => next = 1)
    BY <1>1 DEF DraftInv, Filling
  <2>2. next = draft.text.count + 1
    BY <1>1, <1>10, <2>1
  <2> QED BY <1>10, <2>1, <2>2
<1>4. /\ posts' \in Seq(Post) /\ Len(posts') = Len(posts) + 1
      /\ posts'[Len(posts')] = [first |-> start, last |-> next - 1]
      /\ \A n \in 1..Len(posts') :
            /\ posts'[n].first = IF n = 1 THEN 1 ELSE posts'[n - 1].last + 1
            /\ posts'[n].first <= posts'[n].last
            /\ posts'[n].last <= draft.text.count
      /\ PostsFilled'
  BY <1>1, <1>3, PostClosed
<1>5. posts' # <<>>
  BY <1>2, <1>4
<1>6. Placed' = draft.text.count
  BY <1>3, <1>4, <1>5, <1>10 DEF Placed
<1>7. DraftTypeOK'
  BY <1>1, <1>2, <1>4 DEF DraftInv, DraftTypeOK, Steps
<1>8. Chained'
  BY <1>1, <1>4, <1>5, <1>6 DEF Chained
<1>9. Filling' /\ Unsplit' /\ RefusedForCause'
  BY <1>1 DEF Filling, Unsplit, RefusedForCause
<1> QED BY <1>4, <1>7, <1>8, <1>9 DEF DraftInv

\* A post that is not valid has a faulty link, is one long sentence or has a
\* long number.
LEMMA RefusalHasCause ==
  ASSUME DraftInv, step = "number", NEW n \in 1..Len(posts),
         ~Valid("x", PostLength(n), posts[n].first..posts[n].last)
  PROVE  \/ draft.text.faulty # {}
         \/ \E m \in 1..draft.text.count : Span(draft.text, m, m) > Budget
         \/ Len(posts) >= 10
<1>1. SUFFICES ASSUME draft.text.faulty = {}, Len(posts) < 10,
                      \A m \in 1..draft.text.count : Span(draft.text, m, m) <= Budget
               PROVE  FALSE
  <2>1. Len(posts) \in Nat
    BY DEF DraftInv, DraftTypeOK
  <2>2. ASSUME NEW m \in 1..draft.text.count PROVE Span(draft.text, m, m) \in Int
    BY TextFacts DEF DraftInv, DraftTypeOK
  <2> QED BY <2>1, <2>2 DEF Budget
<1>2. /\ draft.text \in TextCases /\ posts \in Seq(Post) /\ draft.text.count \in Nat
  BY DraftTyped
<1>3. posts[n].first \in Nat /\ posts[n].last \in Nat
  <2>1. posts[n] \in Post
    BY <1>2
  <2> QED BY <2>1 DEF Post
<1>4. /\ posts[n].first <= posts[n].last /\ posts[n].last <= draft.text.count
      /\ n = 1 => posts[n].first = 1
      /\ n > 1 => posts[n].first = posts[n - 1].last + 1
  BY DEF DraftInv, Chained
<1>5. posts[n].first >= 1
  <2>1. CASE n = 1
    BY <1>4, <2>1
  <2>2. CASE n > 1
    <3>1. posts[n - 1].last \in Nat
      <4>1. n - 1 \in 1..Len(posts)
        BY <1>2, <2>2
      <4>2. posts[n - 1] \in Post
        BY <1>2, <4>1
      <4> QED BY <4>2 DEF Post
    <3> QED BY <1>4, <2>2, <3>1
  <2> QED BY <2>1, <2>2
<1>6. posts[n].first \in 1..draft.text.count /\ posts[n].last \in 1..draft.text.count
  <2>1. draft.text.count \in Nat
    BY <1>2, TextCount
  <2> QED BY <1>3, <1>4, <1>5, <2>1
<1>7. Span(draft.text, posts[n].first, posts[n].last) \in Int
  BY <1>2, <1>6, TextFacts
<1>11. Len(posts) \in Nat /\ n \in Nat /\ 1 <= n /\ n <= Len(posts)
  BY <1>2
<1>8. Span(draft.text, posts[n].first, posts[n].last) <= Budget
  <2>1. CASE posts[n].first = posts[n].last
    BY <1>1, <1>6, <2>1
  <2>2. CASE posts[n].first < posts[n].last
    BY <2>2 DEF DraftInv, PostsFilled
  <2> QED BY <1>3, <1>4, <2>1, <2>2
<1>9. Suffix(n, Len(posts)) = 4
  <2>1. Len(posts) \in Nat \ {0} /\ Len(posts) < 10
    BY <1>1, <1>11
  <2> QED BY <2>1, ShortSuffix
<1>10. PostLength(n) <= 280
  BY <1>7, <1>8, <1>9 DEF PostLength, Budget
<1> QED BY <1>1, <1>10 DEF Valid, Limit

-----------------------------------------------------------------------------
(* Every step.                                                              *)

\* Nothing is drafted at first.
LEMMA DraftInitInv == DraftInit(TextCases) => DraftInv
<1> SUFFICES ASSUME DraftInit(TextCases) PROVE DraftInv
  OBVIOUS
<1>1. DraftTypeOK
  <2>1. draft \in [text : TextCases, platform : Platforms, route : BOOLEAN] /\ step \in Steps
    BY DEF DraftInit, Steps
  <2>2. next \in 1..(MaxSentences + 1) /\ start \in 1..(MaxSentences + 1) /\ length \in Nat
    <3>1. MaxSentences \in Nat
      BY DEF MaxSentences
    <3> QED BY <3>1 DEF DraftInit
  <2>3. posts \in Seq(Post) /\ checked \in 0..Len(posts)
    BY DEF DraftInit
  <2> QED BY <2>1, <2>2, <2>3 DEF DraftTypeOK
<1>2. Filling /\ Unsplit /\ Chained
  BY DEF DraftInit, Filling, Unsplit, Chained
<1>3. PostsFilled /\ RefusedForCause
  BY DEF DraftInit, PostsFilled, RefusedForCause
<1> QED BY <1>1, <1>2, <1>3 DEF DraftInv

\* An action that answers a draft at once has no posts, and keeps everything
\* but the step and the text.
LEMMA AnsweredAtOnce ==
  ASSUME DraftInv, step \in {"idle", "written"},
         UNCHANGED <<next, start, length, posts, checked>>,
         draft' \in [text : TextCases, platform : Platforms, route : BOOLEAN],
         step' \in {"whole", "valid", "written", "stored", "refused", "raised"}
  PROVE  DraftInv'
<1>1. posts = <<>> /\ posts' = <<>>
  BY DEF DraftInv, Unsplit
<1>2. DraftTypeOK'
  BY DEF DraftInv, DraftTypeOK, Steps
<1>3. Filling' /\ Unsplit'
  BY <1>1 DEF Filling, Unsplit
<1>4. Chained' /\ PostsFilled' /\ RefusedForCause'
  BY <1>1 DEF Chained, PostsFilled, RefusedForCause
<1> QED BY <1>2, <1>3, <1>4 DEF DraftInv

\* The invariant is kept by every step.
LEMMA DraftNextInv == DraftInv /\ [DraftNext]_draftVars => DraftInv'
<1> SUFFICES ASSUME DraftInv, [DraftNext]_draftVars PROVE DraftInv'
  OBVIOUS
<1>0. draft \in [text : TextCases, platform : Platforms, route : BOOLEAN]
  BY DEF DraftInv, DraftTypeOK
<1>1. CASE DraftWhole
  BY <1>0, <1>1, AnsweredAtOnce DEF DraftWhole
<1>2. CASE StartThread
  <2>1. /\ next = 1 /\ start = 1 /\ length = 0 /\ posts = <<>>
        /\ UNCHANGED <<draft, next, start, length, posts, checked>>
        /\ step' = "split"
    BY <1>2 DEF StartThread, DraftInv, Unsplit
  <2>2. draft.text.count \in Nat
    BY <1>0, TextCount
  <2>3. DraftTypeOK'
    BY <2>1 DEF DraftInv, DraftTypeOK, Steps
  <2>4. Filling' /\ Unsplit'
    BY <2>1, <2>2 DEF Filling, Unsplit, Placed
  <2>5. Chained' /\ PostsFilled' /\ RefusedForCause'
    BY <2>1 DEF Chained, PostsFilled, RefusedForCause
  <2> QED BY <2>3, <2>4, <2>5 DEF DraftInv
<1>3. CASE PlaceSentence
  BY <1>3, SentencePlaced
<1>4. CASE EndThread
  BY <1>4, ThreadEnded
<1>5. CASE ValidatePost
  <2>1. /\ step = "number" /\ checked < Len(posts)
        /\ UNCHANGED <<draft, next, start, length, posts>>
        /\ step' \in {"number", "thread", "refused"}
        /\ checked' \in {checked, checked + 1}
    BY <1>5 DEF ValidatePost
  <2>2. DraftTypeOK'
    BY <2>1 DEF DraftInv, DraftTypeOK, Steps
  <2>3. Chained' /\ PostsFilled'
    BY <2>1 DEF DraftInv, Chained, PostsFilled, Placed, Span, Starts
  <2>4. RefusedForCause'
    <3>1. SUFFICES ASSUME step' = "refused" PROVE RefusedForCause'
      BY DEF RefusedForCause
    <3>2. ~Valid("x", PostLength(checked + 1), posts[checked + 1].first..posts[checked + 1].last)
      BY <1>5, <2>1, <3>1 DEF ValidatePost
    <3>3. checked + 1 \in 1..Len(posts)
      BY <2>1 DEF DraftInv, DraftTypeOK
    <3> QED BY <2>1, <3>2, <3>3, RefusalHasCause DEF RefusedForCause, Span, Starts
  <2>5. Filling' /\ Unsplit'
    BY <2>1 DEF Filling, Unsplit
  <2> QED BY <2>2, <2>3, <2>4, <2>5 DEF DraftInv
<1>6. ASSUME NEW asked \in BOOLEAN, NEW answer \in ToneAnswers, ContentValidate(asked, answer)
      PROVE  DraftInv'
  BY <1>0, <1>6, AnsweredAtOnce DEF ContentValidate
<1>7. ASSUME NEW text \in TextCases, Generate(text) PROVE DraftInv'
  <2>1. draft' \in [text : TextCases, platform : Platforms, route : BOOLEAN]
    BY <1>0, <1>7 DEF Generate
  <2> QED BY <1>7, <2>1, AnsweredAtOnce DEF Generate
<1>8. CASE GenerateRaises
  BY <1>0, <1>8, AnsweredAtOnce DEF GenerateRaises
<1>9. CASE StoreDraft
  BY <1>0, <1>9, AnsweredAtOnce DEF StoreDraft
<1>10. CASE UNCHANGED draftVars
  <2>1. UNCHANGED <<draft, step, next, start, length, posts, checked>>
    BY <1>10 DEF draftVars
  <2>2. DraftTypeOK'
    BY <2>1 DEF DraftInv, DraftTypeOK
  <2>3. Filling' /\ Unsplit'
    <3>1. Placed' = Placed
      BY <2>1 DEF Placed
    <3> QED BY <2>1, <3>1 DEF DraftInv, Filling, Unsplit, Span, Starts
  <2>4. Chained'
    BY <2>1 DEF DraftInv, Chained, Placed
  <2>5. PostsFilled'
    BY <2>1 DEF DraftInv, PostsFilled, Span, Starts
  <2>6. RefusedForCause'
    BY <2>1 DEF DraftInv, RefusedForCause, Span, Starts
  <2> QED BY <2>2, <2>3, <2>4, <2>5, <2>6 DEF DraftInv
<1> QED BY <1>1, <1>2, <1>3, <1>4, <1>5, <1>6, <1>7, <1>8, <1>9, <1>10 DEF DraftNext

\* The invariant always holds.
LEMMA DraftInvariant == DraftSpec => []DraftInv
BY DraftInitInv, DraftNextInv, PTL DEF DraftSpec

-----------------------------------------------------------------------------

(***************************************************************************)
(* The drafting state of content_draft and of the route is always of its    *)
(* type.                                                                    *)
(***************************************************************************)
THEOREM DraftTypeCorrect == DraftSpec => []DraftTypeOK
<1>1. DraftInv => DraftTypeOK
  BY DEF DraftInv
<1> QED BY <1>1, DraftInvariant, PTL

(***************************************************************************)
(* _build_raw_posts loses, repeats and moves no sentence, whatever the text.*)
(***************************************************************************)
THEOREM DraftPostsCoverText == DraftSpec => []PostsCoverText
<1>1. DraftInv => PostsCoverText
  BY DEF DraftInv, Chained, PostsCoverText
<1> QED BY <1>1, DraftInvariant, PTL

(***************************************************************************)
(* _build_raw_posts fills every post as far as the next sentence allows and *)
(* never fills a post of several sentences over its budget.                 *)
(***************************************************************************)
THEOREM DraftPostsFilled == DraftSpec => []PostsFilled
<1>1. DraftInv => PostsFilled
  BY DEF DraftInv
<1> QED BY <1>1, DraftInvariant, PTL

(***************************************************************************)
(* The five characters content_draft reserves for the number suffice for a  *)
(* thread of less than ten posts: if such a thread is refused, the text is  *)
(* to blame.                                                                *)
(***************************************************************************)
THEOREM DraftRefusedForCause == DraftSpec => []RefusedForCause
<1>1. DraftInv => RefusedForCause
  BY DEF DraftInv
<1> QED BY <1>1, DraftInvariant, PTL

-----------------------------------------------------------------------------
(***************************************************************************)
(* Every draft ends.  A bound on the steps to come: two for a sentence yet  *)
(* to be placed, which is placed and may close a post that is then          *)
(* validated; one for each post there is, and those that end a stage.       *)
(***************************************************************************)
DraftLeft ==
  CASE step = "idle"    -> 2 * draft.text.count + 4
    [] step = "written" -> 1
    [] step = "split"   -> 2 * (draft.text.count + 1 - next) + Len(posts) + 3
    [] step = "number"  -> Len(posts) - checked + 1
    [] OTHER            -> 0

\* What is answered at once, is.
LEMMA AnswerEnds ==
  ASSUME DraftInv, \/ step = "idle" /\ step' \in Steps \ {"idle", "split", "number"}
                   \/ step = "written" /\ step' \in {"stored", "refused"}
  PROVE  DraftLeft' < DraftLeft
<1>1. draft.text.count \in Nat
  BY DraftTyped
<1>2. step \in {"idle", "written"} /\ DraftLeft \in {1, 2 * draft.text.count + 4}
  BY DEF DraftLeft
<1>3. CASE step = "idle"
  <2>1. DraftLeft = 2 * draft.text.count + 4 /\ DraftLeft' \in {0, 1}
    BY <1>3 DEF DraftLeft, Steps
  <2> QED BY <1>1, <2>1
<1>4. CASE step = "written"
  <2>1. DraftLeft = 1 /\ DraftLeft' = 0
    BY <1>4 DEF DraftLeft
  <2> QED BY <2>1
<1> QED BY <1>2, <1>3, <1>4

\* The arithmetic of the bound: c sentences, the n-th the next one, a posts now
\* and b after the step.
LEMMA OneFewer ==
  ASSUME NEW c \in Nat, NEW n \in Nat, NEW a \in Nat, NEW b \in Nat, b <= a + 1
  PROVE  /\ 2 * (c + 1 - (n + 1)) + b + 3 < 2 * (c + 1 - n) + a + 3
         /\ n <= c + 1 => b + 1 < 2 * (c + 1 - n) + a + 3
<1>1. PICK left \in Int : left = c + 1 - n
  OBVIOUS
<1>2. c + 1 - (n + 1) = left - 1
  BY <1>1
<1>3. 2 * (left - 1) + b + 3 < 2 * left + a + 3
  OBVIOUS
<1>4. n <= c + 1 => left >= 0
  BY <1>1
<1>5. left >= 0 => b + 1 < 2 * left + a + 3
  OBVIOUS
<1> QED BY <1>1, <1>2, <1>3, <1>4, <1>5

LEMMA DraftLeftTyped == DraftInv => DraftLeft \in Nat
<1> SUFFICES ASSUME DraftInv PROVE DraftLeft \in Nat
  OBVIOUS
<1>1. /\ draft.text.count \in Nat /\ next \in Nat /\ Len(posts) \in Nat
      /\ checked \in Nat /\ checked <= Len(posts)
  <2>1. Len(posts) \in Nat /\ checked \in 0..Len(posts)
    BY DraftTyped
  <2> QED BY <2>1, DraftTyped
<1>2. step = "split" => next <= draft.text.count + 1
  BY <1>1 DEF DraftInv, Filling
<1>3. CASE step = "split"
  <2>1. DraftLeft = 2 * (draft.text.count + 1 - next) + Len(posts) + 3
    BY <1>3 DEF DraftLeft
  <2> QED BY <1>1, <1>2, <1>3, <2>1
<1>4. CASE step = "number"
  <2>1. DraftLeft = Len(posts) - checked + 1
    BY <1>4 DEF DraftLeft
  <2> QED BY <1>1, <2>1
<1>5. CASE step = "idle"
  <2>1. DraftLeft = 2 * draft.text.count + 4
    BY <1>5 DEF DraftLeft
  <2> QED BY <1>1, <2>1
<1>6. CASE step \notin {"idle", "split", "number"}
  <2>1. DraftLeft \in {0, 1}
    BY <1>6 DEF DraftLeft
  <2> QED BY <2>1
<1> QED BY <1>3, <1>4, <1>5, <1>6

\* Every step brings a draft closer to its end.
LEMMA DraftGoesOn == DraftInv /\ DraftNext => DraftLeft' < DraftLeft
<1> SUFFICES ASSUME DraftInv, DraftNext PROVE DraftLeft' < DraftLeft
  OBVIOUS
<1>0. /\ draft.text.count \in Nat /\ next \in Nat
      /\ Len(posts) \in Nat /\ checked \in Nat /\ checked <= Len(posts)
  <2>1. Len(posts) \in Nat /\ checked \in 0..Len(posts)
    BY DraftTyped
  <2> QED BY <2>1, DraftTyped
<1>10. posts \in Seq(Post)
  BY DraftTyped
<1>1. CASE StartThread
  <2>1. step = "idle" /\ step' = "split" /\ UNCHANGED <<draft, next, posts>>
    BY <1>1 DEF StartThread
  <2>2. next = 1 /\ posts = <<>>
    BY <2>1 DEF DraftInv, Unsplit
  <2>3. DraftLeft = 2 * draft.text.count + 4
    BY <2>1 DEF DraftLeft
  <2>4. DraftLeft' = 2 * draft.text.count + 3
    BY <1>0, <2>1, <2>2 DEF DraftLeft
  <2>5. PICK left \in Int : left = 2 * draft.text.count
    BY <1>0
  <2>6. DraftLeft = left + 4 /\ DraftLeft' = left + 3
    BY <2>3, <2>4, <2>5
  <2> QED BY <2>5, <2>6
<1>2. CASE PlaceSentence
  <2>1. /\ step = "split" /\ next <= draft.text.count
        /\ next' = next + 1 /\ UNCHANGED <<draft, step>>
    BY <1>2 DEF PlaceSentence
  <2>2. Len(posts') \in {Len(posts), Len(posts) + 1}
    <3>1. \/ posts' = posts
          \/ posts' = Append(posts, [first |-> start, last |-> next - 1])
      BY <1>2 DEF PlaceSentence
    <3> QED BY <1>10, <3>1
  <2>5. Len(posts') \in Nat /\ Len(posts') <= Len(posts) + 1
    BY <1>0, <2>2
  <2>3. DraftLeft = 2 * (draft.text.count + 1 - next) + Len(posts) + 3
    BY <2>1 DEF DraftLeft
  <2>4. DraftLeft' = 2 * (draft.text.count + 1 - (next + 1)) + Len(posts') + 3
    BY <2>1 DEF DraftLeft
  <2> QED BY <1>0, <2>3, <2>4, <2>5, OneFewer
<1>3. CASE EndThread
  <2>1. /\ step = "split" /\ step' = "number" /\ checked' = checked
        /\ posts' = Append(posts, [first |-> start, last |-> next - 1])
    BY <1>3 DEF EndThread
  <2>2. Len(posts') = Len(posts) + 1
    BY <1>10, <2>1
  <2>3. next <= draft.text.count + 1
    BY <1>0, <2>1 DEF DraftInv, Filling
  <2>4. DraftLeft = 2 * (draft.text.count + 1 - next) + Len(posts) + 3
    BY <2>1 DEF DraftLeft
  <2>5. DraftLeft' = Len(posts') - checked + 1
    BY <2>1 DEF DraftLeft
  <2>6. Len(posts') \in Nat /\ Len(posts') <= Len(posts) + 1
    BY <1>0, <2>2
  <2>7. Len(posts') + 1 < DraftLeft
    BY <1>0, <2>3, <2>4, <2>6, OneFewer
  <2>8. DraftLeft' <= Len(posts') + 1
    BY <1>0, <2>5, <2>6
  <2>9. DraftLeft \in Int /\ DraftLeft' \in Int
    BY <1>0, <2>4, <2>5, <2>6
  <2> QED BY <2>6, <2>7, <2>8, <2>9
<1>4. CASE ValidatePost
  <2>1. /\ step = "number" /\ checked < Len(posts) /\ posts' = posts
        /\ \/ step' = "number" /\ checked' = checked + 1
           \/ step' \in {"thread", "refused"}
    BY <1>4 DEF ValidatePost
  <2>2. DraftLeft = Len(posts) - checked + 1
    BY <2>1 DEF DraftLeft
  <2>3. DraftLeft' \in {0, Len(posts) - (checked + 1) + 1}
    BY <2>1 DEF DraftLeft
  <2> QED BY <1>0, <2>1, <2>2, <2>3
<1>5. CASE DraftWhole
  BY <1>5, AnswerEnds DEF DraftWhole, Steps
<1>6. ASSUME NEW asked \in BOOLEAN, NEW answer \in ToneAnswers, ContentValidate(asked, answer)
      PROVE  DraftLeft' < DraftLeft
  BY <1>6, AnswerEnds DEF ContentValidate, Steps
<1>7. ASSUME NEW text \in TextCases, Generate(text) PROVE DraftLeft' < DraftLeft
  BY <1>7, AnswerEnds DEF Generate, Steps
<1>8. CASE GenerateRaises
  BY <1>8, AnswerEnds DEF GenerateRaises, Steps
<1>9. CASE StoreDraft
  BY <1>9, AnswerEnds DEF StoreDraft, Steps
<1> QED BY <1>1, <1>2, <1>3, <1>4, <1>5, <1>6, <1>7, <1>8, <1>9 DEF DraftNext

(***************************************************************************)
(* The safety half of the liveness of a draft: a text of n sentences has at *)
(* most 2n + 4 steps to go, and each step leaves fewer.  No split and no    *)
(* numbering goes on for ever, whatever the text.                           *)
(***************************************************************************)
THEOREM DraftIsFinite ==
  DraftSpec => /\ [](DraftLeft \in Nat)
               /\ [][DraftLeft' < DraftLeft]_draftVars
<1>1. DraftInv /\ [DraftNext]_draftVars => [DraftLeft' < DraftLeft]_draftVars
  BY DraftGoesOn
<1> QED BY <1>1, DraftLeftTyped, DraftInvariant, PTL DEF DraftSpec
=============================================================================
