-------------------------- MODULE SocialPublishProofs -------------------------
(***************************************************************************)
(* The safety properties of SocialPublish, for every number of requests,    *)
(* keys and contents and every bound.                                       *)
(***************************************************************************)
EXTENDS SocialPublish, SequenceTheorems, TLAPS

(***************************************************************************)
(* TypeOK is not inductive: the platform is given a text because a request  *)
(* that has come as far as the INSERT has read the draft.                   *)
(***************************************************************************)
GoodRequest ==
  {q \in Request : q.pc \in {"insert", "post", "accepted", "raised"} => q.content \in Contents}

TypeInv == TypeOK /\ request \in [Requests -> GoodRequest]

LEMMA IdleGood == Idle \in GoodRequest
<1>1. (CHOOSE key \in Keys : TRUE) \in Keys
  BY KeysAssumption
<1>2. Idle \in Request
  BY <1>1 DEF Idle, Request, Errors, MaxTries
<1> QED BY <1>2 DEF Idle, GoodRequest

LEMMA NoRowTyped == NoRow \in Row
BY DEF NoRow, Row

\* Replacing one request by a good one keeps the requests good.
LEMMA BecomeTyped ==
  ASSUME request \in [Requests -> GoodRequest],
         NEW r \in Requests, NEW rec \in GoodRequest, Become(r, rec)
  PROVE  request' \in [Requests -> GoodRequest] /\ request' \in [Requests -> Request]
BY DEF Become, GoodRequest

LEMMA SetRowTyped ==
  ASSUME rows \in [Keys -> Row], NEW key \in Keys, NEW row \in Row, SetRow(key, row)
  PROVE  rows' \in [Keys -> Row]
BY DEF SetRow

LEMMA AcceptedTyped ==
  ASSUME TypeInv, NEW r \in Requests, At(r, "post"), Accepted(r)
  PROVE  posts' \in [Keys -> Seq(Contents)]
<1>1. request[r].content \in Contents /\ Key(r) \in Keys
  BY DEF TypeInv, TypeOK, GoodRequest, Request, At, Key
<1>2. Append(posts[Key(r)], request[r].content) \in Seq(Contents)
  BY <1>1, AppendProperties DEF TypeInv, TypeOK
<1> QED BY <1>1, <1>2 DEF Accepted, TypeInv, TypeOK

LEMMA CalledTyped ==
  ASSUME TypeInv, NEW r \in Requests, Called(r)
  PROVE  /\ calls' \in [Keys -> Nat]
         /\ \A key \in Keys : calls'[key] = IF key = Key(r) THEN calls[key] + 1 ELSE calls[key]
<1>1. calls \in [Keys -> Nat] /\ Key(r) \in Keys
  BY DEF TypeInv, TypeOK, Request, Key
<1>2. calls[Key(r)] + 1 \in Nat
  BY <1>1
<1> QED BY <1>1, <1>2 DEF Called

LEMMA TypeInvInit == Init => TypeInv
<1> SUFFICES ASSUME Init PROVE TypeInv
  OBVIOUS
<1>1. request \in [Requests -> GoodRequest] /\ request \in [Requests -> Request]
  BY IdleGood DEF Init, GoodRequest
<1>2. rows \in [Keys -> Row]
  BY NoRowTyped DEF Init
<1> QED BY <1>1, <1>2, BoundsAssumption DEF Init, TypeInv, TypeOK

LEMMA TypeInvStep == TypeInv /\ [Next]_vars => TypeInv'
<1> SUFFICES ASSUME TypeInv, [Next]_vars PROVE TypeInv'
  OBVIOUS
<1> USE DEF TypeInv
<1>1. ASSUME NEW verdict \in {"approved", "rejected"}, Decide(verdict) PROVE TypeInv'
  BY <1>1 DEF Decide, TypeOK, boundVars
<1>2. ASSUME NEW content \in Contents, UpdateDraft(content) PROVE TypeInv'
  BY <1>2, BoundsAssumption DEF UpdateDraft, TypeOK
<1>3. ASSUME NEW r \in Requests, NEW key \in Keys, Submit(r, key) PROVE TypeInv'
  <2>1. [Idle EXCEPT !.key = key,
                     !.pc = IF approval = "approved" THEN "find" ELSE "refused"] \in GoodRequest
    BY IdleGood DEF GoodRequest, Request, Idle
  <2>2. request' \in [Requests -> GoodRequest] /\ request' \in [Requests -> Request]
    BY <1>3, <2>1, BecomeTyped DEF Submit
  <2> QED BY <1>3, <2>2, BoundsAssumption DEF Submit, TypeOK, dbVars
<1>4. ASSUME NEW r \in Requests, FindDuplicate(r) PROVE TypeInv'
  <2>0. request[r] \in Request /\ rows[Key(r)].post \in Nat /\ draft \in Contents
    <3>1. request[r] \in Request /\ Key(r) \in Keys
      BY DEF GoodRequest, Request, Key
    <3>2. rows[Key(r)] \in Row
      BY <3>1 DEF TypeOK
    <3> QED BY <3>1, <3>2 DEF Row, TypeOK
  <2>1. [request[r] EXCEPT !.pc = "answered", !.post = rows[Key(r)].post] \in GoodRequest
    BY <2>0 DEF GoodRequest, Request
  <2>2. [request[r] EXCEPT !.pc = "insert", !.content = draft] \in GoodRequest
    BY <2>0 DEF GoodRequest, Request
  <2>3. request' \in [Requests -> GoodRequest] /\ request' \in [Requests -> Request]
    BY <1>4, <2>1, <2>2, BecomeTyped DEF FindDuplicate
  <2> QED BY <1>4, <2>3 DEF FindDuplicate, TypeOK, dbVars, boundVars
<1>5. ASSUME NEW r \in Requests, Insert(r) PROVE TypeInv'
  <2>1. [request[r] EXCEPT !.pc = "post"] \in GoodRequest /\ Key(r) \in Keys
    BY <1>5 DEF GoodRequest, Request, Insert, At, Key
  <2>2. [NoRow EXCEPT !.status = "pending", !.content = request[r].content] \in Row
    BY NoRowTyped DEF NoRow, Row, GoodRequest, Request
  <2>3. rows' \in [Keys -> Row]
    BY <1>5, <2>1, <2>2, SetRowTyped DEF Insert, TypeOK
  <2>4. request' \in [Requests -> GoodRequest] /\ request' \in [Requests -> Request]
    BY <1>5, <2>1, BecomeTyped DEF Insert
  <2> QED BY <1>5, <2>3, <2>4 DEF Insert, TypeOK, boundVars
<1>6. ASSUME NEW r \in Requests, InsertConflict(r) PROVE TypeInv'
  <2>1. [request[r] EXCEPT !.pc = "refused"] \in GoodRequest
    BY DEF GoodRequest, Request
  <2>2. request' \in [Requests -> GoodRequest] /\ request' \in [Requests -> Request]
    BY <1>6, <2>1, BecomeTyped DEF InsertConflict
  <2> QED BY <1>6, <2>2 DEF InsertConflict, TypeOK, dbVars, boundVars
<1>7. ASSUME NEW r \in Requests, NEW named \in BOOLEAN, PostAccepted(r, named) PROVE TypeInv'
  <2>1. (IF named THEN Len(posts[Key(r)]) + 1 ELSE 0) \in Nat
    BY LenProperties DEF TypeOK, Key, GoodRequest, Request
  <2>2. [request[r] EXCEPT !.pc = "accepted",
                           !.post = IF named THEN Len(posts[Key(r)]) + 1 ELSE 0] \in GoodRequest
    BY <1>7, <2>1 DEF GoodRequest, Request, PostAccepted, At
  <2>3. request' \in [Requests -> GoodRequest] /\ request' \in [Requests -> Request]
    BY <1>7, <2>2, BecomeTyped DEF PostAccepted
  <2>4. posts' \in [Keys -> Seq(Contents)]
    BY <1>7, AcceptedTyped DEF PostAccepted
  <2>5. calls' \in [Keys -> Nat]
    BY <1>7, CalledTyped DEF PostAccepted
  <2> QED BY <1>7, <2>3, <2>4, <2>5 DEF PostAccepted, TypeOK, dbVars, boundVars
<1>8. ASSUME NEW r \in Requests, NEW error \in {"retryable", "final"}, PostRejected(r, error)
      PROVE TypeInv'
  <2>0. request[r] \in Request /\ request[r].content \in Contents /\ error \in Errors
    BY <1>8 DEF GoodRequest, Request, PostRejected, At, Errors
  <2>1. [request[r] EXCEPT !.pc = "raised", !.error = error] \in GoodRequest
    BY <2>0 DEF GoodRequest, Request
  <2>2. request' \in [Requests -> GoodRequest] /\ request' \in [Requests -> Request]
    BY <1>8, <2>1, BecomeTyped DEF PostRejected
  <2>3. calls' \in [Keys -> Nat]
    BY <1>8, CalledTyped DEF PostRejected
  <2> QED BY <1>8, <2>2, <2>3 DEF PostRejected, TypeOK, dbVars, boundVars
<1>9. ASSUME NEW r \in Requests, NEW error \in {"retryable", "final"}, AnswerLost(r, error)
      PROVE TypeInv'
  <2>0. request[r] \in Request /\ request[r].content \in Contents /\ error \in Errors
    BY <1>9 DEF GoodRequest, Request, AnswerLost, At, Errors
  <2>1. [request[r] EXCEPT !.pc = "raised", !.error = error] \in GoodRequest
    BY <2>0 DEF GoodRequest, Request
  <2>2. request' \in [Requests -> GoodRequest] /\ request' \in [Requests -> Request]
    BY <1>9, <2>1, BecomeTyped DEF AnswerLost
  <2>3. posts' \in [Keys -> Seq(Contents)]
    BY <1>9, AcceptedTyped DEF AnswerLost
  <2>4. calls' \in [Keys -> Nat]
    BY <1>9, CalledTyped DEF AnswerLost
  <2> QED BY <1>9, <2>2, <2>3, <2>4 DEF AnswerLost, TypeOK, dbVars, boundVars
<1>10. ASSUME NEW r \in Requests, CommitSuccess(r) PROVE TypeInv'
  <2>1. [request[r] EXCEPT !.pc = "answered"] \in GoodRequest /\ Key(r) \in Keys
    BY DEF GoodRequest, Request, Key
  <2>2. [rows[Key(r)] EXCEPT !.status = "succeeded", !.post = request[r].post] \in Row
    <3>1. rows[Key(r)] \in Row /\ request[r].post \in Nat
      BY <2>1 DEF GoodRequest, Request, TypeOK
    <3> QED BY <3>1 DEF Row
  <2>3. rows' \in [Keys -> Row]
    BY <1>10, <2>1, <2>2, SetRowTyped DEF CommitSuccess, TypeOK
  <2>4. request' \in [Requests -> GoodRequest] /\ request' \in [Requests -> Request]
    BY <1>10, <2>1, BecomeTyped DEF CommitSuccess
  <2>5. attempts' \in [Keys -> Seq({"succeeded", "failed"})]
    <3>1. Append(attempts[Key(r)], "succeeded") \in Seq({"succeeded", "failed"})
      BY <2>1, AppendProperties DEF TypeOK
    <3> QED BY <1>10, <3>1 DEF CommitSuccess, TypeOK
  <2> QED BY <1>10, <2>3, <2>4, <2>5 DEF CommitSuccess, TypeOK, boundVars
<1>11. ASSUME NEW r \in Requests, CommitFailure(r) PROVE TypeInv'
  <2>1. [request[r] EXCEPT !.pc = "refused"] \in GoodRequest /\ Key(r) \in Keys
    BY DEF GoodRequest, Request, Key
  <2>2. request[r].try < MaxTries =>
          [request[r] EXCEPT !.pc = "find", !.try = @ + 1, !.error = "none"] \in GoodRequest
    <3>1. request[r] \in Request /\ request[r].try \in 1..3
      BY DEF GoodRequest, Request, MaxTries
    <3>2. request[r].try < 3 => request[r].try + 1 \in 1..3
      BY <3>1
    <3> QED BY <3>1, <3>2 DEF GoodRequest, Request, MaxTries, Errors
  <2>3. request' \in [Requests -> GoodRequest] /\ request' \in [Requests -> Request]
    BY <1>11, <2>1, <2>2, BecomeTyped DEF CommitFailure
  <2>4. [rows[Key(r)] EXCEPT !.status = "failed"] \in Row
    BY <2>1 DEF Row, TypeOK
  <2>5. rows' \in [Keys -> Row]
    BY <1>11, <2>1, <2>4, SetRowTyped DEF CommitFailure, TypeOK
  <2>6. attempts' \in [Keys -> Seq({"succeeded", "failed"})]
    <3>1. Append(attempts[Key(r)], "failed") \in Seq({"succeeded", "failed"})
      BY <2>1, AppendProperties DEF TypeOK
    <3> QED BY <1>11, <3>1 DEF CommitFailure, TypeOK
  <2> QED BY <1>11, <2>3, <2>5, <2>6 DEF CommitFailure, TypeOK, boundVars
<1>12. ASSUME NEW r \in Requests, Crash(r) PROVE TypeInv'
  <2>1. request' \in [Requests -> GoodRequest] /\ request' \in [Requests -> Request]
    BY <1>12, IdleGood, BecomeTyped DEF Crash
  <2>2. rows' \in [Keys -> Row]
    BY <1>12, NoRowTyped DEF Crash, TypeOK
  <2> QED BY <1>12, <2>1, <2>2, BoundsAssumption DEF Crash, TypeOK
<1>13. ASSUME NEW key \in Keys, NEW expected \in Contents, NEW found \in BOOLEAN,
              Verify(key, expected, found)
       PROVE TypeInv'
  <2>1. \A check \in {"verified", "failed"} : [rows[key] EXCEPT !.check = check] \in Row
    BY DEF Row, TypeOK
  <2>2. rows' \in [Keys -> Row]
    BY <1>13, <2>1 DEF Verify, SetRow, TypeOK
  <2> QED BY <1>13, <2>2 DEF Verify, TypeOK, boundVars
<1>14. CASE UNCHANGED vars
  BY <1>14 DEF vars, dbVars, boundVars, TypeOK
<1> QED BY <1>1, <1>2, <1>3, <1>4, <1>5, <1>6, <1>7, <1>8, <1>9, <1>10, <1>11, <1>12,
           <1>13, <1>14 DEF Next, Serve

(***************************************************************************)
(* Requests, rows and answers keep their types, for every instance.         *)
(***************************************************************************)
THEOREM PublishTypeCorrect == Spec => []TypeOK
<1>1. TypeInv => TypeOK
  BY DEF TypeInv
<1> QED BY <1>1, TypeInvInit, TypeInvStep, PTL DEF Spec

-----------------------------------------------------------------------------
(***************************************************************************)
(* What the safety properties rest on.  A request between its INSERT and    *)
(* its COMMIT holds the only row of its key, with its own text; while it    *)
(* holds the row unposted, or nobody holds one, every post of the key is    *)
(* accounted for by a crash.                                                *)
(***************************************************************************)
HoldsItsRow ==
  \A r \in Requests : HasRow(r) =>
    /\ rows[Key(r)].status = "pending"
    /\ rows[Key(r)].content = request[r].content

OneHolder ==
  \A r, q \in Requests : HasRow(r) /\ HasRow(q) /\ Key(r) = Key(q) => r = q

FreeKeysOwed == \A key \in Keys : rows[key].status = "none" => Len(posts[key]) <= crashes

UnpostedOwed == \A r \in Requests : At(r, "post") => Len(posts[Key(r)]) <= crashes

AcceptedIsLast ==
  \A r \in Requests : At(r, "accepted") =>
    /\ Len(posts[Key(r)]) > 0
    /\ posts[Key(r)][Len(posts[Key(r)])] = request[r].content
    /\ request[r].post \in {0, Len(posts[Key(r)])}

PublishInv ==
  /\ HoldsItsRow /\ OneHolder
  /\ FreeKeysOwed /\ UnpostedOwed /\ DuplicatesNeedCrashes
  /\ AcceptedIsLast /\ RowStandsForPost /\ AnswersAgree

LEMMA PublishInvInit == Init => PublishInv
<1> SUFFICES ASSUME Init PROVE PublishInv
  OBVIOUS
<1>1. \A r \in Requests : request[r].pc = "idle"
  BY Zenon DEF Init, Idle
<1>2. \A key \in Keys : /\ rows[key].status = "none"
                        /\ Len(posts[key]) = 0
  BY DEF Init, NoRow
<1>3. crashes = 0
  BY DEF Init
<1> QED BY <1>1, <1>2, <1>3
        DEF PublishInv, HoldsItsRow, OneHolder, FreeKeysOwed, UnpostedOwed,
            DuplicatesNeedCrashes, AcceptedIsLast, RowStandsForPost, AnswersAgree, HasRow, At

\* A step that changes at most the request r, which neither gains a row nor an
\* answer, and counters that do not shrink.
LEMMA QuietStep ==
  ASSUME TypeInv, PublishInv, NEW r \in Requests, NEW rec \in Request,
         Become(r, rec), rows' = rows, posts' = posts, crashes' = crashes,
         rec.pc \notin {"post", "accepted", "raised"},
         rec.pc = "answered" => rows[rec.key].status = "succeeded"
                                /\ rows[rec.key].post = rec.post
  PROVE  PublishInv'
<1>1. \A q \in Requests : request'[q] = IF q = r THEN rec ELSE request[q]
  BY DEF Become, TypeInv, TypeOK
<1> QED BY <1>1 DEF PublishInv, HoldsItsRow, OneHolder, FreeKeysOwed, UnpostedOwed,
            DuplicatesNeedCrashes, AcceptedIsLast, RowStandsForPost, AnswersAgree, HasRow, At, Key

\* The platform accepts the text of a request that had not posted yet.
LEMMA AcceptedStep ==
  ASSUME TypeInv, PublishInv, NEW r \in Requests, At(r, "post"), Accepted(r)
  PROVE  /\ Len(posts'[Key(r)]) = Len(posts[Key(r)]) + 1
         /\ posts'[Key(r)][Len(posts[Key(r)]) + 1] = request[r].content
         /\ \A key \in Keys : key # Key(r) => posts'[key] = posts[key]
         /\ \A key \in Keys : Len(posts'[key]) <= 1 + crashes
         /\ \A key \in Keys : Len(posts'[key]) \in Nat
<1>1. Key(r) \in Keys /\ request[r].content \in Contents
  BY DEF TypeInv, TypeOK, GoodRequest, Request, At, Key
<1>2. \A key \in Keys : posts[key] \in Seq(Contents)
  BY DEF TypeInv, TypeOK
<1>3. posts'[Key(r)] = Append(posts[Key(r)], request[r].content)
  BY <1>1 DEF Accepted, TypeInv, TypeOK
<1>4. \A key \in Keys : key # Key(r) => posts'[key] = posts[key]
  BY <1>1 DEF Accepted, TypeInv, TypeOK
<1>5. /\ Len(posts'[Key(r)]) = Len(posts[Key(r)]) + 1
      /\ posts'[Key(r)][Len(posts[Key(r)]) + 1] = request[r].content
  BY <1>1, <1>2, <1>3, AppendProperties
<1>6. Len(posts[Key(r)]) <= crashes
  BY DEF PublishInv, UnpostedOwed
<1>7. \A key \in Keys : Len(posts[key]) <= 1 + crashes /\ Len(posts[key]) \in Nat
  BY <1>2, LenProperties DEF PublishInv, DuplicatesNeedCrashes
<1>8. crashes \in Nat
  BY BoundsAssumption DEF TypeInv, TypeOK
<1>11. \A key \in Keys : Len(posts'[key]) <= 1 + crashes /\ Len(posts'[key]) \in Nat
  <2> TAKE key \in Keys
  <2>1. CASE key = Key(r)
    BY <1>1, <1>5, <1>6, <1>7, <1>8, <2>1
  <2>2. CASE key # Key(r)
    BY <1>4, <1>7, <2>2
  <2> QED BY <2>1, <2>2
<1> QED BY <1>4, <1>5, <1>11

LEMMA PublishInvStep == TypeInv /\ PublishInv /\ [Next]_vars => PublishInv'
<1> SUFFICES ASSUME TypeInv, PublishInv, [Next]_vars PROVE PublishInv'
  OBVIOUS
<1>0. \A r \in Requests : request[r] \in Request /\ Key(r) \in Keys
  BY DEF TypeInv, TypeOK, Request, Key
<1>0b. \A key \in Keys : rows[key] \in Row
  BY DEF TypeInv, TypeOK
<1>1. ASSUME NEW verdict \in {"approved", "rejected"}, Decide(verdict) PROVE PublishInv'
  BY <1>1 DEF Decide, boundVars, PublishInv, HoldsItsRow, OneHolder, FreeKeysOwed, UnpostedOwed, DuplicatesNeedCrashes,
            AcceptedIsLast, RowStandsForPost, AnswersAgree, HasRow, At, Key
<1>2. ASSUME NEW content \in Contents, UpdateDraft(content) PROVE PublishInv'
  BY <1>2 DEF UpdateDraft, PublishInv, HoldsItsRow, OneHolder, FreeKeysOwed, UnpostedOwed, DuplicatesNeedCrashes,
            AcceptedIsLast, RowStandsForPost, AnswersAgree, HasRow, At, Key
<1>3. ASSUME NEW r \in Requests, NEW key \in Keys, Submit(r, key) PROVE PublishInv'
  <2> DEFINE rec == [Idle EXCEPT !.key = key,
                       !.pc = IF approval = "approved" THEN "find" ELSE "refused"]
  <2>1. rec \in Request
    BY IdleGood DEF GoodRequest, Request
  <2>2. rec.pc \in {"find", "refused"}
    BY DEF Idle
  <2> QED BY <1>3, <2>1, <2>2, QuietStep DEF Submit, dbVars
<1>4. ASSUME NEW r \in Requests, FindDuplicate(r) PROVE PublishInv'
  <2>1. CASE rows[Key(r)].status = "succeeded"
    <3> DEFINE rec == [request[r] EXCEPT !.pc = "answered", !.post = rows[Key(r)].post]
    <3>0. request[r] \in Request /\ rows[Key(r)].post \in Nat
      BY <1>0, <1>0b DEF Row
    <3>1. rec \in Request /\ rec.pc = "answered" /\ rec.key = Key(r)
          /\ rec.post = rows[Key(r)].post
      BY <3>0 DEF Request, Key
    <3> QED BY <1>4, <2>1, <3>1, QuietStep DEF FindDuplicate, dbVars, boundVars
  <2>2. CASE rows[Key(r)].status # "succeeded"
    <3> DEFINE rec == [request[r] EXCEPT !.pc = "insert", !.content = draft]
    <3>1. rec \in Request /\ rec.pc = "insert"
      BY <1>0 DEF Request, TypeInv, TypeOK
    <3> QED BY <1>4, <2>2, <3>1, QuietStep DEF FindDuplicate, dbVars, boundVars
  <2> QED BY <2>1, <2>2
<1>5. ASSUME NEW r \in Requests, Insert(r) PROVE PublishInv'
  <2>1. \A q \in Requests :
          request'[q] = IF q = r THEN [request[r] EXCEPT !.pc = "post"] ELSE request[q]
    BY <1>5 DEF Insert, Become, TypeInv, TypeOK
  <2>2. \A key \in Keys :
          rows'[key] = IF key = Key(r)
                       THEN [NoRow EXCEPT !.status = "pending", !.content = request[r].content]
                       ELSE rows[key]
    BY <1>5, <1>0 DEF Insert, SetRow, TypeInv, TypeOK
  <2>3. request'[r].pc = "post" /\ request'[r].key = Key(r)
        /\ request'[r].content = request[r].content
    BY <1>0, <2>1 DEF Request, Key
  <2>4. rows'[Key(r)].status = "pending" /\ rows'[Key(r)].content = request[r].content
    BY <1>0, <2>2 DEF NoRow
  <2>5. rows[Key(r)].status = "none" /\ posts' = posts /\ crashes' = crashes
    BY <1>5 DEF Insert, boundVars
  <2>6. \A q \in Requests : HasRow(q) => Key(q) # Key(r)
    BY <2>5 DEF PublishInv, HoldsItsRow
  <2>7. \A q \in Requests : At(q, "answered") => Key(q) # Key(r)
    BY <2>5 DEF PublishInv, AnswersAgree
  <2>8. \A q \in Requests : request'[q].key = request[q].key
    BY <2>1, <2>3 DEF Key
  <2>9. HoldsItsRow' /\ OneHolder'
    BY <1>0, <2>1, <2>2, <2>3, <2>4, <2>6, <2>8
       DEF PublishInv, HoldsItsRow, OneHolder, HasRow, Key
  <2>10. FreeKeysOwed' /\ UnpostedOwed' /\ DuplicatesNeedCrashes'
    BY <1>0, <2>1, <2>2, <2>3, <2>4, <2>5, <2>8
       DEF PublishInv, FreeKeysOwed, UnpostedOwed, DuplicatesNeedCrashes, At, Key
  <2>11. AcceptedIsLast'
    BY <1>0, <2>1, <2>3, <2>5, <2>8 DEF PublishInv, AcceptedIsLast, At, Key
  <2>12. RowStandsForPost'
    BY <1>0, <2>2, <2>4, <2>5 DEF PublishInv, RowStandsForPost
  <2>13. AnswersAgree'
    BY <1>0, <2>1, <2>2, <2>3, <2>7, <2>8 DEF PublishInv, AnswersAgree, At, Key
  <2> QED BY <2>9, <2>10, <2>11, <2>12, <2>13 DEF PublishInv
<1>6. ASSUME NEW r \in Requests, InsertConflict(r) PROVE PublishInv'
  <2> DEFINE rec == [request[r] EXCEPT !.pc = "refused"]
  <2>1. rec \in Request /\ rec.pc = "refused"
    BY <1>0 DEF Request
  <2> QED BY <1>6, <2>1, QuietStep DEF InsertConflict, dbVars, boundVars
<1>7. ASSUME NEW r \in Requests, NEW named \in BOOLEAN, PostAccepted(r, named) PROVE PublishInv'
  <2>1. At(r, "post") /\ Accepted(r) /\ rows' = rows /\ crashes' = crashes
    BY <1>7 DEF PostAccepted, dbVars, boundVars
  <2>2. \A q \in Requests :
          request'[q] = IF q = r
                        THEN [request[r] EXCEPT !.pc = "accepted",
                                !.post = IF named THEN Len(posts[Key(r)]) + 1 ELSE 0]
                        ELSE request[q]
    BY <1>7 DEF PostAccepted, Become, TypeInv, TypeOK
  <2>3. request'[r].pc = "accepted" /\ request'[r].key = Key(r)
        /\ request'[r].content = request[r].content
    BY <1>0, <2>2 DEF Request, Key
  <2>4. \A q \in Requests : request'[q].key = request[q].key
    BY <2>2, <2>3 DEF Key
  <2>5. \A q \in Requests : HasRow(q) /\ q # r => Key(q) # Key(r)
    BY <2>1 DEF PublishInv, OneHolder, HasRow, At
  <2>6. rows[Key(r)].status = "pending"
    BY <2>1 DEF PublishInv, HoldsItsRow, HasRow, At
  <2>7. HoldsItsRow' /\ OneHolder'
    BY <1>0, <2>1, <2>2, <2>3, <2>4 DEF PublishInv, HoldsItsRow, OneHolder, HasRow, At, Key
  <2>8. FreeKeysOwed' /\ UnpostedOwed'
    BY <1>0, <2>1, <2>2, <2>3, <2>4, <2>5, <2>6, AcceptedStep
       DEF PublishInv, FreeKeysOwed, UnpostedOwed, HasRow, At, Key
  <2>11. DuplicatesNeedCrashes'
    BY <2>1, AcceptedStep DEF DuplicatesNeedCrashes
  <2>12. RowStandsForPost'
    BY <1>0, <2>1, <2>6, AcceptedStep DEF PublishInv, RowStandsForPost
  <2>9. AnswersAgree'
    BY <1>0, <2>1, <2>2, <2>3, <2>4 DEF PublishInv, AnswersAgree, At, Key
  <2>10. AcceptedIsLast'
    <3>1. request'[r].post = (IF named THEN Len(posts[Key(r)]) + 1 ELSE 0)
      BY <1>0, <2>2 DEF Request
    <3>2. Len(posts[Key(r)]) \in Nat
      BY <1>0, LenProperties DEF TypeInv, TypeOK
    <3>3. /\ Len(posts'[Key(r)]) = Len(posts[Key(r)]) + 1
          /\ posts'[Key(r)][Len(posts[Key(r)]) + 1] = request[r].content
      BY <2>1, AcceptedStep
    <3>4. /\ Len(posts'[Key(r)]) > 0
          /\ posts'[Key(r)][Len(posts'[Key(r)])] = request[r].content
          /\ request'[r].post \in {0, Len(posts'[Key(r)])}
      BY <3>1, <3>2, <3>3
    <3>5. ASSUME NEW q \in Requests, q # r, At(q, "accepted")
          PROVE  /\ Len(posts'[Key(q)]) > 0
                 /\ posts'[Key(q)][Len(posts'[Key(q)])] = request[q].content
                 /\ request[q].post \in {0, Len(posts'[Key(q)])}
      <4>1. Key(q) # Key(r)
        BY <2>5, <3>5 DEF HasRow, At
      <4>2. posts'[Key(q)] = posts[Key(q)]
        BY <1>0, <2>1, <4>1, AcceptedStep
      <4> QED BY <3>5, <4>2 DEF PublishInv, AcceptedIsLast
    <3> QED BY <2>2, <2>3, <3>4, <3>5 DEF AcceptedIsLast, At, Key
  <2> QED BY <2>7, <2>8, <2>9, <2>10, <2>11, <2>12 DEF PublishInv
<1>8. ASSUME NEW r \in Requests, NEW error \in {"retryable", "final"}, PostRejected(r, error)
      PROVE PublishInv'
  <2>1. \A q \in Requests :
          request'[q] = IF q = r THEN [request[r] EXCEPT !.pc = "raised", !.error = error]
                        ELSE request[q]
    BY <1>8 DEF PostRejected, Become, TypeInv, TypeOK
  <2>2. request'[r].pc = "raised" /\ request'[r].key = Key(r)
        /\ request'[r].content = request[r].content
    BY <1>0, <2>1 DEF Request, Key
  <2>3. At(r, "post") /\ rows' = rows /\ posts' = posts /\ crashes' = crashes
    BY <1>8 DEF PostRejected, dbVars, boundVars
  <2> QED BY <2>1, <2>2, <2>3 DEF PublishInv, HoldsItsRow, OneHolder, FreeKeysOwed, UnpostedOwed, DuplicatesNeedCrashes,
            AcceptedIsLast, RowStandsForPost, AnswersAgree, HasRow, At, Key
<1>9. ASSUME NEW r \in Requests, NEW error \in {"retryable", "final"}, AnswerLost(r, error)
      PROVE PublishInv'
  <2>1. At(r, "post") /\ Accepted(r) /\ rows' = rows /\ crashes' = crashes
    BY <1>9 DEF AnswerLost, dbVars, boundVars
  <2>2. \A q \in Requests : request'[q] = IF q = r THEN [request[r] EXCEPT !.pc = "raised", !.error = error]
                                           ELSE request[q]
    BY <1>9 DEF AnswerLost, Become, TypeInv, TypeOK
  <2>3. request'[r].pc = "raised" /\ request'[r].key = Key(r)
        /\ request'[r].content = request[r].content
    BY <1>0, <2>2 DEF Request, Key
  <2>4. \A q \in Requests : request'[q].key = request[q].key
    BY <2>2, <2>3 DEF Key
  <2>5. \A q \in Requests : HasRow(q) /\ q # r => Key(q) # Key(r)
    BY <2>1 DEF PublishInv, OneHolder, HasRow, At
  <2>6. rows[Key(r)].status = "pending"
    BY <2>1 DEF PublishInv, HoldsItsRow, HasRow, At
  <2>7. HoldsItsRow' /\ OneHolder'
    BY <1>0, <2>1, <2>2, <2>3, <2>4 DEF PublishInv, HoldsItsRow, OneHolder, HasRow, At, Key
  <2>8. FreeKeysOwed' /\ UnpostedOwed'
    BY <1>0, <2>1, <2>2, <2>3, <2>4, <2>5, <2>6, AcceptedStep
       DEF PublishInv, FreeKeysOwed, UnpostedOwed, HasRow, At, Key
  <2>11. DuplicatesNeedCrashes'
    BY <2>1, AcceptedStep DEF DuplicatesNeedCrashes
  <2>12. RowStandsForPost'
    BY <1>0, <2>1, <2>6, AcceptedStep DEF PublishInv, RowStandsForPost
  <2>9. AnswersAgree'
    BY <1>0, <2>1, <2>2, <2>3, <2>4 DEF PublishInv, AnswersAgree, At, Key
  <2>10. AcceptedIsLast'
    <3>1. \A q \in Requests : At(q, "accepted") /\ q # r => posts'[Key(q)] = posts[Key(q)]
      BY <1>0, <2>1, <2>5, AcceptedStep DEF HasRow, At
    <3> QED BY <1>0, <2>2, <2>3, <2>4, <3>1 DEF PublishInv, AcceptedIsLast, At, Key
  <2> QED BY <2>7, <2>8, <2>9, <2>10, <2>11, <2>12 DEF PublishInv
<1>10. ASSUME NEW r \in Requests, CommitSuccess(r) PROVE PublishInv'
  <2>1. HasRow(r) /\ posts' = posts /\ crashes' = crashes
    BY <1>10 DEF CommitSuccess, boundVars, HasRow, At
  <2>2. rows[Key(r)].status = "pending" /\ rows[Key(r)].content = request[r].content
    BY <2>1 DEF PublishInv, HoldsItsRow
  <2>3. \A key \in Keys : rows'[key] = IF key = Key(r) THEN [rows[Key(r)] EXCEPT !.status = "succeeded",
                                                           !.post = request[r].post]
                                       ELSE rows[key]
    BY <1>10, <1>0 DEF CommitSuccess, SetRow, TypeInv, TypeOK
  <2>4. rows'[Key(r)].status = "succeeded" /\ rows'[Key(r)].content = request[r].content
        /\ rows'[Key(r)].post = request[r].post
    BY <1>0, <1>0b, <2>2, <2>3 DEF Row
  <2>5. \A q \in Requests : q # r => request'[q] = request[q]
    BY <1>10 DEF CommitSuccess, Become, TypeInv, TypeOK
  <2>6. request'[r] = [request[r] EXCEPT !.pc = "answered"]
    BY <1>10 DEF CommitSuccess, Become, TypeInv, TypeOK
  <2>7. request'[r].pc = "answered" /\ request'[r].key = Key(r)
        /\ request'[r].post = request[r].post
    BY <1>0, <2>6 DEF Request, Key
  <2>8. \A q \in Requests : HasRow(q) /\ q # r => Key(q) # Key(r)
    BY <2>1 DEF PublishInv, OneHolder
  <2>9. \A q \in Requests : At(q, "answered") => Key(q) # Key(r)
    BY <2>2 DEF PublishInv, AnswersAgree
  <2>11. HoldsItsRow' /\ OneHolder'
    BY <1>0, <2>1, <2>3, <2>5, <2>7, <2>8
       DEF PublishInv, HoldsItsRow, OneHolder, HasRow, At, Key
  <2>15. FreeKeysOwed' /\ UnpostedOwed' /\ DuplicatesNeedCrashes'
    BY <1>0, <2>1, <2>3, <2>4, <2>5, <2>7
       DEF PublishInv, FreeKeysOwed, UnpostedOwed, DuplicatesNeedCrashes, At, Key
  <2>12. AcceptedIsLast' /\ RowStandsForPost'
    <3>1. /\ Len(posts[Key(r)]) > 0
          /\ posts[Key(r)][Len(posts[Key(r)])] = request[r].content
          /\ request[r].post \in {0, Len(posts[Key(r)])}
      BY <1>10 DEF CommitSuccess, PublishInv, AcceptedIsLast
    <3> QED BY <1>0, <2>1, <2>3, <2>4, <2>5, <2>7, <3>1
            DEF PublishInv, AcceptedIsLast, RowStandsForPost, At, Key
  <2>13. AnswersAgree'
    BY <1>0, <2>3, <2>4, <2>5, <2>7, <2>9 DEF PublishInv, AnswersAgree, At, Key
  <2> QED BY <2>11, <2>12, <2>13, <2>15 DEF PublishInv
<1>11. ASSUME NEW r \in Requests, CommitFailure(r) PROVE PublishInv'
  <2>1. HasRow(r) /\ posts' = posts /\ crashes' = crashes
    BY <1>11 DEF CommitFailure, boundVars, HasRow, At
  <2>2. rows[Key(r)].status = "pending" /\ rows[Key(r)].content = request[r].content
    BY <2>1 DEF PublishInv, HoldsItsRow
  <2>3. \A key \in Keys : rows'[key] = IF key = Key(r) THEN [rows[Key(r)] EXCEPT !.status = "failed"]
                                       ELSE rows[key]
    BY <1>11, <1>0 DEF CommitFailure, SetRow, TypeInv, TypeOK
  <2>4. rows'[Key(r)].status = "failed" /\ rows'[Key(r)].content = request[r].content
    BY <1>0, <1>0b, <2>2, <2>3 DEF Row
  <2>5. \A q \in Requests : q # r => request'[q] = request[q]
    BY <1>11 DEF CommitFailure, Become, TypeInv, TypeOK
  <2>6. request'[r].pc \in {"find", "refused"} /\ request'[r].key = Key(r)
    BY <1>11, <1>0 DEF CommitFailure, Become, TypeInv, TypeOK, Request, Key
  <2>7. \A q \in Requests : HasRow(q) /\ q # r => Key(q) # Key(r)
    BY <2>1 DEF PublishInv, OneHolder
  <2>8. \A q \in Requests : At(q, "answered") => Key(q) # Key(r)
    BY <2>2 DEF PublishInv, AnswersAgree
  <2>10. HoldsItsRow' /\ OneHolder' /\ FreeKeysOwed' /\ UnpostedOwed' /\ DuplicatesNeedCrashes'
    BY <1>0, <2>1, <2>3, <2>4, <2>5, <2>6, <2>7
       DEF PublishInv, HoldsItsRow, OneHolder, FreeKeysOwed, UnpostedOwed,
           DuplicatesNeedCrashes, HasRow, At, Key
  <2>11. AcceptedIsLast' /\ RowStandsForPost' /\ AnswersAgree'
    BY <1>0, <2>1, <2>3, <2>4, <2>5, <2>6, <2>8
       DEF PublishInv, AcceptedIsLast, RowStandsForPost, AnswersAgree, At, Key
  <2> QED BY <2>10, <2>11 DEF PublishInv
<1>12. ASSUME NEW r \in Requests, Crash(r) PROVE PublishInv'
  <2>1. crashes' = crashes + 1 /\ posts' = posts /\ crashes \in Nat
    BY <1>12, BoundsAssumption DEF Crash, TypeInv, TypeOK
  <2>2. \A key \in Keys : Len(posts[key]) \in Nat
    BY LenProperties DEF TypeInv, TypeOK
  <2>3. \A q \in Requests : request'[q] = IF q = r THEN Idle ELSE request[q]
    BY <1>12 DEF Crash, Become, TypeInv, TypeOK
  <2>4. Idle.pc = "idle"
    BY DEF Idle
  <2>5. \A key \in Keys : rows'[key] = IF HasRow(r) /\ key = Key(r) THEN NoRow ELSE rows[key]
    BY <1>12, <1>0 DEF Crash, TypeInv, TypeOK
  <2>6. HasRow(r) => rows[Key(r)].status = "pending"
    BY DEF PublishInv, HoldsItsRow
  <2>7. NoRow.status = "none"
    BY DEF NoRow
  <2>8. \A q \in Requests : HasRow(r) /\ HasRow(q) /\ q # r => Key(q) # Key(r)
    BY DEF PublishInv, OneHolder
  <2>9. HoldsItsRow' /\ OneHolder'
    BY <1>0, <2>3, <2>4, <2>5, <2>8 DEF PublishInv, HoldsItsRow, OneHolder, HasRow, Key
  <2>10. FreeKeysOwed' /\ UnpostedOwed' /\ DuplicatesNeedCrashes'
    BY <1>0, <2>1, <2>2, <2>3, <2>4, <2>5
       DEF PublishInv, FreeKeysOwed, UnpostedOwed, DuplicatesNeedCrashes, At, Key
  <2>11. AcceptedIsLast'
    BY <1>0, <2>1, <2>3, <2>4 DEF PublishInv, AcceptedIsLast, At, Key
  <2>12. RowStandsForPost'
    BY <1>0, <2>1, <2>5, <2>7 DEF PublishInv, RowStandsForPost
  <2>13. AnswersAgree'
    <3>1. \A q \in Requests : At(q, "answered") /\ HasRow(r) => Key(q) # Key(r)
      BY <2>6 DEF PublishInv, AnswersAgree
    <3> QED BY <1>0, <2>3, <2>4, <2>5, <3>1 DEF PublishInv, AnswersAgree, At, Key
  <2> QED BY <2>9, <2>10, <2>11, <2>12, <2>13 DEF PublishInv
<1>13. ASSUME NEW key \in Keys, NEW expected \in Contents, NEW found \in BOOLEAN,
              Verify(key, expected, found)
       PROVE PublishInv'
  <2>1. \A k \in Keys : /\ rows'[k].status = rows[k].status
                        /\ rows'[k].content = rows[k].content
                        /\ rows'[k].post = rows[k].post
    <3>1. PICK check \in {"verified", "failed"} :
            rows' = [rows EXCEPT ![key] = [rows[key] EXCEPT !.check = check]]
      BY <1>13 DEF Verify, SetRow
    <3> QED BY <1>0b, <3>1 DEF Row, TypeInv, TypeOK
  <2>2. UNCHANGED <<posts, request, crashes>>
    BY <1>13 DEF Verify, boundVars
  <2> QED BY <1>0, <2>1, <2>2 DEF PublishInv, HoldsItsRow, OneHolder, FreeKeysOwed, UnpostedOwed, DuplicatesNeedCrashes,
            AcceptedIsLast, RowStandsForPost, AnswersAgree, HasRow, At, Key
<1>14. CASE UNCHANGED vars
  BY <1>14 DEF vars, dbVars, boundVars, PublishInv, HoldsItsRow, OneHolder, FreeKeysOwed, UnpostedOwed, DuplicatesNeedCrashes,
            AcceptedIsLast, RowStandsForPost, AnswersAgree, HasRow, At, Key
<1> QED BY <1>1, <1>2, <1>3, <1>4, <1>5, <1>6, <1>7, <1>8, <1>9, <1>10, <1>11, <1>12,
           <1>13, <1>14 DEF Next, Serve

(***************************************************************************)
(* The guarantees of the publish path hold for every number of requests and *)
(* keys: only a crash can make the platform post twice for one key or leave *)
(* a call without its attempt, rows carry the text that was posted last,    *)
(* and answers agree.                                                       *)
(***************************************************************************)
THEOREM DuplicatesOnlyByCrashes == Spec => []DuplicatesNeedCrashes
<1>1. PublishInv => DuplicatesNeedCrashes
  BY DEF PublishInv
<1> QED BY <1>1, TypeInvInit, TypeInvStep, PublishInvInit, PublishInvStep, PTL DEF Spec

\* A committed success carries the text of the last post of its key, and names
\* no other.
THEOREM RowsStandForPosts == Spec => []RowStandsForPost
<1>1. PublishInv => RowStandsForPost
  BY DEF PublishInv
<1> QED BY <1>1, TypeInvInit, TypeInvStep, PublishInvInit, PublishInvStep, PTL DEF Spec

\* Every answer of success names the post of the row of its key.
THEOREM AnswersAlwaysAgree == Spec => []AnswersAgree
<1>1. PublishInv => AnswersAgree
  BY DEF PublishInv
<1> QED BY <1>1, TypeInvInit, TypeInvStep, PublishInvInit, PublishInvStep, PTL DEF Spec

-----------------------------------------------------------------------------
(* Every request is finite and waits for nobody but a request that does not *)
(* wait: the safety half of RequestsEnd.                                    *)

\* Who holds an uncommitted row does not wait for one, so the INSERT of another
\* request waits for one transaction and never for a dead one.
PendingIsHeld ==
  \A key \in Keys : rows[key].status = "pending" =>
    \E q \in Requests : HasRow(q) /\ Key(q) = key

WaitsForHolder ==
  \A r \in Requests : At(r, "insert") /\ rows[Key(r)].status = "pending" =>
    \E q \in Requests \ {r} : HasRow(q) /\ Key(q) = Key(r)

\* Four steps to a try, of which the pc tells how many are left.
TryLeft(q) ==
  IF q.pc = "find" THEN 4 ELSE IF q.pc = "insert" THEN 3 ELSE IF q.pc = "post" THEN 2 ELSE 1

StepsLeft(q) ==
  IF q.pc \in {"idle", "answered", "refused"} THEN 0 ELSE 4 * (MaxTries - q.try) + TryLeft(q)

MostSteps == 4 * MaxTries

Shrinking(r) ==
  \/ Finished(r) \/ request'[r] \in {request[r], Idle}
  \/ Serve(r) /\ StepsLeft(request'[r]) < StepsLeft(request[r])

LEMMA ServedRequest ==
  ASSUME TypeInv, NEW r \in Requests
  PROVE  /\ request[r] \in Request /\ Key(r) \in Keys
         /\ request[r].try \in {1, 2, 3}
         /\ \A rec : Become(r, rec) =>
              /\ request'[r] = rec
              /\ \A q \in Requests : q # r => request'[q] = request[q]
<1>1. request[r] \in Request /\ \A q \in Requests : request[q] \in Request
  BY DEF TypeInv, TypeOK
<1>2. request[r].try \in {1, 2, 3} /\ Key(r) \in Keys
  BY <1>1 DEF Request, MaxTries, Key
<1>3. ASSUME NEW rec, Become(r, rec)
      PROVE  request'[r] = rec /\ \A q \in Requests : q # r => request'[q] = request[q]
  BY <1>3 DEF Become, TypeInv, TypeOK
<1> QED BY <1>1, <1>2, <1>3

\* What one step of serving does to the request: it moves on within the try, it
\* starts the next one after the last phase of this, or it is over.
LEMMA ServedMoves ==
  ASSUME TypeInv, NEW r \in Requests, Serve(r)
  PROVE  /\ \/ /\ request'[r].try = request[r].try
               /\ \/ request[r].pc = "find" /\ request'[r].pc \in {"insert", "answered"}
                  \/ request[r].pc = "insert" /\ request'[r].pc \in {"post", "refused"}
                  \/ request[r].pc = "post" /\ request'[r].pc \in {"accepted", "raised"}
                  \/ request[r].pc \in {"accepted", "raised"}
                     /\ request'[r].pc \in {"answered", "refused"}
            \/ /\ request[r].pc = "raised" /\ request'[r].pc = "find"
               /\ request[r].try < MaxTries /\ request'[r].try = request[r].try + 1
         /\ request'[r].key = request[r].key
         /\ \A q \in Requests : q # r => request'[q] = request[q]
<1> DEFINE q == request[r]
<1>0. q \in Request
  BY DEF TypeInv, TypeOK
<1>1. PICK rec : /\ Become(r, rec)
                 /\ \/ /\ q.pc = "find"
                       /\ \/ rec = [q EXCEPT !.pc = "answered", !.post = rows[Key(r)].post]
                          \/ rec = [q EXCEPT !.pc = "insert", !.content = draft]
                    \/ q.pc = "insert" /\ rec = [q EXCEPT !.pc = "post"]
                    \/ q.pc = "insert" /\ rec = [q EXCEPT !.pc = "refused"]
                    \/ /\ q.pc = "post"
                       /\ \/ \E n : rec = [q EXCEPT !.pc = "accepted", !.post = n]
                          \/ \E e : rec = [q EXCEPT !.pc = "raised", !.error = e]
                    \/ q.pc = "accepted" /\ rec = [q EXCEPT !.pc = "answered"]
                    \/ q.pc = "raised" /\ rec = [q EXCEPT !.pc = "refused"]
                    \/ /\ q.pc = "raised" /\ q.try < MaxTries
                       /\ rec = [q EXCEPT !.pc = "find", !.try = @ + 1, !.error = "none"]
  BY Zenon DEF Serve, FindDuplicate, Insert, InsertConflict, PostAccepted, PostRejected,
         AnswerLost, CommitSuccess, CommitFailure, At
<1>2. request'[r] = rec /\ \A p \in Requests : p # r => request'[p] = request[p]
  BY <1>1, ServedRequest, Zenon
<1>3. \/ /\ rec.try = q.try
         /\ \/ q.pc = "find" /\ rec.pc \in {"insert", "answered"}
            \/ q.pc = "insert" /\ rec.pc \in {"post", "refused"}
            \/ q.pc = "post" /\ rec.pc \in {"accepted", "raised"}
            \/ q.pc \in {"accepted", "raised"} /\ rec.pc \in {"answered", "refused"}
      \/ /\ q.pc = "raised" /\ rec.pc = "find"
         /\ q.try < MaxTries /\ rec.try = q.try + 1
  BY <1>0, <1>1, Zenon DEF Request
<1>4. rec.key = q.key
  BY <1>0, <1>1, Zenon DEF Request
<1> QED BY <1>2, <1>3, <1>4

LEMMA ServingShrinks ==
  ASSUME TypeInv, NEW r \in Requests, Serve(r)
  PROVE  StepsLeft(request'[r]) < StepsLeft(request[r])
<1> DEFINE q == request[r]
           p == request'[r]
<1>1. \/ /\ p.try = q.try
         /\ \/ q.pc = "find" /\ p.pc \in {"insert", "answered"}
            \/ q.pc = "insert" /\ p.pc \in {"post", "refused"}
            \/ q.pc = "post" /\ p.pc \in {"accepted", "raised"}
            \/ q.pc \in {"accepted", "raised"} /\ p.pc \in {"answered", "refused"}
      \/ /\ q.pc = "raised" /\ p.pc = "find"
         /\ q.try < MaxTries /\ p.try = q.try + 1
  BY ServedMoves
<1>2. q.try \in {1, 2, 3}
  BY ServedRequest
<1> HIDE DEF p, q
<1> QED BY <1>1, <1>2 DEF StepsLeft, TryLeft, MaxTries, p, q

LEMMA StepsBounded == TypeInv => \A r \in Requests : StepsLeft(request[r]) \in 0..MostSteps
<1> SUFFICES ASSUME TypeInv, NEW r \in Requests PROVE StepsLeft(request[r]) \in 0..MostSteps
  OBVIOUS
<1> QED BY ServedRequest DEF StepsLeft, TryLeft, MostSteps, MaxTries

LEMMA ShrinkingStep ==
  ASSUME TypeInv, [Next]_vars, NEW r \in Requests
  PROVE  Shrinking(r)
<1>1. CASE Serve(r)
  BY <1>1, ServingShrinks DEF Shrinking
<1>2. ASSUME NEW q \in Requests, q # r,
             Serve(q) \/ Crash(q) \/ \E key \in Keys : Submit(q, key)
      PROVE  Shrinking(r)
  <2>1. \E rec : Become(q, rec)
    BY <1>2, Zenon DEF Serve, FindDuplicate, Insert, InsertConflict, PostAccepted, PostRejected,
                AnswerLost, CommitSuccess, CommitFailure, Crash, Submit
  <2>2. request'[r] = request[r]
    BY <1>2, <2>1, ServedRequest
  <2> QED BY <2>2 DEF Shrinking
<1>3. CASE Crash(r)
  <2>1. request'[r] = Idle
    BY <1>3, ServedRequest DEF Crash
  <2> QED BY <2>1 DEF Shrinking
<1>4. CASE \E key \in Keys : Submit(r, key)
  BY <1>4 DEF Submit, Shrinking
<1>5. CASE UNCHANGED request
  BY <1>5 DEF Shrinking
<1> QED BY <1>1, <1>2, <1>3, <1>4, <1>5
        DEF Next, Decide, UpdateDraft, Verify, vars

\* The row of a request that commits or dies is no longer pending; every other
\* pending row keeps its holder.
LEMMA PendingKept ==
  ASSUME TypeInv, PublishInv, PendingIsHeld, [Next]_vars
  PROVE  PendingIsHeld'
<1> SUFFICES ASSUME NEW key \in Keys, rows'[key].status = "pending"
             PROVE  \E q \in Requests : HasRow(q)' /\ Key(q)' = key
  BY DEF PendingIsHeld
<1>0. /\ rows \in [Keys -> Row]
      /\ rows[key].status = "pending" => \E q \in Requests : HasRow(q) /\ Key(q) = key
  BY DEF PendingIsHeld, TypeInv, TypeOK
<1>1. ASSUME NEW r \in Requests, Insert(r) PROVE \E q \in Requests : HasRow(q)' /\ Key(q)' = key
  <2>1. /\ request'[r].pc = "post" /\ request'[r].key = request[r].key
        /\ \A q \in Requests : q # r => request'[q] = request[q]
    BY <1>1, ServedRequest DEF Insert, Request
  <2>2. CASE key = Key(r)
    BY <2>1, <2>2 DEF HasRow, Key
  <2>3. CASE key # Key(r)
    <3>1. rows'[key] = rows[key]
      BY <1>0, <1>1, <2>3 DEF Insert, SetRow
    <3>2. PICK q \in Requests : HasRow(q) /\ Key(q) = key
      BY <1>0, <3>1
    <3>3. q # r
      BY <2>3, <3>2
    <3> QED BY <2>1, <3>2, <3>3 DEF HasRow, Key
  <2> QED BY <2>2, <2>3
<1>2. ASSUME NEW r \in Requests, Serve(r), ~Insert(r)
      PROVE  \E q \in Requests : HasRow(q)' /\ Key(q)' = key
  <2>1. \/ rows' = rows
        \/ /\ HasRow(r) /\ Key(r) # key /\ rows'[key] = rows[key]
    <3>1. CASE CommitSuccess(r)
      <4>1. rows' = [rows EXCEPT ![Key(r)] =
                       [rows[Key(r)] EXCEPT !.status = "succeeded", !.post = request[r].post]]
        BY <3>1 DEF CommitSuccess, SetRow
      <4>2. rows[Key(r)] \in Row /\ Key(r) \in Keys /\ HasRow(r)
        BY <1>0, <3>1, ServedRequest DEF CommitSuccess, At, HasRow
      <4> QED BY <1>0, <4>1, <4>2 DEF Row
    <3>2. CASE CommitFailure(r)
      <4>1. rows' = [rows EXCEPT ![Key(r)] = [rows[Key(r)] EXCEPT !.status = "failed"]]
        BY <3>2 DEF CommitFailure, SetRow
      <4>2. rows[Key(r)] \in Row /\ Key(r) \in Keys /\ HasRow(r)
        BY <1>0, <3>2, ServedRequest DEF CommitFailure, At, HasRow
      <4> QED BY <1>0, <4>1, <4>2 DEF Row
    <3>3. CASE ~CommitSuccess(r) /\ ~CommitFailure(r)
      BY <1>2, <3>3 DEF Serve, FindDuplicate, InsertConflict, PostAccepted, PostRejected,
                        AnswerLost, dbVars
    <3> QED BY <3>1, <3>2, <3>3
  <2>2. PICK q \in Requests : HasRow(q) /\ Key(q) = key
    BY <1>0, <2>1
  <2>3. q # r => HasRow(q)' /\ Key(q)' = key
    BY <1>2, <2>2, ServedMoves DEF HasRow, Key
  <2>4. q = r => HasRow(q)' /\ Key(q)' = key
    <3> SUFFICES ASSUME q = r PROVE HasRow(q)' /\ Key(q)' = key
      OBVIOUS
    <3>1. rows' = rows /\ request[r].pc \in {"post", "accepted", "raised"}
      BY <2>1, <2>2 DEF HasRow
    <3>2. ~CommitSuccess(r) /\ ~CommitFailure(r)
      <4>1. rows'[key].status = "pending" /\ rows[key] \in Row
        BY <1>0
      <4>2. ~CommitSuccess(r)
        <5> SUFFICES ASSUME CommitSuccess(r) PROVE FALSE
          OBVIOUS
        <5>1. rows'[key] = [rows[key] EXCEPT !.status = "succeeded", !.post = request[r].post]
          BY <1>0, <2>2 DEF CommitSuccess, SetRow
        <5> QED BY <4>1, <5>1 DEF Row
      <4>3. ~CommitFailure(r)
        <5> SUFFICES ASSUME CommitFailure(r) PROVE FALSE
          OBVIOUS
        <5>1. rows'[key] = [rows[key] EXCEPT !.status = "failed"]
          BY <1>0, <2>2 DEF CommitFailure, SetRow
        <5> QED BY <4>1, <5>1 DEF Row
      <4> QED BY <4>2, <4>3
    <3>3. request'[r].pc \in {"accepted", "raised"}
      <4>1. request[r].pc = "post"
        BY <1>2, <3>1, <3>2
           DEF Serve, FindDuplicate, InsertConflict, PostAccepted, PostRejected, AnswerLost, At
      <4> QED BY <1>2, <4>1, ServedMoves
    <3> QED BY <1>2, <2>2, <3>3, ServedMoves DEF HasRow, Key
  <2> QED BY <2>3, <2>4
<1>3. ASSUME NEW r \in Requests, Crash(r) PROVE \E q \in Requests : HasRow(q)' /\ Key(q)' = key
  <2>1. rows[key].status = "pending" /\ (HasRow(r) => Key(r) # key)
    BY <1>0, <1>3, ServedRequest DEF Crash, NoRow
  <2>2. PICK q \in Requests : HasRow(q) /\ Key(q) = key
    BY <1>0, <2>1
  <2>3. q # r
    BY <2>1, <2>2
  <2>4. request'[q] = request[q]
    BY <1>3, <2>3, ServedRequest DEF Crash
  <2> QED BY <2>2, <2>4 DEF HasRow, Key
<1>4. ASSUME NEW r \in Requests, NEW k \in Keys, Submit(r, k)
      PROVE  \E q \in Requests : HasRow(q)' /\ Key(q)' = key
  <2>1. PICK q \in Requests : HasRow(q) /\ Key(q) = key
    BY <1>0, <1>4 DEF Submit, dbVars
  <2>2. q # r
    BY <1>4, <2>1 DEF Submit, Finished, HasRow
  <2>3. request'[q] = request[q]
    BY <1>4, <2>2, ServedRequest DEF Submit
  <2> QED BY <2>1, <2>3 DEF HasRow, Key
<1>5. ASSUME NEW k \in Keys, NEW expected, NEW found, Verify(k, expected, found)
      PROVE  \E q \in Requests : HasRow(q)' /\ Key(q)' = key
  <2>1. PICK check : rows' = [rows EXCEPT ![k] = [rows[k] EXCEPT !.check = check]]
    BY <1>5 DEF Verify, SetRow
  <2>2. rows[key].status = "pending" /\ request' = request
    BY <1>0, <1>5, <2>1 DEF Verify, Row
  <2> QED BY <1>0, <2>2 DEF HasRow, Key
<1>6. CASE UNCHANGED <<rows, request>>
  BY <1>0, <1>6 DEF HasRow, Key
<1> QED BY <1>1, <1>2, <1>3, <1>4, <1>5, <1>6
        DEF Next, Decide, UpdateDraft, vars, dbVars

LEMMA PendingInit == Init => PendingIsHeld
BY DEF Init, NoRow, PendingIsHeld

(***************************************************************************)
(* A request under way takes at most MostSteps steps, each leaves fewer, and*)
(* no other request gives it more.  It waits at the INSERT only, and only   *)
(* for another request that holds the row uncommitted and itself waits for  *)
(* nothing: there is no deadlock on rows and no wait for a dead process.    *)
(***************************************************************************)
THEOREM RequestsAreFinite ==
  Spec => /\ [](\A r \in Requests : StepsLeft(request[r]) \in 0..MostSteps)
          /\ [][\A r \in Requests : Shrinking(r)]_vars
          /\ []WaitsForHolder
<1>1. TypeInv /\ PendingIsHeld => WaitsForHolder
  <2> SUFFICES ASSUME TypeInv, PendingIsHeld, NEW r \in Requests, At(r, "insert"),
                      rows[Key(r)].status = "pending"
               PROVE  \E q \in Requests \ {r} : HasRow(q) /\ Key(q) = Key(r)
    BY DEF WaitsForHolder
  <2>1. PICK q \in Requests : HasRow(q) /\ Key(q) = Key(r)
    BY ServedRequest DEF PendingIsHeld
  <2>2. q # r
    BY <2>1 DEF HasRow, At
  <2> QED BY <2>1, <2>2
<1>2. TypeInv /\ [Next]_vars => [\A r \in Requests : Shrinking(r)]_vars
  BY ShrinkingStep
<1>3. TypeInv /\ PublishInv /\ PendingIsHeld /\ [Next]_vars => PendingIsHeld'
  BY PendingKept
<1> QED BY <1>1, <1>2, <1>3, StepsBounded, PendingInit, TypeInvInit, TypeInvStep,
           PublishInvInit, PublishInvStep, PTL DEF Spec

-----------------------------------------------------------------------------
(* Attempts on record.  Only the holder of the row of a key calls the       *)
(* platform for it, so each key has at most one call that is not committed. *)

LEMMA UncommittedMoves ==
  ASSUME PublishInv, NEW r \in Requests, HasRow(r),
         \A q \in Requests : q # r => request'[q] = request[q],
         request'[r].pc \in {"accepted", "raised"} => request'[r].key = Key(r)
  PROVE  \A key \in Keys :
           IF key = Key(r)
           THEN /\ Uncommitted(key) = IF request[r].pc \in {"accepted", "raised"} THEN 1 ELSE 0
                /\ Uncommitted(key)' = IF request'[r].pc \in {"accepted", "raised"} THEN 1 ELSE 0
           ELSE Uncommitted(key)' = Uncommitted(key)
<1>1. \A q \in Requests : q # r /\ request[q].pc \in {"accepted", "raised"} => Key(q) # Key(r)
  BY DEF PublishInv, OneHolder, HasRow
<1> QED BY <1>1 DEF Uncommitted, Key

\* The numbers the property compares, and that it follows from how they move.
LEMMA RecordTyped ==
  ASSUME TypeInv, NEW key \in Keys
  PROVE  calls[key] \in Nat /\ Len(attempts[key]) \in Nat /\ crashes \in Nat
         /\ Uncommitted(key) \in {0, 1}
<1>1. calls[key] \in Nat /\ crashes \in Nat /\ attempts[key] \in Seq({"succeeded", "failed"})
  BY BoundsAssumption DEF TypeInv, TypeOK
<1> QED BY <1>1, LenProperties DEF Uncommitted

\* What a step does to the record of one key.
Untouched(key) ==
  calls'[key] = calls[key] /\ attempts'[key] = attempts[key] /\ Uncommitted(key)' = Uncommitted(key)

CalledNow(key) ==
  /\ calls'[key] = calls[key] + 1 /\ attempts'[key] = attempts[key]
  /\ Uncommitted(key) = 0 /\ Uncommitted(key)' = 1

RecordedNow(key) ==
  /\ calls'[key] = calls[key] /\ Len(attempts'[key]) = Len(attempts[key]) + 1
  /\ Uncommitted(key) = 1 /\ Uncommitted(key)' = 0

ForgottenNow(key) ==
  /\ calls'[key] = calls[key] /\ attempts'[key] = attempts[key]
  /\ Uncommitted(key) = 1 /\ Uncommitted(key)' = 0
  /\ crashes' = crashes + 1

LEMMA RecordStep ==
  ASSUME TypeInv, AttemptsOnRecord, crashes' \in {crashes, crashes + 1},
         \A key \in Keys :
           Untouched(key) \/ CalledNow(key) \/ RecordedNow(key) \/ ForgottenNow(key)
  PROVE  AttemptsOnRecord'
<1> SUFFICES ASSUME NEW key \in Keys
             PROVE  /\ Len(attempts'[key]) + Uncommitted(key)' <= calls'[key]
                    /\ calls'[key] <= Len(attempts'[key]) + Uncommitted(key)' + crashes'
  BY DEF AttemptsOnRecord
<1>1. /\ Len(attempts[key]) + Uncommitted(key) <= calls[key]
      /\ calls[key] <= Len(attempts[key]) + Uncommitted(key) + crashes
  BY DEF AttemptsOnRecord
<1>2. Untouched(key) \/ CalledNow(key) \/ RecordedNow(key) \/ ForgottenNow(key)
  OBVIOUS
<1> QED BY <1>1, <1>2, RecordTyped DEF Untouched, CalledNow, RecordedNow, ForgottenNow

LEMMA AttemptsKept ==
  ASSUME TypeInv, PublishInv, AttemptsOnRecord, [Next]_vars
  PROVE  AttemptsOnRecord'
<1>0. \A key \in Keys : attempts[key] \in Seq({"succeeded", "failed"})
  BY DEF TypeInv, TypeOK
<1>1. ASSUME NEW r \in Requests, Serve(r), HasRow(r) PROVE AttemptsOnRecord'
  <2>1. /\ \A q \in Requests : q # r => request'[q] = request[q]
        /\ request'[r].key = Key(r) /\ crashes' = crashes
    BY <1>1, ServedMoves
       DEF Key, Serve, FindDuplicate, Insert, InsertConflict, PostAccepted, PostRejected,
           AnswerLost, CommitSuccess, CommitFailure, boundVars
  <2>2. \A key \in Keys :
          IF key = Key(r)
          THEN /\ Uncommitted(key) = IF request[r].pc \in {"accepted", "raised"} THEN 1 ELSE 0
               /\ Uncommitted(key)' = IF request'[r].pc \in {"accepted", "raised"} THEN 1 ELSE 0
          ELSE Uncommitted(key)' = Uncommitted(key)
    BY <1>1, <2>1, UncommittedMoves
  <2>3. CASE request[r].pc = "post"
    <3>1. Called(r) /\ attempts' = attempts
      BY <1>1, <2>3
         DEF Serve, FindDuplicate, Insert, InsertConflict, PostAccepted, PostRejected,
             AnswerLost, CommitSuccess, CommitFailure, At, dbVars
    <3>2. request'[r].pc \in {"accepted", "raised"}
      BY <1>1, <2>3, ServedMoves
    <3>3. \A key \in Keys : calls'[key] = IF key = Key(r) THEN calls[key] + 1 ELSE calls[key]
      BY <3>1, CalledTyped
    <3>4. \A key \in Keys : Untouched(key) \/ CalledNow(key)
      BY <2>2, <2>3, <3>1, <3>2, <3>3 DEF Untouched, CalledNow
    <3> QED BY <2>1, <3>4, RecordStep
  <2>4. CASE request[r].pc \in {"accepted", "raised"}
    <3>1. PICK status \in {"succeeded", "failed"} :
            calls' = calls /\ attempts' = [attempts EXCEPT ![Key(r)] = Append(@, status)]
      BY <1>1, <2>4
         DEF Serve, FindDuplicate, Insert, InsertConflict, PostAccepted, PostRejected,
             AnswerLost, CommitSuccess, CommitFailure, At
    <3>2. request'[r].pc \notin {"accepted", "raised"}
      BY <1>1, <2>4, ServedMoves
    <3>3. Key(r) \in Keys /\ Len(Append(attempts[Key(r)], status)) = Len(attempts[Key(r)]) + 1
      BY <1>0, ServedRequest, AppendProperties
    <3>4. \A key \in Keys : IF key = Key(r) THEN Len(attempts'[key]) = Len(attempts[key]) + 1
                                            ELSE attempts'[key] = attempts[key]
      BY <3>1, <3>3 DEF TypeInv, TypeOK
    <3>5. \A key \in Keys : Untouched(key) \/ RecordedNow(key)
      BY <2>2, <2>4, <3>1, <3>2, <3>4 DEF Untouched, RecordedNow
    <3> QED BY <2>1, <3>5, RecordStep
  <2> QED BY <1>1, <2>3, <2>4 DEF HasRow
<1>2. ASSUME NEW r \in Requests, Crash(r) PROVE AttemptsOnRecord'
  <2>1. /\ \A q \in Requests : q # r => request'[q] = request[q]
        /\ request'[r].pc = "idle"
        /\ UNCHANGED <<attempts, calls>> /\ crashes' = crashes + 1
    BY <1>2, ServedRequest DEF Crash, Idle
  <2>2. CASE HasRow(r)
    <3>1. \A key \in Keys : Untouched(key) \/ ForgottenNow(key)
      BY <2>1, <2>2, UncommittedMoves DEF Untouched, ForgottenNow
    <3> QED BY <2>1, <3>1, RecordStep
  <2>3. CASE ~HasRow(r)
    <3>1. \A key \in Keys : Untouched(key)
      BY <2>1, <2>3 DEF Untouched, Uncommitted, HasRow, Key
    <3> QED BY <2>1, <3>1, RecordStep
  <2> QED BY <2>2, <2>3
<1>3. ASSUME NEW r \in Requests, ~HasRow(r), Serve(r) \/ \E key \in Keys : Submit(r, key)
      PROVE AttemptsOnRecord'
  <2>1. /\ \A q \in Requests : q # r => request'[q] = request[q]
        /\ request'[r].pc \notin {"accepted", "raised"}
    <3>1. CASE Serve(r)
      BY <1>3, <3>1, ServedMoves DEF HasRow
    <3>2. CASE \E key \in Keys : Submit(r, key)
      <4>1. PICK key \in Keys : Submit(r, key)
        BY <3>2
      <4> DEFINE rec == [Idle EXCEPT !.key = key,
                           !.pc = IF approval = "approved" THEN "find" ELSE "refused"]
      <4>2. rec.pc \in {"find", "refused"}
        BY DEF Idle
      <4>3. Become(r, rec)
        BY <4>1 DEF Submit
      <4> HIDE DEF rec
      <4> QED BY <4>2, <4>3, ServedRequest
    <3> QED BY <1>3, <3>1, <3>2
  <2>2. UNCHANGED <<attempts, calls, crashes>>
    BY <1>3 DEF Serve, FindDuplicate, Insert, InsertConflict, PostAccepted, PostRejected,
           AnswerLost, CommitSuccess, CommitFailure, Submit, HasRow, At, dbVars, boundVars
  <2>3. \A key \in Keys : Untouched(key)
    BY <1>3, <2>1, <2>2 DEF Untouched, Uncommitted, HasRow, Key
  <2> QED BY <2>2, <2>3, RecordStep
<1>4. CASE UNCHANGED <<request, attempts, calls, crashes>>
  BY <1>4 DEF AttemptsOnRecord, Uncommitted, Key
<1> QED BY <1>1, <1>2, <1>3, <1>4
        DEF Next, Decide, UpdateDraft, Verify, Submit, Finished, HasRow, vars, dbVars, boundVars

LEMMA AttemptsInit == Init => AttemptsOnRecord
<1> SUFFICES ASSUME Init PROVE AttemptsOnRecord
  OBVIOUS
<1>1. \A key \in Keys : calls[key] = 0 /\ Len(attempts[key]) = 0
  BY DEF Init
<1>2. \A r \in Requests : request[r].pc = "idle"
  BY Zenon DEF Init, Idle
<1> QED BY <1>1, <1>2 DEF Init, AttemptsOnRecord, Uncommitted

\* Every call to the platform is on record, but for the one being committed and
\* those that a crash has taken.
THEOREM AttemptsAreRecorded == Spec => []AttemptsOnRecord
<1>1. TypeInv /\ PublishInv /\ AttemptsOnRecord /\ [Next]_vars => AttemptsOnRecord'
  BY AttemptsKept
<1> QED BY <1>1, AttemptsInit, TypeInvInit, TypeInvStep, PublishInvInit, PublishInvStep, PTL DEF Spec
=============================================================================
