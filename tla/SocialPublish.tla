----------------------------- MODULE SocialPublish ----------------------------
(***************************************************************************)
(* Publishing an approved draft: POST /social/{platform}/publish, the       *)
(* publish tools, their platform adapters, the retry of the tool engine and *)
(* the social_posts row whose unique idempotency_key is meant to keep a     *)
(* post from being made twice.  The X and LinkedIn tools are the same code  *)
(* but for names; the platform is external and never forgets a post.        *)
(***************************************************************************)
EXTENDS Integers, Sequences

CONSTANTS
  Requests,     \* publish requests that can be in flight at once
  Keys,         \* idempotency keys, chosen by the clients
  Contents,     \* texts a draft may have; its hash stands for the text
  NoContent,    \* no text
  MaxSubmits,   \* bound: publish requests made in all
  MaxEdits,     \* bound: updates of the draft
  MaxCrashes    \* bound: requests that die with their process

ASSUME ContentsAssumption == NoContent \notin Contents
ASSUME KeysAssumption == Keys # {}
ASSUME BoundsAssumption == MaxSubmits \in Nat /\ MaxEdits \in Nat /\ MaxCrashes \in Nat

VARIABLES
  draft,      \* drafts.content
  approval,   \* approvals.status of the approval the requests name
  rows,       \* rows[key]: the social_posts row of that key, if any
  attempts,   \* attempts[key]: the status of its committed publish_attempts
  posts,      \* posts[key]: the texts the platform accepted for that key
  request,    \* request[r]: the request being served
  calls,      \* history: calls[key]: answers of the platform, lost ones too
  submits, edits, crashes

dbVars == <<draft, approval, rows, attempts>>
boundVars == <<submits, edits, crashes>>
vars == <<dbVars, posts, calls, request, boundVars>>

MaxTries == 3   \* stop_after_attempt(3) of the engine

\* A pending row is the uncommitted insert of its owner; post stands for its
\* external_id: the number of the post among those of its key, 0 for no id.
NoRow == [status |-> "none", content |-> NoContent, post |-> 0, check |-> "unverified"]

Row == [status : {"none", "pending", "succeeded", "failed"},
        content : Contents \cup {NoContent}, post : Nat,
        check : {"unverified", "verified", "failed"}]

Errors == {"none", "retryable", "final"}

\* "answered" and "refused" requests are over; post is the external_id answered.
Idle == [pc |-> "idle", key |-> CHOOSE key \in Keys : TRUE, content |-> NoContent,
         try |-> 1, error |-> "none", post |-> 0]

Request == [pc : {"idle", "find", "insert", "post", "accepted", "raised",
                  "answered", "refused"},
            key : Keys, content : Contents \cup {NoContent}, try : 1..MaxTries,
            error : Errors, post : Nat]

Init ==
  /\ draft \in Contents
  /\ approval = "pending"
  /\ rows = [key \in Keys |-> NoRow]
  /\ attempts = [key \in Keys |-> <<>>]
  /\ posts = [key \in Keys |-> <<>>]
  /\ calls = [key \in Keys |-> 0]
  /\ request = [r \in Requests |-> Idle]
  /\ submits = 0 /\ edits = 0 /\ crashes = 0

At(r, pc) == request[r].pc = pc

Key(r) == request[r].key

Become(r, rec) == request' = [request EXCEPT ![r] = rec]

SetRow(key, row) == rows' = [rows EXCEPT ![key] = row]

-----------------------------------------------------------------------------
(* The humans: deciding the approval, editing the draft.                    *)

Decide(verdict) ==
  /\ approval = "pending"
  /\ approval' = verdict
  /\ UNCHANGED <<draft, rows, attempts, posts, calls, request, boundVars>>

\* PATCH /drafts/{id}: at any time, approved or not.
UpdateDraft(content) ==
  /\ edits < MaxEdits
  /\ edits' = edits + 1
  /\ draft' = content
  /\ UNCHANGED <<approval, rows, attempts, posts, calls, request, submits, crashes>>

-----------------------------------------------------------------------------
(* The route and one attempt of the tool.                                   *)

Finished(r) == request[r].pc \in {"idle", "answered", "refused"}

\* _load_approved_draft looks at the status of the approval; the engine's own
\* check is satisfied by the context the route passes.
Submit(r, key) ==
  /\ Finished(r)
  /\ submits < MaxSubmits
  /\ submits' = submits + 1
  /\ Become(r, [Idle EXCEPT !.key = key,
                            !.pc = IF approval = "approved" THEN "find" ELSE "refused"])
  /\ UNCHANGED <<dbVars, posts, calls, edits, crashes>>

\* Mutant: the draft is not read.
FindDuplicateNoDraft(r) ==
  LET row == rows[Key(r)]
  IN  /\ At(r, "find")
      /\ Become(r, IF row.status = "succeeded"
                   THEN [request[r] EXCEPT !.pc = "answered", !.post = row.post]
                   ELSE [request[r] EXCEPT !.pc = "insert"])
      /\ UNCHANGED <<dbVars, posts, calls, boundVars>>

\* _find_duplicate: the post of a committed success is answered again; if there
\* is none the draft is read.
FindDuplicate(r) ==
  LET row == rows[Key(r)]
  IN  /\ At(r, "find")
      /\ Become(r, IF row.status = "succeeded"
                   THEN [request[r] EXCEPT !.pc = "answered", !.post = row.post]
                   ELSE [request[r] EXCEPT !.pc = "insert", !.content = draft])
      /\ UNCHANGED <<dbVars, posts, calls, boundVars>>

\* Mutant: a failed row does not keep its key.
InsertOverFailed(r) ==
  /\ At(r, "insert")
  /\ rows[Key(r)].status \in {"none", "failed"}
  /\ SetRow(Key(r), [NoRow EXCEPT !.status = "pending", !.content = request[r].content])
  /\ Become(r, [request[r] EXCEPT !.pc = "post"])
  /\ UNCHANGED <<draft, approval, attempts, posts, calls, boundVars>>

\* session.add and flush.  The unique index makes the INSERT wait while another
\* transaction has an uncommitted row of the same key.
Insert(r) ==
  /\ At(r, "insert")
  /\ rows[Key(r)].status = "none"
  /\ SetRow(Key(r), [NoRow EXCEPT !.status = "pending", !.content = request[r].content])
  /\ Become(r, [request[r] EXCEPT !.pc = "post"])
  /\ UNCHANGED <<draft, approval, attempts, posts, calls, boundVars>>

\* Mutant: IntegrityError is retried without end.
InsertConflictRetried(r) ==
  /\ At(r, "insert")
  /\ rows[Key(r)].status \in {"succeeded", "failed"}
  /\ Become(r, [request[r] EXCEPT !.pc = "find"])
  /\ UNCHANGED <<dbVars, posts, calls, boundVars>>

\* IntegrityError: neither the tool nor the retry handles it.  Here ends every
\* retry of the engine, on the failed row of the attempt before: the three
\* attempts that skills/x_publishing/SKILL.md promises come to one call.
InsertConflict(r) ==
  /\ At(r, "insert")
  /\ rows[Key(r)].status \in {"succeeded", "failed"}
  /\ Become(r, [request[r] EXCEPT !.pc = "refused"])
  /\ UNCHANGED <<dbVars, posts, calls, boundVars>>

\* The platform has a new post.
Accepted(r) == posts' = [posts EXCEPT ![Key(r)] = Append(@, request[r].content)]

\* The one call of an attempt is over.
Called(r) == calls' = [calls EXCEPT ![Key(r)] = @ + 1]

\* 201, or 200 of LinkedIn.  An answer that names no id is as good: its
\* external_id is the empty string.
PostAccepted(r, named) ==
  /\ At(r, "post")
  /\ Accepted(r) /\ Called(r)
  /\ Become(r, [request[r] EXCEPT !.pc = "accepted",
                                  !.post = IF named THEN Len(posts[Key(r)]) + 1 ELSE 0])
  /\ UNCHANGED <<dbVars, boundVars>>

\* No post was made.  429 or any other status raises a retryable error, 401,
\* 403 and a failed connection a final one.
PostRejected(r, error) ==
  /\ At(r, "post")
  /\ Called(r)
  /\ Become(r, [request[r] EXCEPT !.pc = "raised", !.error = error])
  /\ UNCHANGED <<dbVars, posts, boundVars>>

\* The platform made the post, but the tool does not hear of it: the answer is
\* lost or unreadable, a final error, or it is some 5xx, a retryable one.
AnswerLost(r, error) ==
  /\ At(r, "post")
  /\ Accepted(r) /\ Called(r)
  /\ Become(r, [request[r] EXCEPT !.pc = "raised", !.error = error])
  /\ UNCHANGED <<dbVars, boundVars>>

\* Mutant: the external_id is not stored.
CommitSuccessNoId(r) ==
  /\ At(r, "accepted")
  /\ SetRow(Key(r), [rows[Key(r)] EXCEPT !.status = "succeeded"])
  /\ attempts' = [attempts EXCEPT ![Key(r)] = Append(@, "succeeded")]
  /\ Become(r, [request[r] EXCEPT !.pc = "answered"])
  /\ UNCHANGED <<draft, approval, posts, calls, boundVars>>

\* Mutant: the hash is taken of the draft as it is after the call.
CommitSuccessRehashed(r) ==
  /\ At(r, "accepted")
  /\ SetRow(Key(r), [rows[Key(r)] EXCEPT !.status = "succeeded", !.post = request[r].post,
                                         !.content = draft])
  /\ attempts' = [attempts EXCEPT ![Key(r)] = Append(@, "succeeded")]
  /\ Become(r, [request[r] EXCEPT !.pc = "answered"])
  /\ UNCHANGED <<draft, approval, posts, calls, boundVars>>

CommitSuccess(r) ==
  /\ At(r, "accepted")
  /\ SetRow(Key(r), [rows[Key(r)] EXCEPT !.status = "succeeded", !.post = request[r].post])
  /\ attempts' = [attempts EXCEPT ![Key(r)] = Append(@, "succeeded")]
  /\ Become(r, [request[r] EXCEPT !.pc = "answered"])
  /\ UNCHANGED <<draft, approval, posts, calls, boundVars>>

\* Mutant: the error leaves before the commit, and the session is rolled back.
CommitFailureRolledBack(r) ==
  /\ At(r, "raised")
  /\ SetRow(Key(r), NoRow)
  /\ Become(r, [request[r] EXCEPT !.pc = "refused"])
  /\ UNCHANGED <<draft, approval, attempts, posts, calls, boundVars>>

\* The failure is committed, then raised again: the engine retries an error of
\* a retryable class, with the same session and the same key.
CommitFailure(r) ==
  /\ At(r, "raised")
  /\ SetRow(Key(r), [rows[Key(r)] EXCEPT !.status = "failed"])
  /\ attempts' = [attempts EXCEPT ![Key(r)] = Append(@, "failed")]
  /\ Become(r, IF request[r].error = "retryable" /\ request[r].try < MaxTries
               THEN [request[r] EXCEPT !.pc = "find", !.try = @ + 1, !.error = "none"]
               ELSE [request[r] EXCEPT !.pc = "refused"])
  /\ UNCHANGED <<draft, approval, posts, calls, boundVars>>

HasRow(r) == request[r].pc \in {"post", "accepted", "raised"}

\* The process dies, or cancels the request: the transaction is rolled back.
Crash(r) ==
  /\ ~Finished(r)
  /\ crashes < MaxCrashes
  /\ crashes' = crashes + 1
  /\ rows' = IF HasRow(r) THEN [rows EXCEPT ![Key(r)] = NoRow] ELSE rows
  /\ Become(r, Idle)
  /\ UNCHANGED <<draft, approval, attempts, posts, calls, submits, edits>>

-----------------------------------------------------------------------------
(* social_verify: the platform is asked for the post, and the hash stored   *)
(* with the row is compared with the expected one.                          *)

\* Rows that say succeeded and name no post.
Nameless == {key \in Keys : rows[key].status = "succeeded" /\ rows[key].post = 0}

\* The row is looked up by its external_id.  The platform is not asked for an
\* empty one, and two rows that have it are an error that changes nothing.
Verify(key, expected, found) ==
  LET row == rows[key]
      ok  == found /\ row.content = expected
  IN  /\ row.status = "succeeded"
      /\ key \in Nameless => ~found /\ Nameless = {key}
      /\ SetRow(key, [row EXCEPT !.check = IF ok THEN "verified" ELSE "failed"])
      /\ UNCHANGED <<draft, approval, attempts, posts, calls, request, boundVars>>

-----------------------------------------------------------------------------

Serve(r) ==
  \/ FindDuplicate(r) \/ Insert(r) \/ InsertConflict(r)
  \/ \E named \in BOOLEAN : PostAccepted(r, named)
  \/ \E error \in {"retryable", "final"} : PostRejected(r, error) \/ AnswerLost(r, error)
  \/ CommitSuccess(r) \/ CommitFailure(r)

Next ==
  \/ \E verdict \in {"approved", "rejected"} : Decide(verdict)
  \/ \E content \in Contents : UpdateDraft(content)
  \/ \E r \in Requests : Serve(r) \/ Crash(r) \/ \E key \in Keys : Submit(r, key)
  \/ \E key \in Keys, expected \in Contents, found \in BOOLEAN :
       Verify(key, expected, found)

Spec == Init /\ [][Next]_vars

\* The event loop runs every request; the platform answers or httpx times out
\* after 30 seconds; the database answers once the row lock is free.
FairSpec == Spec /\ \A r \in Requests : WF_vars(Serve(r))

TypeOK ==
  /\ draft \in Contents
  /\ approval \in {"pending", "approved", "rejected"}
  /\ rows \in [Keys -> Row]
  /\ attempts \in [Keys -> Seq({"succeeded", "failed"})]
  /\ posts \in [Keys -> Seq(Contents)]
  /\ calls \in [Keys -> Nat]
  /\ request \in [Requests -> Request]
  /\ submits \in 0..MaxSubmits /\ edits \in 0..MaxEdits /\ crashes \in 0..MaxCrashes

(***************************************************************************)
(* However requests with one key race, fail, are retried by the engine or   *)
(* sent again by the client, the platform gets more than one post for the   *)
(* key only by as many as processes died before their commit.               *)
(***************************************************************************)
DuplicatesNeedCrashes == \A key \in Keys : Len(posts[key]) <= 1 + crashes

(***************************************************************************)
(* A row that says succeeded stands for the last post of its key: the text  *)
(* whose hash it stores is the one that was posted, although the draft may  *)
(* be edited at any time, its external_id is that post's or, if the         *)
(* platform's answer had none, empty, and nothing is posted after it.  So   *)
(* comparing stored hashes, as social_verify does, compares the text that   *)
(* was posted.                                                              *)
(***************************************************************************)
RowStandsForPost ==
  \A key \in Keys :
    rows[key].status = "succeeded" =>
      /\ Len(posts[key]) > 0
      /\ posts[key][Len(posts[key])] = rows[key].content
      /\ rows[key].post \in {0, Len(posts[key])}

(***************************************************************************)
(* Two clients that are answered with success for one key are told of the   *)
(* same post, and a later request of that key can only repeat the answer:   *)
(* it is the one the row holds.                                             *)
(***************************************************************************)
AnswersAgree ==
  \A r \in Requests : At(r, "answered") =>
    rows[Key(r)].status = "succeeded" /\ rows[Key(r)].post = request[r].post

(***************************************************************************)
(* social_publish.py: "every publish attempt is persisted as a              *)
(* PublishAttempt row".  Of the calls to the platform, whatever came of     *)
(* them, only the one being committed and those of processes that died are  *)
(* not on record, and no attempt is recorded without a call.  So the claim  *)
(* fails by crashes and by nothing else.                                    *)
(***************************************************************************)
Uncommitted(key) ==
  IF \E r \in Requests : Key(r) = key /\ request[r].pc \in {"accepted", "raised"} THEN 1 ELSE 0

AttemptsOnRecord ==
  \A key \in Keys :
    LET recorded == Len(attempts[key]) + Uncommitted(key)
    IN  recorded <= calls[key] /\ calls[key] <= recorded + crashes

(***************************************************************************)
(* Every request is answered: the wait for another request's uncommitted    *)
(* row and the retries end.                                                 *)
(***************************************************************************)
RequestsEnd == \A r \in Requests : ~Finished(r) ~> Finished(r)

(***************************************************************************)
(* social/base.py: "publishing the same draft twice (e.g. after a           *)
(* crash-and-retry) must not create a duplicate post".  The pending row is  *)
(* not committed before the platform is called, so a crash forgets it.      *)
(***************************************************************************)
NeverTwice == \A key \in Keys : Len(posts[key]) <= 1
=============================================================================
