----------------------------- MODULE MCAgentJobs -----------------------------
(* Constants for model checking AgentJobs. *)
EXTENDS AgentJobs

MCUrls == {"gov", "news", "blog"}

MCHints == [gov |-> {"government", "news"}, news |-> {"news"}, blog |-> {}]

MCTexts == {"up", "down", "level", "ad"}

\* "up", "down" and "level" are of one subject; "level" says what "up" says.
MCSimilar == {"up", "down", "level"} \X {"up", "down", "level"}

MCAgreeing == {<<t, t>> : t \in MCTexts} \cup {<<"up", "level">>, <<"level", "up">>}

MCSearches == {<<>>, <<"blog">>, <<"blog", "news", "gov">>, <<"news", "blog", "news">>}

S(t, opens) == [text |-> t, opens |-> opens]

\* The last page of "news" has two chunks that overlap, and is cut.
MCPagesOf ==
  [gov  |-> {<<S("up", TRUE), S("ad", FALSE), S("level", FALSE)>>, <<>>},
   news |-> {<<S("down", TRUE)>>, <<S("up", TRUE), S("down", FALSE), S("level", FALSE),
                                    S("level", TRUE)>>},
   blog |-> {<<S("down", TRUE), S("up", FALSE)>>}]

MCOwnSource == <<"gov", "none">>

MCHitLists == {<<>>, <<"gov", "news">>, <<"none">>, <<"blog", "news", "gov">>}

\* A text of n sentences of the given lengths, joined by single spaces.
Lengths(l1, l2, l3) == [count |-> 3, ends |-> <<l1, l1 + 1 + l2, l1 + l2 + 2 + l3>>,
                        raw |-> l1 + l2 + l3 + 5, faulty |-> {}]

Even(n, len) == [count |-> n, ends |-> [k \in 1..n |-> k * len + k - 1],
                 raw |-> n * len + n - 1, faulty |-> {}]

\* Posts exactly at the budget, one over it, nine of them and ten of them, a
\* faulty link, a short text and one for LinkedIn alone.
MCTextCases ==
  {Lengths(137, 137, 100), Lengths(137, 138, 1), Lengths(100, 276, 20), Lengths(100, 281, 20),
   Lengths(60, 60, 100), Even(9, 275), Even(10, 275), Even(10, 274), Even(12, 137),
   [Lengths(200, 70, 200) EXCEPT !.faulty = {2}]}

Ask(name, f) == [name |-> name, file |-> f, old |-> "base", line |-> "new"]

MCRequests == {Ask(name, "notes") : name \in Offered} \cup {Ask("file_read", "env")}

Disk(notes) == [f \in Files |-> IF f = "notes" THEN notes ELSE {"base"}]

MCContents == {Disk({"base"}), Disk(Absent)}

\* The file is removed, emptied, written anew, or has a line appended.
MCOutputs == {Absent, {}, {"log"}, {"base", "log"}}
=============================================================================
