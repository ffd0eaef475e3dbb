------------------------------ MODULE AgentJobs ------------------------------
(***************************************************************************)
(* What the agents' tools do, apart from the browser and publishing: one    *)
(* research run, one fact check, one draft, or the local-system agents of   *)
(* concurrent tasks.  These share no state, so a behaviour is one of them;  *)
(* what they share is the registry, the engine's retry and the router.      *)
(***************************************************************************)
EXTENDS Research, FactCheck, ContentDraft, LocalSystem

Kit == INSTANCE AgentTools

VARIABLE job

vars == <<researchVars, factVars, draftVars, localVars, job>>

Jobs == {"research", "fact_check", "draft", "local"}

\* The tools that the jobs call are performed for their agents, and the models
\* that serve the graphs call tools.
Equipped ==
  /\ \A g \in DOMAIN Kit!Graphs : Kit!Rank(Kit!SelectClass(Kit!Graphs[g].asks)) >= 1
  /\ {"web_search", "web_fetch"} \subseteq Kit!Performable("research", FALSE)
  /\ HasLangSearch = ("lang_search" \in Kit!Performable("research", FALSE))
  /\ "fact_check" \in Kit!Performable("fact_checker", FALSE)
  /\ "content_draft" \in Kit!Performable("content", FALSE)
  /\ Offered = Kit!Performable("local_system", FALSE)

\* Only the job at hand has more than one text or disk to start from.
Only(name, set) == {x \in set : job = name \/ x = CHOOSE y \in set : TRUE}

Init ==
  /\ job \in {j \in Jobs : Equipped}
  /\ ResearchInit
  /\ FactInit
  /\ DraftInit(Only("draft", TextCases))
  /\ LocalInit(Only("local", Contents))

DoResearch == job = "research" /\ ResearchNext /\ UNCHANGED <<factVars, draftVars, localVars, job>>

DoFactCheck == job = "fact_check" /\ FactNext /\ UNCHANGED <<researchVars, draftVars, localVars, job>>

DoDraft == job = "draft" /\ DraftNext /\ UNCHANGED <<researchVars, factVars, localVars, job>>

DoTool(a) ==
  job = "local" /\ ToolStep(a) /\ UNCHANGED <<researchVars, factVars, draftVars, job>>

DoLocal == job = "local" /\ LocalNext /\ UNCHANGED <<researchVars, factVars, draftVars, job>>

Next == DoResearch \/ DoFactCheck \/ DoDraft \/ DoLocal

Spec == Init /\ [][Next]_vars

\* The event loop runs what can run: the web and the model answer or raise, and
\* the timer of a command fires.  A child process need never end.
FairSpec ==
  /\ Spec
  /\ WF_vars(DoResearch) /\ WF_vars(DoFactCheck) /\ WF_vars(DoDraft)
  /\ \A a \in Agents : WF_vars(DoTool(a))

TypeOK ==
  /\ ResearchTypeOK /\ FactTypeOK /\ DraftTypeOK /\ LocalTypeOK
  /\ job \in Jobs

(***************************************************************************)
(* Every job ends, whatever fails on the way: no retry and no loop goes on  *)
(* for ever.  One exception the code has: a command that timed out and left *)
(* a child on its pipes holds its agent up for as long as the child lives.  *)
(***************************************************************************)
JobsEnd ==
  /\ job = "research" ~> stage \in {"nothing", "done", "raised"}
  /\ job = "fact_check" ~> phase \in {"done", "failed"}
  /\ job = "draft" ~> step \in {"thread", "whole", "valid", "stored", "refused", "raised"}
  /\ \A a \in Agents : tool[a].pc # "idle" ~> tool[a].pc = "idle" \/ HeldUp(a)
=============================================================================
