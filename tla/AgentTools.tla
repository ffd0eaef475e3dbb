------------------------------ MODULE AgentTools ------------------------------
(***************************************************************************)
(* The tool registry, the tools each agent graph is given, which of them it *)
(* can really perform, and the class of model that serves it.               *)
(***************************************************************************)
EXTENDS Naturals, TLC

SystemTools == {"file_read", "file_write", "file_edit", "file_delete",
                "folder_create", "folder_list", "folder_delete", "shell_run"}

WebTools == {"web_search", "lang_search", "web_fetch", "fact_check"}

ContentTools == {"content_draft", "content_validate"}

SocialTools == {"social_publish_x", "social_publish_linkedin", "social_verify"}

SessionTools ==
  {"browser_navigate", "browser_inspect", "browser_click", "browser_type",
   "browser_select", "browser_extract", "browser_scroll", "browser_screenshot",
   "browser_wait", "browser_download", "browser_new_tab", "browser_switch_tab",
   "browser_list_tabs"}

\* build_registry, with or without a session manager.
Registry(browser) ==
  SystemTools \cup WebTools \cup ContentTools \cup SocialTools \cup
  (IF browser THEN SessionTools ELSE {})

-----------------------------------------------------------------------------
(* ModelRouter.                                                             *)

Complexities == {"simple", "moderate", "complex"}

Risks == {"low", "medium", "high"}

\* The order of complexities, of risks and of classes of model.
Rank(level) ==
  IF level \in {"simple", "low", "fast"} THEN 0
  ELSE IF level \in {"moderate", "medium", "tool_calling"} THEN 1
  ELSE IF level \in {"complex", "high", "reasoning"} THEN 2
  ELSE 3

\* The signals _select_class reads; the other seven, requires_reasoning among
\* them, it does not.
Criteria == [complexity : Complexities, risk : Risks, tools : BOOLEAN,
             conflicting : BOOLEAN, ambiguous : BOOLEAN, steps : Nat]

\* _select_class: the first rule that applies.
SelectClass(c) ==
  IF c.risk = "high" /\ (c.complexity = "complex" \/ c.ambiguous) THEN "strongest"
  ELSE IF c.conflicting \/ c.complexity = "complex" \/ c.ambiguous THEN "reasoning"
  ELSE IF c.tools \/ c.steps > 1 THEN "tool_calling"
  ELSE "fast"

Asking(complexity, risk, conflicting) ==
  [complexity |-> complexity, risk |-> risk, tools |-> TRUE,
   conflicting |-> conflicting, ambiguous |-> FALSE, steps |-> 1]

-----------------------------------------------------------------------------
(* The graphs: the tools that build_graph collects and the criteria for     *)
(* which it resolves its model.                                             *)

ResearchGraph ==
  [tools |-> {"web_search", "lang_search", "web_fetch"}, asks |-> Asking("complex", "low", FALSE)]

BrowserGraph == [tools |-> SessionTools, asks |-> Asking("moderate", "low", FALSE)]

ContentGraph == [tools |-> ContentTools, asks |-> Asking("moderate", "medium", FALSE)]

FactCheckerGraph ==
  [tools |-> {"web_search", "web_fetch", "fact_check"}, asks |-> Asking("complex", "low", TRUE)]

SocialGraph == [tools |-> SocialTools, asks |-> Asking("moderate", "high", FALSE)]

\* "verify_action" is registered by nobody.
VerificationGraph ==
  [tools |-> {"verify_action", "web_fetch"}, asks |-> Asking("simple", "low", FALSE)]

LocalSystemGraph == [tools |-> SystemTools, asks |-> Asking("moderate", "medium", FALSE)]

Graphs ==
     "research"     :> ResearchGraph
  @@ "browser"      :> BrowserGraph
  @@ "content"      :> ContentGraph
  @@ "fact_checker" :> FactCheckerGraph
  @@ "social"       :> SocialGraph
  @@ "verification" :> VerificationGraph
  @@ "local_system" :> LocalSystemGraph

\* collect_tools: a name that is not registered is skipped.
Collected(graph, browser) == Graphs[graph].tools \cap Registry(browser)

\* Tools with requires_approval or HIGH risk.
ApprovalTools == {"file_delete", "folder_delete", "browser_download",
                  "social_publish_x", "social_publish_linkedin"}

\* to_langchain_tool hands the graph's context to the engine; nobody builds a
\* graph with one, so the engine refuses what needs an approval.
Performable(graph, browser) == Collected(graph, browser) \ ApprovalTools

-----------------------------------------------------------------------------

\* Every signal of c is at most as strong in d.
NoHarder(c, d) ==
  /\ Rank(c.complexity) <= Rank(d.complexity)
  /\ Rank(c.risk) <= Rank(d.risk)
  /\ c.tools => d.tools
  /\ c.conflicting => d.conflicting
  /\ c.ambiguous => d.ambiguous
  /\ c.steps <= d.steps
=============================================================================
