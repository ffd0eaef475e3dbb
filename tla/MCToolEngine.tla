----------------------------- MODULE MCToolEngine -----------------------------
(* Constants for model checking ToolEngine. *)
EXTENDS ToolEngine

MCTools == {"web_search", "fact_check", "social_publish_x"}
MCSubTools == {"web_search"}
MCComposite == {"fact_check"}
MCGated == {"social_publish_x"}
=============================================================================
