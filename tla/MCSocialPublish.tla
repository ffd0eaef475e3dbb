---------------------------- MODULE MCSocialPublish ---------------------------
(* Constants for model checking SocialPublish. *)
EXTENDS SocialPublish

MCContents == {"first text", "edited text"}
=============================================================================
