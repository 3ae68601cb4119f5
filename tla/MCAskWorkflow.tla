--------------------------- MODULE MCAskWorkflow ---------------------------
(* The default settings on a scaled clock; see README for the scaling. *)
EXTENDS AskWorkflow
=============================================================================
