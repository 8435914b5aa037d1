------------------------------ MODULE MCPipeline ------------------------------
(* Pipeline with an admission check before the account and a module behind it. *)
EXTENDS Pipeline
=============================================================================
