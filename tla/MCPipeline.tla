----------------------------- MODULE MCPipeline -----------------------------
(* Instance of Pipeline for TLC: one slot per channel, both profiles.       *)
EXTENDS Pipeline

=============================================================================
