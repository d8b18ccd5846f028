----------------------------- MODULE MCEnrichment -----------------------------
(* Instance of Enrichment for TLC: one deploy, delivered twice, on a chain   *)
(* of two blocks, in which the pools of the fee tiers may appear.          *)
EXTENDS Enrichment

=============================================================================
