----------------------------- MODULE MCBackfill -----------------------------
(* Instance of Backfill for TLC: every range and page size of 3-bit blocks. *)
EXTENDS Backfill

=============================================================================
