------------------------------ MODULE Backfill ------------------------------
(***************************************************************************)
(* `shade-indexer backfill`: the blocks from..to are asked for in pages of *)
(* page_size blocks, one eth_getLogs after the other, and each decodable   *)
(* deploy of a page is printed.                                            *)
(*                                                                         *)
(* Block numbers are u64.  The release profile wraps on overflow (no       *)
(* overflow-checks in Cargo.toml), the dev profile panics.                 *)
(***************************************************************************)
EXTENDS Integers

CONSTANTS
  Limit,     \* 2^64: block numbers are 0..Limit - 1
  Profiles,  \* build profiles, among "dev" and "release"
  Chain      \* blocks that hold a deploy of a tracked factory

Blocks == 0..(Limit - 1)

ASSUME BackfillAssumption ==
  /\ Limit \in Nat \ {0}
  /\ Profiles \subseteq {"dev", "release"}
  /\ Chain \subseteq Blocks

VARIABLES
  profile,
  from, to, pageSize,  \* the arguments
  latest,              \* no --to-block: `to` is the node's latest block
  pc,                  \* "Check", "Page", "Done", "Failed" or "Panicked"
  start,               \* first block of the next page
  printed              \* how often each block's deploy was printed; 2 is "often"

args == <<profile, from, to, pageSize, latest>>
vars == <<args, pc, start, printed>>

Init ==
  /\ profile \in Profiles
  /\ from \in Blocks /\ to \in Blocks /\ pageSize \in Blocks
  /\ latest \in BOOLEAN
  /\ pc = "Check"
  /\ start = from
  /\ printed = [b \in Blocks |-> 0]

LeastOf(m, n) == IF m < n THEN m ELSE n

\* start + page_size - 1 leaves u64 on its way.
PageOverflows == start + pageSize \notin Blocks \/ start + pageSize - 1 \notin Blocks

-----------------------------------------------------------------------------
(* Plausible slips; no specification uses them.                             *)

\* The range stops one block short of an inclusive `to`.
PageEnd_Short == IF to = 0 THEN 0 ELSE LeastOf((start + pageSize - 1) % Limit, to - 1)

\* Two pages share their border block.
NextStart_Shared == LeastOf((start + pageSize - 1) % Limit, to)

\* The sum is not kept in a u64.
NextStart_Unbounded == LeastOf((start + pageSize - 1) % Limit, to) + 1

-----------------------------------------------------------------------------
\* (start + page_size - 1).min(to), with the wrapping of the release profile.
PageEnd == LeastOf((start + pageSize - 1) % Limit, to)

\* end + 1
NextStart     == (PageEnd + 1) % Limit
NextOverflows == PageEnd + 1 \notin Blocks

\* get_block_number()? fails: there is no `to`.
LatestError ==
  /\ pc = "Check"
  /\ latest
  /\ pc' = "Failed"
  /\ UNCHANGED <<args, start, printed>>

\* from_block > to_block is refused.
CheckRange ==
  /\ pc = "Check"
  /\ pc' = IF from > to THEN "Failed" ELSE "Page"
  /\ UNCHANGED <<args, start, printed>>

\* One page: the node's logs are printed, and `start` moves past the page.
\* (An end before start, which only a wrapped sum gives, is an empty range.)
Page ==
  /\ pc = "Page"
  /\ start <= to
  /\ profile = "dev" => ~PageOverflows
  /\ printed' = [b \in Blocks |->
                   IF b \in Chain \cap (start..PageEnd)
                     THEN LeastOf(printed[b] + 1, 2) ELSE printed[b]]
  /\ IF profile = "dev" /\ NextOverflows
       THEN pc' = "Panicked" /\ UNCHANGED start
       ELSE start' = NextStart /\ UNCHANGED pc
  /\ UNCHANGED args

PageOverflow ==
  /\ pc = "Page"
  /\ start <= to
  /\ profile = "dev" /\ PageOverflows
  /\ pc' = "Panicked"
  /\ UNCHANGED <<args, start, printed>>

\* get_logs(..)? fails: the command ends with what was printed so far.
PageError ==
  /\ pc = "Page"
  /\ start <= to
  /\ profile = "dev" => ~PageOverflows
  /\ pc' = "Failed"
  /\ UNCHANGED <<args, start, printed>>

Complete ==
  /\ pc = "Page"
  /\ start > to
  /\ pc' = "Done"
  /\ UNCHANGED <<args, start, printed>>

Ended ==
  /\ pc \in {"Done", "Failed", "Panicked"}
  /\ UNCHANGED vars

Next == LatestError \/ CheckRange \/ Page \/ PageOverflow \/ PageError \/ Complete \/ Ended

Spec == Init /\ [][Next]_vars

\* Every request to the node is answered; nothing obliges one to fail.
FairSpec == Spec /\ WF_vars(CheckRange \/ Page \/ PageOverflow \/ Complete)

-----------------------------------------------------------------------------
(* Properties.                                                              *)

\* Every variable has its type.
TypeOK ==
  /\ profile \in Profiles
  /\ from \in Blocks /\ to \in Blocks /\ pageSize \in Blocks
  /\ latest \in BOOLEAN
  /\ pc \in {"Check", "Page", "Done", "Failed", "Panicked"}
  /\ start \in Blocks
  /\ printed \in [Blocks -> 0..2]

\* Arguments no sum of which leaves u64, and a page of at least one block.
Regular == pageSize >= 1 /\ to + pageSize < Limit

\* What was printed is the deploys of from..start-1, each of them once: a
\* failed command (PageError) has a contiguous prefix behind it.
PrefixPrinted ==
  /\ Regular
  /\ pc # "Check" /\ from <= to
  => \A b \in Blocks : printed[b] = IF b \in Chain \cap (from..(start - 1)) THEN 1 ELSE 0

\* So a completed backfill printed every deploy of the inclusive range once,
\* and nothing else.
ExactlyOnce ==
  Regular /\ pc = "Done" =>
    \A b \in Blocks : printed[b] = IF b \in Chain \cap (from..to) THEN 1 ELSE 0

\* Regular arguments never end in a panic.
RegularNeverPanics == Regular => pc # "Panicked"

\* With regular arguments the command ends.  (A page_size of 0, or a sum that
\* wraps, can send `start` back for ever.)
Terminates == Regular ~> pc \in {"Done", "Failed"}

=============================================================================
