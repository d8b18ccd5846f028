------------------------------- MODULE Holders -------------------------------
(***************************************************************************)
(* From the Transfer logs of a token to its shares: the fold of            *)
(* fetch_holder_balances into signed 128-bit balances, the top K of them,  *)
(* and the 128-bit sums behind top10_share, gini and hhi.                  *)
(*                                                                         *)
(* The release profile wraps on overflow, the dev profile panics; the      *)
(* casts wrap in both.  The quotients themselves are floating point, and   *)
(* left out.                                                               *)
(***************************************************************************)
EXTENDS Integers, FiniteSets, FiniteSetsExt

CONSTANTS
  Accounts,     \* addresses of 20 bytes, other than the zero address
  ZeroAddress,
  Half,         \* 2^127: an i128 is -Half..Half-1, a u128 is 0..2*Half-1
  Amounts,      \* the u256 amounts of Transfer logs
  TopK,         \* holder_top_k
  TopN,         \* the 10 of top10_share
  MaxTransfers, \* bound: Transfer logs of the window
  Builds        \* build profiles, among "dev" and "release"

ASSUME HoldersAssumption ==
  /\ ZeroAddress \notin Accounts /\ IsFiniteSet(Accounts)
  /\ Half \in Nat \ {0}
  /\ Amounts \subseteq Nat
  /\ TopK \in Nat /\ TopN \in Nat /\ MaxTransfers \in Nat
  /\ Builds \subseteq {"dev", "release"} /\ Builds # {}

Transfers == [from : Accounts \cup {ZeroAddress}, to : Accounts \cup {ZeroAddress},
              amount : Amounts]

I128 == (-Half)..(Half - 1)

VARIABLES
  build,
  fold,        \* "Folding", "Listed", "Measured" or "Panicked"
  transfers,   \* logs folded so far
  balances,    \* the map of signed balances; 0 stands for no entry
  top,         \* the holders whose balances are listed
  total,       \* the sum of the listed balances, u128
  topSum,      \* the sum of the TopN largest of them, u128
  honest,      \* history: nobody sent more than they had
  exact,       \* history: the balances in exact arithmetic, while honest
  supply,      \* history: minted less burned, while honest
  peak         \* history: the largest supply, while honest

measured    == <<top, total, topSum>>
history     == <<honest, exact, supply, peak>>
holdersVars == <<build, fold, transfers, balances, measured, history>>

HoldersInit ==
  /\ build \in Builds
  /\ fold = "Folding" /\ transfers = 0
  /\ balances = [a \in Accounts |-> 0]
  /\ top = {} /\ total = 0 /\ topSum = 0
  /\ honest = TRUE /\ exact = balances /\ supply = 0 /\ peak = 0

LeastOf2(m, n) == IF m < n THEN m ELSE n
LargerOf(m, n) == IF m < n THEN n ELSE m

\* The sum of the balances of a set of holders.
SumOf(holders) == MapThenSumSet(LAMBDA a : balances[a], holders)

-----------------------------------------------------------------------------
(* Arithmetic of the code.                                                  *)

\* U256::saturating_to::<u128>()
Saturated(amount) == LeastOf2(amount, 2 * Half - 1)

\* u128 as i128
AsI128(n) == IF n < Half THEN n ELSE n - 2 * Half

\* -= and += on i128, in the release profile.
Wrapped(n) == ((n + Half) % (2 * Half)) - Half

Signed(t) == AsI128(Saturated(t.amount))

-----------------------------------------------------------------------------
(* Plausible slips; no specification uses them.                             *)

\* Both entries are read before either is written.
Credited_Stale(t, debited) ==
  IF t.to = ZeroAddress THEN debited
  ELSE [debited EXCEPT ![t.to] = Wrapped(balances[t.to] + Signed(t))]

\* sort_unstable() instead of the descending sort.
IsTop_Ascending(set, of, n) ==
  /\ set \subseteq of /\ Cardinality(set) = LeastOf2(n, Cardinality(of))
  /\ \A a \in set : \A b \in of \ set : balances[a] <= balances[b]

-----------------------------------------------------------------------------
(* fetch_holder_balances.                                                   *)

Debited(t) ==
  IF t.from = ZeroAddress THEN balances
  ELSE [balances EXCEPT ![t.from] = Wrapped(@ - Signed(t))]

Credited(t, debited) ==
  IF t.to = ZeroAddress THEN debited
  ELSE [debited EXCEPT ![t.to] = Wrapped(@ + Signed(t))]

\* One of the two updates leaves i128.
Overflows(t) ==
  \/ t.from # ZeroAddress /\ balances[t.from] - Signed(t) \notin I128
  \/ t.to # ZeroAddress /\ Debited(t)[t.to] + Signed(t) \notin I128

\* What the transfer does to the token itself, in exact arithmetic.
ExactAfter(t) ==
  LET spent == IF t.from = ZeroAddress THEN exact
               ELSE [exact EXCEPT ![t.from] = @ - t.amount]
  IN  IF t.to = ZeroAddress THEN spent
      ELSE [spent EXCEPT ![t.to] = @ + t.amount]

SupplyAfter(t) ==
  supply + (IF t.from = ZeroAddress THEN t.amount ELSE 0)
         - (IF t.to = ZeroAddress THEN t.amount ELSE 0)

\* The token stays honest through the transfer.
Honest(t) == honest /\ (t.from # ZeroAddress => t.amount <= exact[t.from])

Remember(t) ==
  IF Honest(t)
    THEN /\ exact' = ExactAfter(t) /\ supply' = SupplyAfter(t)
         /\ peak' = LargerOf(peak, SupplyAfter(t))
         /\ UNCHANGED honest
    ELSE /\ exact' = [a \in Accounts |-> 0] /\ supply' = 0 /\ peak' = 0
         /\ honest' = FALSE

FoldTransfer ==
  /\ fold = "Folding" /\ transfers < MaxTransfers
  /\ \E t \in Transfers :
       /\ build = "dev" => ~Overflows(t)
       /\ balances' = Credited(t, Debited(t))
       /\ Remember(t)
  /\ transfers' = transfers + 1
  /\ UNCHANGED <<build, fold, measured>>

FoldOverflow ==
  /\ fold = "Folding" /\ transfers < MaxTransfers
  /\ build = "dev"
  /\ \E t \in Transfers : Overflows(t) /\ Remember(t)
  /\ fold' = "Panicked"
  /\ UNCHANGED <<build, transfers, balances, measured>>

\* A log of fewer than three topics, or less than a word of data.
SkipLog ==
  /\ fold = "Folding" /\ transfers < MaxTransfers
  /\ transfers' = transfers + 1
  /\ UNCHANGED <<build, fold, balances, measured, history>>

\* `set` holds n of the largest balances of `of`, or all of `of`.
IsTop(set, of, n) ==
  /\ set \subseteq of /\ Cardinality(set) = LeastOf2(n, Cardinality(of))
  /\ \A a \in set : \A b \in of \ set : balances[a] >= balances[b]

Positive == {a \in Accounts : balances[a] > 0}

\* The filter, the descending sort and the truncation to K.
ListTop ==
  /\ fold = "Folding"
  /\ \E set \in SUBSET Positive : IsTop(set, Positive, TopK) /\ top' = set
  /\ fold' = "Listed"
  /\ UNCHANGED <<build, transfers, balances, total, topSum, history>>

\* get_logs fails: no balances.
ListNothing ==
  /\ fold = "Folding" /\ transfers = 0
  /\ top' = {}
  /\ fold' = "Listed"
  /\ UNCHANGED <<build, transfers, balances, total, topSum, history>>

-----------------------------------------------------------------------------
(* Enrichment::from_snapshot, and top_n_share.                              *)

MeasureShares ==
  /\ fold = "Listed"
  /\ build = "dev" => SumOf(top) < 2 * Half
  /\ total' = SumOf(top) % (2 * Half)
  /\ \E set \in SUBSET top :
       /\ IsTop(set, top, TopN)
       /\ topSum' = IF total' = 0 THEN 0 ELSE SumOf(set) % (2 * Half)
  /\ fold' = "Measured"
  /\ UNCHANGED <<build, transfers, balances, top, history>>

SumOverflow ==
  /\ fold = "Listed"
  /\ build = "dev" /\ SumOf(top) >= 2 * Half
  /\ fold' = "Panicked"
  /\ UNCHANGED <<build, transfers, balances, measured, history>>

HoldersEnded ==
  /\ fold \in {"Measured", "Panicked"}
  /\ UNCHANGED holdersVars

HoldersNext ==
  FoldTransfer \/ FoldOverflow \/ SkipLog \/ ListTop \/ ListNothing
  \/ MeasureShares \/ SumOverflow \/ HoldersEnded

HoldersSpec == HoldersInit /\ [][HoldersNext]_holdersVars

-----------------------------------------------------------------------------
(* Properties.                                                              *)

\* Every variable has its type, and the sums are u128.
HoldersTypeOK ==
  /\ build \in Builds
  /\ fold \in {"Folding", "Listed", "Measured", "Panicked"}
  /\ transfers \in 0..MaxTransfers
  /\ balances \in [Accounts -> I128]
  /\ top \subseteq Positive
  /\ total \in 0..(2 * Half - 1) /\ topSum \in 0..(2 * Half - 1)
  /\ honest \in BOOLEAN
  /\ exact \in [Accounts -> Nat] /\ supply \in Nat /\ peak \in Nat

\* Nobody sent more than they had, of a supply that never reached 2^127.
conserving == honest /\ peak < Half

\* The balances of a token whose transfers conserve a supply below 2^127 are
\* exact in both profiles, and neither the fold nor the sums can panic: what
\* goes wrong with saturated, cast and wrapping amounts goes wrong for other
\* tokens only.
BalancesExact == conserving => balances = exact /\ fold # "Panicked"

\* The shares of such a token are shares: no TopN accounts hold more than the
\* numerator of top10_share, which is at most the denominator, and that is the
\* supply in circulation unless there are more than TopK holders: then it is
\* less, and the shares are of the listed part only.
SharesOfSupply ==
  fold = "Measured" /\ conserving =>
    /\ topSum <= total
    /\ \A richest \in SUBSET Accounts :
         Cardinality(richest) <= LeastOf2(TopN, TopK) => SumOf(richest) <= topSum
    /\ IF Cardinality(Positive) <= TopK THEN total = supply ELSE total < supply

=============================================================================
