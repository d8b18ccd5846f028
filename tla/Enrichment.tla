----------------------------- MODULE Enrichment -----------------------------
(***************************************************************************)
(* EnrichWorker::process for one deploy: the upsert of its row, the        *)
(* best-effort reads of RpcEnrichmentSource::fetch, one awaited RPC call   *)
(* after the other while the chain moves on, and the write of the result.  *)
(*                                                                         *)
(* The deploy is delivered again when a reorganisation removes its log or  *)
(* mines its transaction in another block: same (tx_hash, token), another  *)
(* block and timestamp.  Time is counted in blocks.                        *)
(*                                                                         *)
(* What a call answers is represented by where it was read: the block that *)
(* was the head when the node answered, so that a property can tell a      *)
(* default from an answer and an old answer from a new one.  The chain,    *)
(* the node and Postgres are external.                                     *)
(***************************************************************************)
EXTENDS Integers, Sequences, FiniteSets

CONSTANTS
  Window,        \* holder_scan_window, in blocks
  SignBit,       \* 2^63: a u64 is 0..2*SignBit-1, an i64 -SignBit..SignBit-1
  MaxTime,       \* the last second of a DateTime; the first is -MaxTime
  OddStamps,     \* timestamps of a log that are not its block's
  MaxBlock,      \* bound: the last block of the chain
  MaxDeliveries  \* bound: times the deploy reaches the worker

ASSUME EnrichmentAssumption ==
  /\ Window \in Nat
  /\ SignBit \in Nat /\ MaxTime \in Nat /\ MaxTime < SignBit
  /\ OddStamps \subseteq 0..(2 * SignBit - 1)
  /\ MaxBlock \in 1..MaxTime
  /\ MaxDeliveries \in Nat \ {0}

Blocks  == 1..MaxBlock
Stamps  == 0..(2 * SignBit - 1)
Times   == (-MaxTime)..MaxTime
Tiers   == 1..3   \* the fee tiers 500, 3000, 10000, in the order of the probe
Default == 0      \* 0, 0.0, None or the empty list, for want of an answer
Never   == 0      \* no pool of this tier yet

\* What fetch has put together so far.  `pool` is the tier of the pool found,
\* `holders` the first and last block of the scan, or the pair of defaults.
EmptySnapshot == [flags |-> Default, pool |-> Default, liquidity |-> Default,
                  supply |-> Default, holders |-> <<Default, Default>>]

NoRow == [exists |-> FALSE]

VARIABLES
  head,        \* the latest block
  poolSince,   \* the block in which the pool of each tier was created
  supply,      \* totalSupply: "zero", "fits" u128, or "huge"
  pc,          \* the call process awaits
  delivery,    \* the log being processed: its block and its timestamp
  deliveries,  \* logs of the deploy taken so far
  first,       \* history: the block of the first of them
  tier,        \* the fee tier being probed
  hidden,      \* history: tiers whose pool this fetch was not told of
  snapshot,    \* what fetch has read
  began,       \* history: the head when fetch began
  row,         \* the deploy's row in `deploys`
  enrichment,  \* the deploy's row in `deploy_enrichment`
  failed       \* shade_indexer_enrich_failed

chainVars == <<head, poolSince, supply>>
logVars   == <<delivery, deliveries, first>>
probeVars == <<tier, hidden>>
storeVars == <<row, enrichment>>
vars == <<chainVars, pc, logVars, probeVars, snapshot, began, storeVars, failed>>

NoDelivery == [block |-> Never, timestamp |-> Default]

Init ==
  /\ head = 1
  /\ poolSince = [t \in Tiers |-> Never]
  /\ supply \in {"zero", "fits", "huge"}
  /\ pc = "Recv"
  /\ delivery = NoDelivery /\ deliveries = 0 /\ first = Never
  /\ tier = 1 /\ hidden = {} /\ snapshot = EmptySnapshot /\ began = 1
  /\ row = NoRow /\ enrichment = NoRow
  /\ failed = 0

\* The pool of tier t exists at the head.
Exists(t) == poolSince[t] # Never

\* process ends: its locals are gone.
Leave(next) ==
  /\ pc' = next
  /\ tier' = 1 /\ hidden' = {} /\ snapshot' = EmptySnapshot /\ began' = 1

Return == Leave("Recv")

-----------------------------------------------------------------------------
(* Plausible slips; no specification uses them.                             *)

\* The probe does not stop after the last tier.
ProbeNone_Overruns ==
  /\ pc = "Probe"
  /\ tier \in Tiers => ~Exists(tier)
  /\ tier <= 3
  /\ tier' = tier + 1
  /\ UNCHANGED <<chainVars, pc, logVars, hidden, snapshot, began, storeVars, failed>>

\* A failed eth_call only skips its tier.
ProbeErr_Continues ==
  /\ pc = "Probe"
  /\ tier < 3
  /\ tier' = tier + 1
  /\ UNCHANGED <<chainVars, pc, logVars, hidden, snapshot, began, storeVars, failed>>

\* The conflict clause of write_enrichment leaves out bytecode_flags.
Written_NoFlags(old, new) ==
  IF old.exists THEN [new EXCEPT !.flags = old.flags] ELSE new

\* A failure of process is only logged.
ProcessErr_Uncounted ==
  /\ pc \in {"Upsert", "Write"}
  /\ Return
  /\ UNCHANGED <<chainVars, logVars, storeVars, failed>>

-----------------------------------------------------------------------------
(* process, and upsert_deploy.                                              *)

\* A log of the deploy: of the first block, of a removal notice (the block
\* again), or of another block.  A node may leave out the timestamp, which
\* decode_deploy takes for 0, or send any other.
WorkRecv ==
  /\ pc = "Recv"
  /\ deliveries < MaxDeliveries
  /\ \E b \in 1..head : \E ts \in {Default, b} \cup OddStamps :
       /\ delivery' = [block |-> b, timestamp |-> ts]
       /\ first' = IF deliveries = 0 THEN b ELSE first
  /\ deliveries' = deliveries + 1
  /\ pc' = "Upsert"
  /\ UNCHANGED <<chainVars, probeVars, snapshot, began, storeVars, failed>>

\* u64 as i64
AsI64(n) == IF n < SignBit THEN n ELSE n - 2 * SignBit

\* timestamp_opt(..).single().unwrap_or_else(Utc::now), at the time `now`.
TimeOf(stamp, now) == IF AsI64(stamp) \in Times THEN AsI64(stamp) ELSE now

\* INSERT ... ON CONFLICT (tx_hash, token) DO UPDATE SET block_timestamp.
Upserted(r, d) ==
  IF r = NoRow
    THEN [exists |-> TRUE, block |-> d.block, timestamp |-> TimeOf(d.timestamp, head)]
    ELSE [r EXCEPT !.timestamp = TimeOf(d.timestamp, head)]

UpsertDeploy ==
  /\ pc = "Upsert"
  /\ row' = Upserted(row, delivery)
  /\ began' = head
  /\ pc' = "Code"
  /\ UNCHANGED <<chainVars, logVars, probeVars, snapshot, enrichment, failed>>

-----------------------------------------------------------------------------
(* RpcEnrichmentSource::fetch.  Each read either answers, as of the head, or *)
(* fails and leaves the default.                                            *)

\* The next call of fetch is made with its field of the snapshot set to v.
Read(at, field, v, next) ==
  /\ pc = at
  /\ snapshot' = [snapshot EXCEPT ![field] = v]
  /\ pc' = next
  /\ UNCHANGED <<chainVars, logVars, began, storeVars, failed>>

\* fetch_bytecode_flags: an error or an empty code gives the mask 0.
FetchBytecodeFlags ==
  /\ \E v \in {head, Default} : Read("Code", "flags", v, "Probe")
  /\ UNCHANGED probeVars

\* The probe ends without a pool.
NoPool ==
  /\ Read("Probe", "pool", Default, "Supply")
  /\ tier' = 1 /\ hidden' = {}

\* find_uni_v3_pool: the first tier whose getPool answers an address.
ProbeFound ==
  /\ Exists(tier)
  /\ Read("Probe", "pool", tier, "Liquidity")
  /\ tier' = 1 /\ UNCHANGED hidden

\* On to the next tier, with the tiers passed over so far, or to no pool.
NextTier(passed) ==
  IF tier = 3
    THEN NoPool
    ELSE /\ Read("Probe", "pool", Default, "Probe")
         /\ tier' = tier + 1 /\ hidden' = passed

\* getPool answers the zero address, or with fewer than 32 bytes.
ProbeNone == ~Exists(tier) /\ NextTier(hidden)

\* An answer of fewer than 32 bytes is passed over, whatever pool there is.
ProbeShort == Exists(tier) /\ NextTier(hidden \cup {tier})

\* A failed eth_call ends the probe (the `?`).
ProbeErr == NoPool

\* fetch_pool_liquidity, unwrap_or(0): of a failure, and of a short answer.
FetchPoolLiquidity ==
  /\ \E v \in {head, Default} : Read("Liquidity", "liquidity", v, "Supply")
  /\ UNCHANGED probeVars

\* fetch_total_supply, unwrap_or(ZERO).  A supply above u128::MAX has no
\* f64 of it made: FetchPanics.
FetchTotalSupply ==
  /\ \/ Read("Supply", "supply", Default, "Holders")
     \/ supply # "huge" /\ Read("Supply", "supply", head, "Holders")
  /\ UNCHANGED probeVars

\* to::<u128>() panics, and the worker ends: on such a supply, or on a word
\* above u128::MAX that the pool answers for its liquidity.
FetchPanics ==
  /\ \/ pc = "Liquidity"
     \/ pc = "Supply" /\ supply = "huge"
  /\ Leave("Panicked")
  /\ UNCHANGED <<chainVars, logVars, storeVars, failed>>

\* fetch_holder_balances asks for the logs of delivery.block to
\* delivery.block + Window, and gets those of the blocks mined by now.
FetchHolderBalances ==
  LET last == delivery.block + Window
      seen == IF last < head THEN last ELSE head
  IN  /\ \E v \in {<<delivery.block, seen>>, <<Default, Default>>} :
           Read("Holders", "holders", v, "Write")
      /\ UNCHANGED probeVars

-----------------------------------------------------------------------------
(* Enrichment::from_snapshot, and write_enrichment.                         *)

\* The ratio of liquidity to FDV is made of two reads, and is 0.0 when either
\* is the default, or the supply is zero.
Ratio(s) ==
  IF s.liquidity = Default \/ s.supply = Default \/ supply = "zero"
    THEN [tier |-> Default, liquidity |-> Default, supply |-> Default]
    ELSE [tier |-> s.pool, liquidity |-> s.liquidity, supply |-> s.supply]

\* `of`, `began` and `hidden` (history) tell the delivery and the fetch it
\* comes from.
FromSnapshot(s) ==
  [exists |-> TRUE, flags |-> s.flags, holders |-> s.holders,
   liqToFdv |-> Ratio(s), of |-> delivery, began |-> began, hidden |-> hidden]

\* INSERT ... ON CONFLICT (deploy_id) DO UPDATE of every column.
Written(old, new) == new

WriteEnrichment ==
  /\ pc = "Write"
  /\ enrichment' = Written(enrichment, FromSnapshot(snapshot))
  /\ Return
  /\ UNCHANGED <<chainVars, logVars, row, failed>>

\* The `?` after a statement: the statement may have taken effect, the failure
\* is counted, the worker goes on to the next log.
ProcessErr ==
  /\ \/ /\ pc = "Upsert"
        /\ row' \in {row, Upserted(row, delivery)}
        /\ UNCHANGED enrichment
     \/ /\ pc = "Write"
        /\ enrichment' \in {enrichment, Written(enrichment, FromSnapshot(snapshot))}
        /\ UNCHANGED row
  /\ failed' = failed + 1
  /\ Return
  /\ UNCHANGED <<chainVars, logVars>>

-----------------------------------------------------------------------------
(* The chain (external).                                                    *)

NewBlock ==
  /\ head < MaxBlock
  /\ head' = head + 1
  /\ \E created \in SUBSET {t \in Tiers : ~Exists(t)} :
       poolSince' = [t \in Tiers |-> IF t \in created THEN head + 1 ELSE poolSince[t]]
  /\ UNCHANGED <<supply, pc, logVars, probeVars, snapshot, began, storeVars, failed>>

\* No more logs of this deploy, or no worker to take them.
Stopped ==
  /\ \/ pc = "Recv" /\ deliveries = MaxDeliveries
     \/ pc = "Panicked"
  /\ UNCHANGED vars

Fetch == FetchBytecodeFlags \/ ProbeFound \/ ProbeNone \/ ProbeShort \/ ProbeErr
         \/ FetchPoolLiquidity \/ FetchTotalSupply \/ FetchHolderBalances

Next == WorkRecv \/ UpsertDeploy \/ Fetch \/ FetchPanics \/ WriteEnrichment
        \/ ProcessErr \/ NewBlock \/ Stopped

Spec == Init /\ [][Next]_vars
-----------------------------------------------------------------------------
(* Properties.                                                              *)

Points == {"Recv", "Upsert", "Code", "Probe", "Liquidity", "Supply", "Holders",
           "Write", "Panicked"}

\* Every variable has its type.
TypeOK ==
  /\ head \in Blocks
  /\ poolSince \in [Tiers -> 0..head]
  /\ supply \in {"zero", "fits", "huge"}
  /\ pc \in Points
  /\ delivery \in [block : 0..head, timestamp : Stamps]
  /\ deliveries \in 0..MaxDeliveries
  /\ first \in 0..head
  /\ tier \in Tiers /\ hidden \subseteq Tiers
  /\ snapshot \in [flags : 0..head, pool : Tiers \cup {Default}, liquidity : 0..head,
                   supply : 0..head, holders : (0..head) \X (0..head)]
  /\ began \in Blocks
  /\ row.exists => row.block \in Blocks /\ row.timestamp \in Times
  /\ enrichment.exists => row.exists
  /\ failed \in 0..deliveries

\* What a read answered, or its default.
ReadIn(v, lo, hi) == v = Default \/ v \in lo..hi

\* An enrichment row is the work of one fetch, whatever was delivered again
\* and whatever failed: each column is a default or was read by the fetch of
\* the delivery it is of, never before it, and in the order of the calls.
OneFetch ==
  enrichment.exists =>
    LET ratio == enrichment.liqToFdv
        late  == IF ratio.supply = Default THEN enrichment.began ELSE ratio.supply
    IN  /\ ReadIn(enrichment.flags, enrichment.began, head)
        /\ ReadIn(ratio.liquidity, enrichment.began, late)
        /\ ReadIn(ratio.supply, enrichment.began, head)
        /\ ratio.liquidity # Default /\ enrichment.flags # Default
             => enrichment.flags <= ratio.liquidity
        /\ enrichment.holders[1] \in {Default, enrichment.of.block}

\* The pool behind liq_to_fdv_ratio existed when its liquidity was read.  A
\* lower fee tier had no pool when the fetch began, or had one that the node
\* answered with fewer than 32 bytes for: of what can go wrong with a probe,
\* only that makes fetch take the pool of a higher tier, never a failed call.
LowestTier ==
  enrichment.exists /\ enrichment.liqToFdv.tier # Default =>
    LET t == enrichment.liqToFdv.tier
    IN  /\ poolSince[t] \in 1..enrichment.liqToFdv.liquidity
        /\ \A u \in Tiers : u < t => \/ poolSince[u] = Never
                                      \/ poolSince[u] > enrichment.began
                                      \/ u \in enrichment.hidden

\* Between two deliveries, unless shade_indexer_enrich_failed tells of a
\* failure: the enrichment is that of the last delivery, and the deploy's row
\* is of two deliveries, with the block number of the first and the timestamp
\* of the last (the time of the upsert, if that was no time).
StaleIsCounted ==
  pc = "Recv" /\ deliveries > 0 /\ failed = 0 =>
    /\ enrichment.exists /\ enrichment.of = delivery
    /\ row.exists /\ row.block = first
    /\ row.timestamp = TimeOf(delivery.timestamp, enrichment.began)

\* The doc of upsert_deploy: "Insert (or no-op on conflict) a deploy row".  The
\* conflict clause overwrites the timestamp, and so mixes two deliveries.
NoOpOnConflict == [][row.exists => row' = row]_vars

\* The doc of holder_scan_window: "Number of blocks after deploy to scan for
\* Transfer events".  The scan is made when the deploy arrives, and once: the
\* blocks of the window that are not mined yet are never scanned.
WindowIsScanned ==
  enrichment.exists /\ enrichment.holders[1] # Default =>
    enrichment.holders[2] = enrichment.of.block + Window

\* The doc of rpc_source.rs: every step "degrades to a partial snapshot rather
\* than an error".  A total supply or a liquidity above u128::MAX panics.
FetchDegrades == pc # "Panicked"

=============================================================================
