-------------------------- MODULE EnrichmentProofs --------------------------
(***************************************************************************)
(* Theorems about Enrichment, for every scan window, every length of the   *)
(* chain and every number of deliveries.                                   *)
(***************************************************************************)
EXTENDS Enrichment, TLAPS

-----------------------------------------------------------------------------
(* The inductive invariant.                                                 *)

\* Where the deploy is upserted and a snapshot of it is being made.
Fetching == {"Code", "Probe", "Liquidity", "Supply", "Holders", "Write"}

\* A row of `deploys`.
Rows == [exists : {TRUE}, block : Blocks, timestamp : Times]

\* A delivery in progress is not counted as failed yet, and its row is there
\* once it is upserted.
DeliveryInv ==
  /\ row = NoRow \/ row \in Rows
  /\ pc # "Recv" => delivery.block \in 1..head /\ failed < deliveries
  /\ pc \in Fetching => row \in Rows /\ row.timestamp = TimeOf(delivery.timestamp, began)

\* While nothing failed, the row is of the first delivery from its upsert on.
FirstInv ==
  /\ row # NoRow => deliveries > 0
  /\ failed = 0 =>
       IF row = NoRow
         THEN deliveries = 0 \/ (pc = "Upsert" /\ delivery.block = first)
         ELSE row.block = first

\* What fetch has read so far was read since it began, in the order of its
\* calls, and is the default where the call is still to come.
ReadInv ==
  /\ pc \in {"Recv", "Upsert", "Code"} => snapshot = EmptySnapshot /\ tier = 1
  /\ pc \in {"Probe", "Liquidity"} => snapshot.liquidity = Default
  /\ pc \in {"Probe", "Liquidity", "Supply"} => snapshot.supply = Default
  /\ pc \in Fetching =>
       /\ began <= head
       /\ ReadIn(snapshot.flags, began, head)
       /\ ReadIn(snapshot.liquidity, began, head)
       /\ ReadIn(snapshot.supply, began, head)
       /\ snapshot.liquidity # Default => snapshot.flags <= snapshot.liquidity
       /\ snapshot.supply # Default => snapshot.liquidity <= snapshot.supply
       /\ snapshot.holders[1] \in {Default, delivery.block}

\* No pool of tier t existed at block b.
NoPoolAt(t, b) == poolSince[t] = Never \/ poolSince[t] > b

\* Tier u could be passed over: it had no pool, or fetch was not told of it.
Passed(u) == NoPoolAt(u, began) \/ u \in hidden

\* The tiers below the one being probed, or below the one that was found, could
\* be passed over; the one found has a pool, and had it when its liquidity was
\* read.
PoolInv ==
  /\ pc = "Probe" => /\ snapshot.pool = Default
                     /\ \A u \in Tiers : u < tier => Passed(u)
  /\ pc \in Fetching /\ snapshot.pool # Default =>
       /\ Exists(snapshot.pool)
       /\ \A u \in Tiers : u < snapshot.pool => Passed(u)
       /\ snapshot.liquidity # Default => poolSince[snapshot.pool] <= snapshot.liquidity

\* What is stored was stored by a fetch that began in the past.
StoredInv ==
  /\ enrichment.exists => /\ enrichment.began \in 1..head
                          /\ enrichment.liqToFdv.tier \in Tiers \cup {Default}
  /\ OneFetch /\ LowestTier

IInv == TypeOK /\ DeliveryInv /\ FirstInv /\ ReadInv /\ PoolInv /\ StoredInv

\* The invariant holds before the first delivery.
LEMMA InitIInv == Init => IInv
<1> SUFFICES ASSUME Init
             PROVE  IInv
  OBVIOUS
<1> USE EnrichmentAssumption DEF Init, Blocks, Default, Never
<1>1. TypeOK
  BY DEF TypeOK, Points, NoDelivery, EmptySnapshot, NoRow, Tiers, Stamps
<1>2. DeliveryInv /\ FirstInv
  BY DEF DeliveryInv, FirstInv, Fetching
<1>3. ReadInv
  BY DEF ReadInv, Fetching
<1>4. PoolInv
  BY DEF PoolInv, Fetching
<1>5. StoredInv
  BY DEF StoredInv, OneFetch, LowestTier, NoRow
<1> QED
  BY <1>1, <1>2, <1>3, <1>4, <1>5 DEF IInv

-----------------------------------------------------------------------------
(* One read of fetch.                                                       *)

Fields == {"flags", "pool", "liquidity", "supply", "holders"}

SnapshotsAt(h) ==
  [flags : 0..h, pool : Tiers \cup {Default}, liquidity : 0..h, supply : 0..h,
   holders : (0..h) \X (0..h)]

\* The block of the head is a number above 0.
LEMMA HeadType == TypeOK => head \in Nat \ {0} /\ began \in Nat \ {0}
  BY EnrichmentAssumption DEF TypeOK, Blocks

\* A read sets its field of the snapshot and nothing else.
LEMMA ReadSets ==
  ASSUME TypeOK, NEW at, NEW field \in Fields, NEW v, NEW next, Read(at, field, v, next)
  PROVE  /\ pc = at /\ pc' = next
         /\ \A f \in Fields : snapshot'[f] = IF f = field THEN v ELSE snapshot[f]
         /\ UNCHANGED <<head, poolSince, supply, delivery, deliveries, first, began, row,
                        enrichment, failed>>
  BY DEF Read, TypeOK, Fields, chainVars, logVars, storeVars

\* What the calls of fetch have in common.
LEMMA FetchFrame ==
  ASSUME TypeOK, Fetch
  PROVE  /\ UNCHANGED <<head, poolSince, supply, delivery, deliveries, first, began, row,
                        enrichment, failed>>
         /\ pc \in Fetching /\ pc' \in Fetching \ {"Code"}
  BY DEF Fetch, FetchBytecodeFlags, ProbeFound, ProbeNone, ProbeShort, ProbeErr, NextTier,
         NoPool, FetchPoolLiquidity, FetchTotalSupply, FetchHolderBalances, Read, Fetching,
         chainVars, logVars, storeVars

\* A call of the probe finds a pool, goes on to the next tier, or ends without
\* a pool.
LEMMA ProbeCalls ==
  ASSUME ProbeFound \/ ProbeNone \/ ProbeShort \/ ProbeErr
  PROVE  \/ ProbeFound
         \/ NoPool
         \/ \E passed \in {hidden, hidden \cup {tier}} :
              /\ tier # 3 /\ Read("Probe", "pool", Default, "Probe")
              /\ tier' = tier + 1 /\ hidden' = passed
              /\ ~Exists(tier) \/ tier \in hidden'
  BY DEF ProbeNone, ProbeShort, ProbeErr, NextTier

\* When process ends, by a return or by a panic, its locals are gone.
LEMMA LeaveFrame ==
  ASSUME TypeOK, Return \/ Leave("Panicked")
  PROVE  /\ pc' \in {"Recv", "Panicked"} /\ tier' = 1 /\ hidden' = {}
         /\ snapshot' = EmptySnapshot /\ began' = 1
  BY DEF Return, Leave

-----------------------------------------------------------------------------
(* Types.                                                                   *)

\* A read keeps the types, when what it answers is of the field's type.
LEMMA ReadType ==
  ASSUME TypeOK, NEW at, NEW field \in Fields, NEW v, NEW next \in Points,
         Read(at, field, v, next), tier' \in Tiers, hidden' \subseteq Tiers,
         field \in {"flags", "liquidity", "supply"} => v \in 0..head,
         field = "pool" => v \in Tiers \cup {Default},
         field = "holders" => v \in (0..head) \X (0..head)
  PROVE  TypeOK'
<1>1. UNCHANGED <<head, poolSince, supply, delivery, deliveries, first, began, row, enrichment,
                  failed>>
  BY ReadSets
<1>2. pc' \in Points
  BY ReadSets
<1>3. snapshot' \in SnapshotsAt(head)
  <2>1. snapshot \in SnapshotsAt(head) /\ snapshot' = [snapshot EXCEPT ![field] = v]
    BY DEF Read, TypeOK, SnapshotsAt
  <2>2. CASE field = "flags"
    BY <2>1, <2>2 DEF SnapshotsAt
  <2>3. CASE field = "pool"
    BY <2>1, <2>3 DEF SnapshotsAt
  <2>4. CASE field = "liquidity"
    BY <2>1, <2>4 DEF SnapshotsAt
  <2>5. CASE field = "supply"
    BY <2>1, <2>5 DEF SnapshotsAt
  <2>6. CASE field = "holders"
    BY <2>1, <2>6 DEF SnapshotsAt
  <2> QED
    BY <2>2, <2>3, <2>4, <2>5, <2>6 DEF Fields
<1> QED
  BY <1>1, <1>2, <1>3 DEF TypeOK, SnapshotsAt

\* Where fetch scans the Transfer events of the deploy.
LEMMA ScanIsInTheChain ==
  ASSUME TypeOK
  PROVE  LET last == delivery.block + Window
             seen == IF last < head THEN last ELSE head
         IN  <<delivery.block, seen>> \in (0..head) \X (0..head)
  BY EnrichmentAssumption DEF TypeOK, Blocks

\* What a read puts into the snapshot has its type.
LEMMA FetchType == TypeOK /\ Fetch => TypeOK'
<1> SUFFICES ASSUME TypeOK, Fetch
             PROVE  TypeOK'
  OBVIOUS
<1> USE DEF Points, Fields, Default
<1>1. head \in 0..head /\ 0 \in 0..head /\ tier \in Tiers /\ hidden \subseteq Tiers
  BY HeadType DEF TypeOK
<1>2. CASE FetchBytecodeFlags
  <2>1. PICK v \in {head, Default} : Read("Code", "flags", v, "Probe")
    BY <1>2 DEF FetchBytecodeFlags
  <2> QED
    BY <1>1, <1>2, <2>1, ReadType DEF FetchBytecodeFlags, probeVars
<1>3. CASE ProbeFound \/ ProbeNone \/ ProbeShort \/ ProbeErr
  <2>1. CASE ProbeFound
    <3>1. tier' \in Tiers /\ hidden' \subseteq Tiers
      BY <1>1, <2>1 DEF ProbeFound, Tiers
    <3>2. Read("Probe", "pool", tier, "Liquidity") /\ tier \in Tiers \cup {0}
      BY <1>1, <2>1 DEF ProbeFound
    <3> QED
      BY <3>1, <3>2, ReadType
  <2>2. CASE NoPool
    BY <1>1, <2>2, ReadType DEF NoPool, Tiers
  <2>3. ASSUME NEW passed \in {hidden, hidden \cup {tier}},
               tier # 3, Read("Probe", "pool", Default, "Probe"),
               tier' = tier + 1, hidden' = passed
        PROVE  TypeOK'
    <3>1. tier' \in Tiers /\ hidden' \subseteq Tiers
      BY <1>1, <2>3 DEF Tiers
    <3> QED
      BY <2>3, <3>1, ReadType
  <2> QED
    BY <1>3, <2>1, <2>2, <2>3, ProbeCalls
<1>4. CASE FetchPoolLiquidity
  <2>1. PICK v \in {head, Default} : Read("Liquidity", "liquidity", v, "Supply")
    BY <1>4 DEF FetchPoolLiquidity
  <2> QED
    BY <1>1, <1>4, <2>1, ReadType DEF FetchPoolLiquidity, probeVars
<1>5. CASE FetchTotalSupply
  <2>1. PICK v \in {head, Default} : Read("Supply", "supply", v, "Holders")
    BY <1>5 DEF FetchTotalSupply
  <2> QED
    BY <1>1, <1>5, <2>1, ReadType DEF FetchTotalSupply, probeVars
<1>6. CASE FetchHolderBalances
  <2>1. PICK v \in (0..head) \X (0..head) : Read("Holders", "holders", v, "Write")
    BY <1>1, <1>6, ScanIsInTheChain DEF FetchHolderBalances
  <2> QED
    BY <1>1, <1>6, <2>1, ReadType DEF FetchHolderBalances, probeVars
<1> QED
  BY <1>2, <1>3, <1>4, <1>5, <1>6 DEF Fetch

\* A timestamp that is no time is replaced by the time of the upsert.
LEMMA TimeOfType == TypeOK => \A stamp : TimeOf(stamp, head) \in Times
  BY HeadType, EnrichmentAssumption DEF TypeOK, TimeOf, Times, Blocks

\* upsert_deploy leaves a whole row, with the timestamp of the delivery.  The
\* block is that of the delivery only when there was no row.
LEMMA UpsertedRow ==
  ASSUME TypeOK, DeliveryInv, pc # "Recv"
  PROVE  /\ Upserted(row, delivery) \in Rows
         /\ Upserted(row, delivery).timestamp = TimeOf(delivery.timestamp, head)
         /\ Upserted(row, delivery).block = IF row = NoRow THEN delivery.block ELSE row.block
<1>1. delivery.block \in Blocks /\ TimeOf(delivery.timestamp, head) \in Times
  BY HeadType, TimeOfType, EnrichmentAssumption DEF TypeOK, DeliveryInv, Blocks
<1>2. CASE row = NoRow
  BY <1>1, <1>2 DEF Upserted, Rows
<1>3. CASE row # NoRow
  <2>1. row \in Rows
    BY <1>3 DEF DeliveryInv
  <2> QED
    BY <1>1, <1>3, <2>1 DEF Upserted, Rows
<1> QED
  BY <1>2, <1>3

\* A row is no missing row, and it exists.
LEMMA RowsExist == \A r \in Rows : r # NoRow /\ r.exists
<1>1. ~NoRow.exists
  BY DEF NoRow
<1> QED
  BY <1>1 DEF Rows

\* Every step keeps the types.
LEMMA TypeStep == TypeOK /\ DeliveryInv /\ [Next]_vars => TypeOK'
<1> SUFFICES ASSUME TypeOK, DeliveryInv, [Next]_vars
             PROVE  TypeOK'
  OBVIOUS
<1>0. MaxBlock \in Nat /\ MaxDeliveries \in Nat /\ head \in Nat /\ head > 0
  BY EnrichmentAssumption, HeadType
<1>1. CASE WorkRecv
  <2>1. delivery' \in [block : 0..head, timestamp : Stamps] /\ first' \in 0..head
    <3>1. \A b \in 1..head : {Default, b} \cup OddStamps \subseteq Stamps
      BY <1>0, EnrichmentAssumption DEF Stamps, Default, TypeOK, Blocks
    <3> QED
      BY <1>0, <1>1, <3>1 DEF WorkRecv, TypeOK
  <2>2. /\ deliveries' = deliveries + 1 /\ deliveries' \in 0..MaxDeliveries
        /\ pc' = "Upsert"
        /\ UNCHANGED <<head, poolSince, supply, tier, hidden, snapshot, began, row,
                       enrichment, failed>>
    BY <1>0, <1>1 DEF WorkRecv, TypeOK, chainVars, probeVars, storeVars
  <2> QED
    BY <1>0, <2>1, <2>2 DEF TypeOK, Points
<1>2. CASE UpsertDeploy
  <2>1. row' \in Rows
    BY <1>2, UpsertedRow DEF UpsertDeploy
  <2> QED
    BY <1>0, <1>2, <2>1 DEF UpsertDeploy, TypeOK, chainVars, logVars, probeVars, Points, Rows
<1>3. CASE Fetch
  BY <1>3, FetchType
<1>4. Return \/ Leave("Panicked") =>
        /\ pc' \in Points /\ tier' \in Tiers /\ hidden' \subseteq Tiers
        /\ began' \in Blocks /\ snapshot' \in SnapshotsAt(head)
  BY <1>0, LeaveFrame, EnrichmentAssumption
     DEF Points, Tiers, Blocks, EmptySnapshot, SnapshotsAt, Default
<1>5. CASE FetchPanics
  BY <1>4, <1>5 DEF FetchPanics, TypeOK, SnapshotsAt, chainVars, logVars, storeVars
<1>6. CASE WriteEnrichment
  <2>1. enrichment'.exists => row.exists
    BY <1>6, RowsExist DEF WriteEnrichment, DeliveryInv, Fetching
  <2> QED
    BY <1>4, <1>6, <2>1 DEF WriteEnrichment, TypeOK, SnapshotsAt, chainVars, logVars
<1>7. CASE ProcessErr
  <2>1. failed' \in 0..deliveries
    BY <1>0, <1>7 DEF ProcessErr, DeliveryInv, TypeOK
  <2>2. /\ row'.exists => row'.block \in Blocks /\ row'.timestamp \in Times
        /\ enrichment'.exists => row'.exists
    <3>1. CASE pc = "Upsert"
      <4>1. row' = row \/ row' \in Rows
        BY <1>7, <3>1, UpsertedRow DEF ProcessErr
      <4> QED
        BY <1>7, <3>1, <4>1, RowsExist DEF ProcessErr, TypeOK, Rows
    <3>2. CASE pc = "Write"
      BY <1>7, <3>2, RowsExist DEF ProcessErr, DeliveryInv, Fetching, TypeOK
    <3> QED
      BY <1>7, <3>1, <3>2 DEF ProcessErr
  <2> QED
    BY <1>4, <1>7, <2>1, <2>2 DEF ProcessErr, TypeOK, SnapshotsAt, chainVars, logVars
<1>8. CASE NewBlock
  <2>1. head' = head + 1 /\ head' \in Blocks
    BY <1>0, <1>8 DEF NewBlock, Blocks
  <2>2. poolSince' \in [Tiers -> 0..head']
    BY <1>0, <1>8, <2>1 DEF NewBlock, TypeOK
  <2>3. /\ delivery \in [block : 0..head', timestamp : Stamps] /\ first \in 0..head'
        /\ snapshot \in SnapshotsAt(head')
    BY <1>0, <2>1 DEF TypeOK, SnapshotsAt
  <2> QED
    BY <1>8, <2>1, <2>2, <2>3
       DEF NewBlock, TypeOK, SnapshotsAt, logVars, probeVars, storeVars
<1>9. CASE Stopped \/ UNCHANGED vars
  BY <1>9 DEF Stopped, vars, TypeOK, chainVars, logVars, probeVars, storeVars
<1> QED
  BY <1>1, <1>2, <1>3, <1>5, <1>6, <1>7, <1>8, <1>9 DEF Next

-----------------------------------------------------------------------------
(* The delivery, and what fetch has read.                                   *)

\* A delivery fails at most once, and fetch runs only on an upserted row.
LEMMA DeliveryStep == TypeOK /\ DeliveryInv /\ [Next]_vars => DeliveryInv'
<1> SUFFICES ASSUME TypeOK, DeliveryInv, [Next]_vars
             PROVE  DeliveryInv'
  OBVIOUS
<1>0. head \in Nat /\ deliveries \in Nat /\ failed \in 0..deliveries
  BY HeadType DEF TypeOK
<1>1. CASE WorkRecv
  <2>1. /\ UNCHANGED <<head, row, failed>> /\ deliveries' = deliveries + 1
        /\ pc' = "Upsert" /\ delivery'.block \in 1..head
    BY <1>1 DEF WorkRecv, storeVars, chainVars
  <2>2. failed' < deliveries'
    BY <1>0, <2>1
  <2> QED
    BY <2>1, <2>2 DEF DeliveryInv, Fetching
<1>2. CASE UpsertDeploy
  BY <1>2, UpsertedRow DEF UpsertDeploy, DeliveryInv, Fetching, chainVars, logVars
<1>3. CASE Fetch
  BY <1>3, FetchFrame DEF DeliveryInv, Fetching
<1>4. CASE FetchPanics \/ WriteEnrichment
  <2>1. /\ pc # "Recv" /\ pc' \in {"Recv", "Panicked"}
        /\ UNCHANGED <<head, delivery, deliveries, row, failed>>
    BY <1>4, LeaveFrame DEF FetchPanics, WriteEnrichment, chainVars, logVars, storeVars
  <2> QED
    BY <2>1 DEF DeliveryInv, Fetching
<1>5. CASE ProcessErr
  <2>1. pc' = "Recv" /\ (row' = row \/ row' \in Rows)
    BY <1>5, UpsertedRow DEF ProcessErr, Return, Leave
  <2> QED
    BY <2>1 DEF DeliveryInv, Fetching
<1>6. CASE NewBlock
  <2>1. head' = head + 1 /\ UNCHANGED <<pc, delivery, deliveries, row, failed, began>>
    BY <1>6 DEF NewBlock, logVars, storeVars
  <2>2. pc' # "Recv" => delivery'.block \in 1..head' /\ failed' < deliveries'
    BY <1>0, <2>1 DEF DeliveryInv
  <2> QED
    BY <2>1, <2>2 DEF DeliveryInv
<1>7. CASE Stopped \/ UNCHANGED vars
  BY <1>7 DEF Stopped, vars, DeliveryInv, chainVars, logVars, storeVars
<1> QED
  BY <1>1, <1>2, <1>3, <1>4, <1>5, <1>6, <1>7 DEF Next

\* The first upsert makes the row, and no later one touches its block number.
LEMMA FirstStep == TypeOK /\ DeliveryInv /\ FirstInv /\ [Next]_vars => FirstInv'
<1> SUFFICES ASSUME TypeOK, DeliveryInv, FirstInv, [Next]_vars
             PROVE  FirstInv'
  OBVIOUS
<1>0. deliveries \in Nat /\ failed \in 0..deliveries
  BY DEF TypeOK
<1>1. CASE WorkRecv
  <2>1. /\ UNCHANGED <<row, failed>> /\ deliveries' = deliveries + 1
        /\ pc = "Recv" /\ pc' = "Upsert"
        /\ first' = IF deliveries = 0 THEN delivery'.block ELSE first
    BY <1>1 DEF WorkRecv, storeVars
  <2> QED
    BY <1>0, <2>1 DEF FirstInv
<1>2. CASE UpsertDeploy
  <2>1. /\ pc = "Upsert" /\ failed < deliveries
        /\ UNCHANGED <<delivery, deliveries, first, failed>>
    BY <1>2 DEF UpsertDeploy, DeliveryInv, logVars
  <2>2. /\ row' \in Rows /\ row' # NoRow
        /\ row'.block = IF row = NoRow THEN delivery.block ELSE row.block
    BY <1>2, <2>1, UpsertedRow, RowsExist DEF UpsertDeploy
  <2> QED
    BY <1>0, <2>1, <2>2 DEF FirstInv
<1>3. CASE Fetch \/ FetchPanics \/ WriteEnrichment
  <2>1. /\ pc \in Fetching /\ UNCHANGED <<delivery, deliveries, first, row, failed>>
    BY <1>3, FetchFrame DEF FetchPanics, WriteEnrichment, Fetching, logVars, storeVars
  <2>2. row # NoRow
    BY <2>1, RowsExist DEF DeliveryInv
  <2> QED
    BY <2>1, <2>2 DEF FirstInv
<1>4. CASE ProcessErr
  BY <1>0, <1>4 DEF ProcessErr, DeliveryInv, FirstInv, logVars
<1>5. CASE NewBlock \/ Stopped \/ UNCHANGED vars
  BY <1>5 DEF NewBlock, Stopped, vars, FirstInv, logVars, storeVars
<1> QED
  BY <1>1, <1>2, <1>3, <1>4, <1>5 DEF Next

\* A read of fetch is made at the head, after those before it.
LEMMA FetchReads == TypeOK /\ ReadInv /\ Fetch => ReadInv'
<1> SUFFICES ASSUME TypeOK, ReadInv, Fetch
             PROVE  ReadInv'
  OBVIOUS
<1> USE DEF Fields, Default
<1>0. /\ head \in Nat /\ head > 0 /\ began \in Nat /\ began > 0
      /\ UNCHANGED <<head, delivery, began>> /\ pc \in Fetching
  BY HeadType, FetchFrame
<1>1. CASE FetchBytecodeFlags
  <2>1. PICK v \in {head, Default} : Read("Code", "flags", v, "Probe")
    BY <1>1 DEF FetchBytecodeFlags
  <2>2. /\ pc = "Code" /\ pc' = "Probe" /\ snapshot'.flags = v
        /\ snapshot'.liquidity = 0 /\ snapshot'.supply = 0 /\ snapshot'.holders[1] = 0
    BY <2>1, ReadSets DEF ReadInv, EmptySnapshot
  <2> QED
    BY <1>0, <2>2 DEF ReadInv, ReadIn, Fetching
<1>2. CASE ProbeFound \/ ProbeNone \/ ProbeShort \/ ProbeErr
  <2>1. PICK v \in {tier, Default}, next \in {"Liquidity", "Supply", "Probe"} :
          Read("Probe", "pool", v, next)
    BY <1>2, ProbeCalls DEF ProbeFound, NoPool
  <2>2. /\ pc = "Probe" /\ pc' = next /\ snapshot'.flags = snapshot.flags
        /\ snapshot'.liquidity = snapshot.liquidity /\ snapshot'.supply = snapshot.supply
        /\ snapshot'.holders = snapshot.holders
    BY <2>1, ReadSets
  <2> QED
    BY <1>0, <2>2 DEF ReadInv, ReadIn, Fetching
<1>3. CASE FetchPoolLiquidity
  <2>1. PICK v \in {head, Default} : Read("Liquidity", "liquidity", v, "Supply")
    BY <1>3 DEF FetchPoolLiquidity
  <2>2. /\ pc = "Liquidity" /\ pc' = "Supply" /\ snapshot'.flags = snapshot.flags
        /\ snapshot'.liquidity = v /\ snapshot'.supply = snapshot.supply
        /\ snapshot'.holders = snapshot.holders
    BY <2>1, ReadSets
  <2> QED
    BY <1>0, <2>2 DEF ReadInv, ReadIn, Fetching, TypeOK
<1>4. CASE FetchTotalSupply
  <2>1. PICK v \in {head, Default} : Read("Supply", "supply", v, "Holders")
    BY <1>4 DEF FetchTotalSupply
  <2>2. /\ pc = "Supply" /\ pc' = "Holders" /\ snapshot'.flags = snapshot.flags
        /\ snapshot'.liquidity = snapshot.liquidity /\ snapshot'.supply = v
        /\ snapshot'.holders = snapshot.holders
    BY <2>1, ReadSets
  <2> QED
    BY <1>0, <2>2 DEF ReadInv, ReadIn, Fetching, TypeOK
<1>5. CASE FetchHolderBalances
  <2>1. PICK v : Read("Holders", "holders", v, "Write") /\ v[1] \in {Default, delivery.block}
    BY <1>5 DEF FetchHolderBalances
  <2>2. /\ pc = "Holders" /\ pc' = "Write" /\ snapshot'.flags = snapshot.flags
        /\ snapshot'.liquidity = snapshot.liquidity /\ snapshot'.supply = snapshot.supply
        /\ snapshot'.holders = v
    BY <2>1, ReadSets
  <2> QED
    BY <1>0, <2>1, <2>2 DEF ReadInv, ReadIn, Fetching
<1> QED
  BY <1>1, <1>2, <1>3, <1>4, <1>5 DEF Fetch

\* Reads stay in their order while the chain moves on.
LEMMA ReadStep == TypeOK /\ ReadInv /\ [Next]_vars => ReadInv'
<1> SUFFICES ASSUME TypeOK, ReadInv, [Next]_vars
             PROVE  ReadInv'
  OBVIOUS
<1>1. CASE WorkRecv
  BY <1>1 DEF WorkRecv, ReadInv, Fetching, probeVars
<1>2. CASE UpsertDeploy
  BY <1>2, HeadType
     DEF UpsertDeploy, ReadInv, Fetching, chainVars, logVars, probeVars, EmptySnapshot, ReadIn,
         Default
<1>3. CASE Fetch
  BY <1>3, FetchReads
<1>4. CASE FetchPanics \/ WriteEnrichment \/ ProcessErr
  <2>1. Return \/ Leave("Panicked")
    BY <1>4 DEF FetchPanics, WriteEnrichment, ProcessErr
  <2> QED
    BY <2>1, LeaveFrame DEF ReadInv, Fetching
<1>5. CASE NewBlock
  <2>1. head' = head + 1 /\ UNCHANGED <<pc, delivery, tier, snapshot, began>>
    BY <1>5 DEF NewBlock, logVars, probeVars
  <2>2. \A v : ReadIn(v, began, head) => ReadIn(v, began, head + 1)
    BY HeadType DEF ReadIn
  <2> QED
    BY <2>1, <2>2, HeadType DEF ReadInv
<1>6. CASE Stopped \/ UNCHANGED vars
  BY <1>6 DEF Stopped, vars, ReadInv, chainVars, logVars, probeVars
<1> QED
  BY <1>1, <1>2, <1>3, <1>4, <1>5, <1>6 DEF Next

-----------------------------------------------------------------------------
(* The pool found.                                                          *)

\* A probe that finds no pool says so of every block since the fetch began.
LEMMA FetchPool == TypeOK /\ ReadInv /\ PoolInv /\ Fetch => PoolInv'
<1> SUFFICES ASSUME TypeOK, ReadInv, PoolInv, Fetch
             PROVE  PoolInv'
  OBVIOUS
<1> USE DEF Fields, Default
<1>0. /\ head \in Nat /\ began \in 1..head /\ poolSince \in [Tiers -> 0..head]
      /\ UNCHANGED <<head, poolSince, began>>
  BY HeadType, FetchFrame DEF TypeOK, ReadInv
<1>1. CASE FetchBytecodeFlags
  <2>1. PICK v \in {head, Default} : Read("Code", "flags", v, "Probe")
    BY <1>1 DEF FetchBytecodeFlags
  <2>2. /\ pc' = "Probe" /\ snapshot'.pool = 0 /\ tier' = 1
    BY <1>1, <2>1, ReadSets DEF FetchBytecodeFlags, ReadInv, EmptySnapshot, probeVars
  <2> QED
    BY <2>2 DEF PoolInv, Tiers
<1>2. CASE ProbeFound
  <2>1. /\ pc = "Probe" /\ pc' = "Liquidity" /\ snapshot'.pool = tier
        /\ snapshot'.liquidity = snapshot.liquidity /\ Exists(tier) /\ UNCHANGED hidden
    BY <1>2, ReadSets DEF ProbeFound
  <2> QED
    BY <1>0, <2>1 DEF PoolInv, ReadInv, Passed, NoPoolAt, Exists
<1>3. CASE NoPool
  <2>1. pc' = "Supply" /\ snapshot'.pool = 0
    BY <1>3, ReadSets DEF NoPool
  <2> QED
    BY <2>1 DEF PoolInv
<1>4. CASE \E passed \in {hidden, hidden \cup {tier}} :
             /\ tier # 3 /\ Read("Probe", "pool", Default, "Probe")
             /\ tier' = tier + 1 /\ hidden' = passed
             /\ ~Exists(tier) \/ tier \in hidden'
  <2>1. /\ pc = "Probe" /\ pc' = "Probe" /\ snapshot'.pool = 0 /\ tier' = tier + 1
        /\ hidden \subseteq hidden' /\ (~Exists(tier) \/ tier \in hidden')
    BY <1>4, ReadSets
  <2>2. ASSUME NEW u \in Tiers, u < tier' PROVE Passed(u)'
    <3>1. CASE u = tier
      BY <1>0, <2>1, <3>1 DEF Passed, NoPoolAt, Exists
    <3>2. CASE u # tier
      <4>1. u < tier
        BY <2>1, <2>2, <3>2 DEF TypeOK, Tiers
      <4> QED
        BY <1>0, <2>1, <4>1 DEF PoolInv, Passed, NoPoolAt
    <3> QED
      BY <3>1, <3>2
  <2> QED
    BY <2>1, <2>2 DEF PoolInv
<1>5. CASE FetchPoolLiquidity
  <2>1. PICK v \in {head, Default} : Read("Liquidity", "liquidity", v, "Supply")
    BY <1>5 DEF FetchPoolLiquidity
  <2>2. /\ pc = "Liquidity" /\ pc' = "Supply" /\ snapshot'.pool = snapshot.pool
        /\ snapshot'.liquidity = v
    BY <2>1, ReadSets
  <2>3. snapshot.pool \in Tiers \cup {0}
    BY DEF TypeOK
  <2> QED
    BY <1>0, <1>5, <2>2, <2>3
       DEF FetchPoolLiquidity, PoolInv, Fetching, Passed, NoPoolAt, Exists, probeVars
<1>6. CASE FetchTotalSupply \/ FetchHolderBalances
  <2>1. PICK at \in {"Supply", "Holders"}, field \in {"supply", "holders"},
             next \in {"Holders", "Write"} : \E v : Read(at, field, v, next)
    BY <1>6 DEF FetchTotalSupply, FetchHolderBalances
  <2> PICK v : Read(at, field, v, next)
    BY <2>1
  <2>2. /\ pc \in {"Supply", "Holders"} /\ pc' \in {"Holders", "Write"}
        /\ snapshot'.pool = snapshot.pool /\ snapshot'.liquidity = snapshot.liquidity
    <3>1. field \in Fields /\ field # "pool" /\ field # "liquidity"
      OBVIOUS
    <3>2. /\ pc = at /\ pc' = next
          /\ \A f \in Fields : f # field => snapshot'[f] = snapshot[f]
      BY <3>1, ReadSets
    <3> QED
      BY <3>1, <3>2
  <2>3. \A u : Passed(u)' = Passed(u) /\ Exists(u)' = Exists(u)
    BY <1>0, <1>6 DEF FetchTotalSupply, FetchHolderBalances, Passed, NoPoolAt, Exists, probeVars
  <2>4. snapshot.pool # Default =>
          /\ Exists(snapshot.pool)
          /\ \A u \in Tiers : u < snapshot.pool => Passed(u)
          /\ snapshot.liquidity # Default => poolSince[snapshot.pool] <= snapshot.liquidity
    BY <2>2 DEF PoolInv, Fetching
  <2> QED
    BY <1>0, <2>2, <2>3, <2>4 DEF PoolInv
<1> QED
  BY <1>1, <1>2, <1>3, <1>4, <1>5, <1>6, ProbeCalls DEF Fetch

\* A block creates pools of tiers that had none, after everything so far.
LEMMA NewBlockPools ==
  ASSUME TypeOK, NewBlock
  PROVE  /\ head' = head + 1
         /\ \A t \in Tiers : \/ poolSince'[t] = poolSince[t]
                             \/ poolSince[t] = Never /\ poolSince'[t] = head + 1
         /\ \A t \in Tiers, b \in 0..head : NoPoolAt(t, b) => NoPoolAt(t, b)'
<1>1. /\ head' = head + 1 /\ head \in Nat
      /\ \A t \in Tiers : \/ poolSince'[t] = poolSince[t]
                          \/ poolSince[t] = Never /\ poolSince'[t] = head + 1
  BY HeadType DEF NewBlock, Exists
<1> QED
  BY <1>1 DEF NoPoolAt

\* A pool that appears during the fetch does so after the blocks already read.
LEMMA PoolStep == TypeOK /\ ReadInv /\ PoolInv /\ [Next]_vars => PoolInv'
<1> SUFFICES ASSUME TypeOK, ReadInv, PoolInv, [Next]_vars
             PROVE  PoolInv'
  OBVIOUS
<1>1. CASE WorkRecv
  BY <1>1 DEF WorkRecv, PoolInv, Fetching
<1>2. CASE UpsertDeploy
  BY <1>2 DEF UpsertDeploy, PoolInv, Fetching, ReadInv, EmptySnapshot
<1>3. CASE Fetch
  BY <1>3, FetchPool
<1>4. CASE FetchPanics \/ WriteEnrichment \/ ProcessErr
  <2>1. Return \/ Leave("Panicked")
    BY <1>4 DEF FetchPanics, WriteEnrichment, ProcessErr
  <2> QED
    BY <2>1, LeaveFrame DEF PoolInv, Fetching, EmptySnapshot
<1>5. CASE NewBlock
  <2>1. UNCHANGED <<pc, tier, hidden, snapshot, began>>
    BY <1>5 DEF NewBlock, probeVars
  <2>2. CASE pc = "Probe"
    <3>1. began \in 0..head
      BY <2>2, HeadType DEF ReadInv, Fetching
    <3>2. \A u \in Tiers : u < tier' => Passed(u)'
      BY <1>5, <2>1, <2>2, <3>1, NewBlockPools DEF PoolInv, Passed
    <3> QED
      BY <2>1, <2>2, <3>2 DEF PoolInv
  <2>3. CASE pc \in Fetching /\ snapshot.pool # Default
    <3>1. began \in 0..head
      BY <2>3, HeadType DEF ReadInv
    <3>2. \A u \in Tiers : u < snapshot'.pool => Passed(u)'
      BY <1>5, <2>1, <2>3, <3>1, NewBlockPools DEF PoolInv, Passed
    <3>3. poolSince'[snapshot.pool] = poolSince[snapshot.pool] /\ Exists(snapshot.pool)
      BY <1>5, <2>3, NewBlockPools DEF PoolInv, TypeOK, Exists
    <3> QED
      BY <2>1, <2>3, <3>2, <3>3 DEF PoolInv, Exists
  <2> QED
    BY <2>1, <2>2, <2>3 DEF PoolInv
<1>6. CASE Stopped \/ UNCHANGED vars
  BY <1>6 DEF Stopped, vars, PoolInv, chainVars, probeVars, Passed, NoPoolAt, Exists
<1> QED
  BY <1>1, <1>2, <1>3, <1>4, <1>5, <1>6 DEF Next

-----------------------------------------------------------------------------
(* The row that is stored.                                                  *)

\* The ratio is made of a liquidity and a supply, or is the default.
LEMMA RatioOf ==
  ASSUME TypeOK, NEW r, r = Ratio(snapshot)
  PROVE  \/ r = [tier |-> Default, liquidity |-> Default, supply |-> Default]
         \/ /\ snapshot.liquidity # Default /\ snapshot.supply # Default
            /\ r = [tier |-> snapshot.pool, liquidity |-> snapshot.liquidity,
                    supply |-> snapshot.supply]
  BY DEF Ratio

\* The row written is of the fetch in progress, and of its lowest tier.
LEMMA WriteStores ==
  ASSUME TypeOK, ReadInv, PoolInv, pc = "Write", UNCHANGED <<head, poolSince>>,
         enrichment' = FromSnapshot(snapshot)
  PROVE  StoredInv'
<1> USE DEF Default, Never
<1>0. /\ head \in Nat /\ began \in 1..head
      /\ snapshot.flags \in 0..head /\ snapshot.liquidity \in 0..head
      /\ snapshot.supply \in 0..head /\ snapshot.pool \in Tiers \cup {0}
      /\ poolSince \in [Tiers -> 0..head] /\ Tiers = 1..3
  BY HeadType DEF TypeOK, ReadInv, Fetching, Tiers
<1> DEFINE r == Ratio(snapshot)
<1>1. /\ enrichment'.exists /\ enrichment'.flags = snapshot.flags
      /\ enrichment'.holders = snapshot.holders /\ enrichment'.liqToFdv = r
      /\ enrichment'.of = delivery /\ enrichment'.began = began
      /\ enrichment'.hidden = hidden
  BY DEF FromSnapshot
<1>2. \/ r = [tier |-> 0, liquidity |-> 0, supply |-> 0]
      \/ /\ snapshot.liquidity # 0 /\ snapshot.supply # 0
         /\ r = [tier |-> snapshot.pool, liquidity |-> snapshot.liquidity,
                 supply |-> snapshot.supply]
  BY RatioOf
<1> HIDE DEF r
<1>3. /\ ReadIn(snapshot.flags, began, head)
      /\ ReadIn(snapshot.liquidity, began, head)
      /\ ReadIn(snapshot.supply, began, head)
      /\ snapshot.liquidity # 0 => snapshot.flags <= snapshot.liquidity
      /\ snapshot.supply # 0 => snapshot.liquidity <= snapshot.supply
      /\ snapshot.holders[1] \in {0, delivery.block}
  BY DEF ReadInv, Fetching
<1>4. OneFetch'
  <2>1. CASE r = [tier |-> 0, liquidity |-> 0, supply |-> 0]
    BY <1>0, <1>1, <1>3, <2>1 DEF OneFetch, ReadIn
  <2>2. CASE /\ snapshot.liquidity # 0 /\ snapshot.supply # 0
             /\ r = [tier |-> snapshot.pool, liquidity |-> snapshot.liquidity,
                     supply |-> snapshot.supply]
    BY <1>0, <1>1, <1>3, <2>2 DEF OneFetch, ReadIn
  <2> QED
    BY <1>2, <2>1, <2>2
<1>5. LowestTier'
  <2>1. CASE r = [tier |-> 0, liquidity |-> 0, supply |-> 0]
    BY <1>1, <2>1 DEF LowestTier
  <2>2. CASE /\ snapshot.liquidity # 0 /\ snapshot.supply # 0
             /\ r = [tier |-> snapshot.pool, liquidity |-> snapshot.liquidity,
                     supply |-> snapshot.supply]
    <3>1. snapshot.pool # 0 =>
            /\ poolSince[snapshot.pool] \in 1..snapshot.liquidity
            /\ \A u \in Tiers : u < snapshot.pool =>
                 poolSince[u] = 0 \/ poolSince[u] > began \/ u \in hidden
      BY <1>0, <2>2 DEF PoolInv, Fetching, Passed, NoPoolAt, Exists
    <3> QED
      BY <1>1, <2>2, <3>1 DEF LowestTier
  <2> QED
    BY <1>2, <2>1, <2>2
<1>6. enrichment'.began \in 1..head' /\ enrichment'.liqToFdv.tier \in Tiers \cup {0}
  BY <1>0, <1>1, <1>2
<1> QED
  BY <1>4, <1>5, <1>6 DEF StoredInv

\* A stored row stays right as the chain grows.
LEMMA NewBlockStored == TypeOK /\ StoredInv /\ NewBlock => StoredInv'
<1> SUFFICES ASSUME TypeOK, StoredInv, NewBlock
             PROVE  StoredInv'
  OBVIOUS
<1> USE DEF Default, Never
<1>0. /\ head \in Nat /\ head' = head + 1 /\ UNCHANGED enrichment
      /\ poolSince \in [Tiers -> 0..head]
  BY HeadType DEF NewBlock, TypeOK, storeVars
<1>1. CASE ~enrichment.exists
  BY <1>0, <1>1 DEF StoredInv, OneFetch, LowestTier
<1>2. CASE enrichment.exists
  <2>1. OneFetch'
    BY <1>0, <1>2 DEF StoredInv, OneFetch, ReadIn
  <2>2. LowestTier'
    <3> SUFFICES ASSUME enrichment.liqToFdv.tier # 0
                 PROVE  LowestTier'
      BY <1>0 DEF LowestTier
    <3> DEFINE t == enrichment.liqToFdv.tier
    <3>1. t \in Tiers /\ poolSince[t] \in 1..enrichment.liqToFdv.liquidity
      BY <1>2 DEF StoredInv, LowestTier
    <3>2. poolSince'[t] = poolSince[t]
      BY <1>0, <3>1, NewBlockPools
    <3>3. ASSUME NEW u \in Tiers, u < t
          PROVE  \/ poolSince'[u] = 0 \/ poolSince'[u] > enrichment.began
                 \/ u \in enrichment.hidden
      <4>1. \/ poolSince[u] = 0 \/ poolSince[u] > enrichment.began
            \/ u \in enrichment.hidden
        BY <1>2, <3>3 DEF StoredInv, LowestTier
      <4>2. enrichment.began \in 1..head
        BY <1>2 DEF StoredInv
      <4> QED
        BY <1>0, <4>1, <4>2, NewBlockPools
    <3> QED
      BY <1>0, <3>1, <3>2, <3>3 DEF LowestTier
  <2>3. enrichment.began \in 1..head' /\ enrichment.liqToFdv.tier \in Tiers \cup {0}
    BY <1>0, <1>2 DEF StoredInv
  <2> QED
    BY <1>0, <2>1, <2>2, <2>3 DEF StoredInv
<1> QED
  BY <1>1, <1>2

\* Only the write changes what is stored of a fetch.
LEMMA StoredStep == TypeOK /\ ReadInv /\ PoolInv /\ StoredInv /\ [Next]_vars => StoredInv'
<1> SUFFICES ASSUME TypeOK, ReadInv, PoolInv, StoredInv, [Next]_vars
             PROVE  StoredInv'
  OBVIOUS
<1>1. ASSUME UNCHANGED <<head, poolSince, enrichment>> PROVE StoredInv'
  BY <1>1 DEF StoredInv, OneFetch, LowestTier, ReadIn
<1>2. CASE WorkRecv \/ UpsertDeploy
  BY <1>1, <1>2 DEF WorkRecv, UpsertDeploy, chainVars, storeVars
<1>3. CASE Fetch \/ FetchPanics
  BY <1>1, <1>3, FetchFrame DEF FetchPanics, chainVars, storeVars
<1>4. CASE WriteEnrichment
  BY <1>4, WriteStores DEF WriteEnrichment, Written, chainVars
<1>5. CASE ProcessErr
  <2>1. CASE enrichment' = enrichment
    BY <1>1, <1>5, <2>1 DEF ProcessErr, chainVars
  <2>2. CASE enrichment' # enrichment
    <3>1. pc = "Write" /\ enrichment' = FromSnapshot(snapshot)
      BY <1>5, <2>2 DEF ProcessErr, Written
    <3> QED
      BY <1>5, <3>1, WriteStores DEF ProcessErr, chainVars
  <2> QED
    BY <2>1, <2>2
<1>6. CASE NewBlock
  BY <1>6, NewBlockStored
<1>7. CASE Stopped \/ UNCHANGED vars
  BY <1>1, <1>7 DEF Stopped, vars, chainVars, storeVars
<1> QED
  BY <1>2, <1>3, <1>4, <1>5, <1>6, <1>7 DEF Next

\* Every step preserves the invariant.
LEMMA IInvStep == IInv /\ [Next]_vars => IInv'
  BY TypeStep, DeliveryStep, FirstStep, ReadStep, PoolStep, StoredStep DEF IInv

\* The six parts together are an invariant.
LEMMA Invariance == Spec => []IInv
  BY InitIInv, IInvStep, PTL DEF Spec

\* Every variable has its type: the tier probed is one of the three, the
\* blocks a fetch has read are blocks of the chain, and no more deliveries fail
\* than were made.
THEOREM TypeCorrect == Spec => []TypeOK
<1>1. IInv => TypeOK
  BY DEF IInv
<1> QED
  BY <1>1, Invariance, PTL

\* An enrichment row is the work of one fetch, whatever is delivered again, and
\* whatever fails between the two statements.
THEOREM OneFetchCorrect == Spec => []OneFetch
<1>1. IInv => OneFetch
  BY DEF IInv, StoredInv
<1> QED
  BY <1>1, Invariance, PTL

\* A stored ratio is of the pool of the lowest fee tier that the probe could
\* see while the chain moved on: a tier below it had no pool when the fetch
\* began, or a pool that a short answer of the node kept from the fetch.
THEOREM LowestTierCorrect == Spec => []LowestTier
<1>1. IInv => LowestTier
  BY DEF IInv, StoredInv
<1> QED
  BY <1>1, Invariance, PTL

-----------------------------------------------------------------------------
(* What the two rows show.                                                  *)

\* Between two deliveries and while no failure was counted, the enrichment is of
\* the last delivery, and the deploy's row has the block of the first delivery
\* and the timestamp of the last.
THEOREM StaleIsCountedCorrect == Spec => []StaleIsCounted
<1>1. Init => StaleIsCounted
  BY DEF Init, StaleIsCounted
<1>2. IInv /\ StaleIsCounted /\ [Next]_vars => StaleIsCounted'
  <2> SUFFICES ASSUME TypeOK, DeliveryInv, FirstInv, StaleIsCounted, [Next]_vars
               PROVE  StaleIsCounted'
    BY DEF IInv
  <2>1. CASE WorkRecv \/ UpsertDeploy
    BY <2>1 DEF WorkRecv, UpsertDeploy, StaleIsCounted
  <2>2. CASE Fetch \/ FetchPanics
    <3>1. pc' # "Recv"
      BY <2>2, FetchFrame DEF FetchPanics, Leave, Fetching
    <3> QED
      BY <3>1 DEF StaleIsCounted
  <2>3. CASE WriteEnrichment
    <3>1. /\ pc = "Write" /\ UNCHANGED <<delivery, first, row, failed>>
      BY <2>3 DEF WriteEnrichment, logVars
    <3>2. /\ enrichment'.exists /\ enrichment'.of = delivery /\ enrichment'.began = began
      BY <2>3 DEF WriteEnrichment, Written, FromSnapshot
    <3>3. /\ row # NoRow /\ row.exists /\ row.timestamp = TimeOf(delivery.timestamp, began)
      BY <3>1, RowsExist DEF DeliveryInv, Fetching
    <3>4. failed = 0 => row.block = first
      BY <3>3 DEF FirstInv
    <3> QED
      BY <3>1, <3>2, <3>3, <3>4 DEF StaleIsCounted
  <2>4. CASE ProcessErr
    <3>1. failed' # 0
      BY <2>4 DEF ProcessErr, TypeOK
    <3> QED
      BY <3>1 DEF StaleIsCounted
  <2>5. CASE NewBlock
    BY <2>5 DEF NewBlock, StaleIsCounted, logVars, storeVars
  <2>6. CASE Stopped \/ UNCHANGED vars
    BY <2>6 DEF Stopped, vars, StaleIsCounted, logVars, storeVars
  <2> QED
    BY <2>1, <2>2, <2>3, <2>4, <2>5, <2>6 DEF Next
<1> QED
  BY <1>1, <1>2, Invariance, PTL DEF Spec

=============================================================================
