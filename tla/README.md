# Verification of shade-launchpad-indexer

TLA+ models of the indexer, TLC runs that check them on small instances, and
proofs, checked by TLAPS, that hold for every value of the constants. The models
are translated from the sources under `src/`; `PROJECT.json` maps each
definition to the lines it stands for, and lists the hazards of the code at the
line where they bite, with the properties that would catch them.

## 1. The system

`shade-indexer serve` subscribes to the logs of launchpad factories over a
websocket, decodes each deploy, publishes it to Kafka and enriches it in
Postgres. `shade-indexer backfill` prints the deploys of a block range. The
TypeScript SDK reads the Kafka topics.

```
 node --ws--> LaunchpadSubscriber --deployCh(4096)--> fan-out
                                    fan-out --kafkaCh(4096)--> producer_loop --> Kafka --> SDK client
                                    fan-out --enrichCh(4096)-> EnrichWorker --> RPC, Postgres
 main (serve::run): launch, wait for a signal, abort the subscriber, await the other three
 /readyz: reads the heartbeats that fan-out and producer_loop leave behind
```

| component | state | operations | interacts by | what is hard |
|---|---|---|---|---|
| subscriber (`subscriber.rs`) | backoff, subscription, log in hand | connect, subscribe, take a log, send, back off | bounded channel to the fan-out | lost sockets, a lagging stream, a receiver that is gone, cancellation |
| fan-out, launch, heartbeats (`pipeline.rs`, `health.rs`) | deploy in hand, `Liveness` | receive, mark, send twice | three channels | head-of-line blocking, a closed sink, what `/readyz` can know |
| producer_loop, `LaunchpadProducer` (`producer.rs`) | transactional client | publish, publish_batch, relaunch | Kafka coordinator | unknown commit outcome, ignored abort, coordinator timeout, fencing |
| `EnrichWorker`, RPC source (`worker.rs`, `rpc_source.rs`) | snapshot being read | upsert, eight or so reads, write | node, store | no timeout, partial failure, the chain moves between reads, a panic |
| store (`store.rs`) | rows of `deploys`, `deploy_enrichment` | upsert, write | Postgres | a deploy delivered again, an answer that is lost |
| main (`serve.rs`) | join handles | signal, abort, await in order | tasks | order of the drain, tasks that died unnoticed |
| backfill (`backfill.rs`) | `start` of the next page | page | node | u64 arithmetic at the borders, a failing page |
| SDK client (`client.ts`) | queue, waiters, `closed` | stream, eachMessage, close | kafkajs, the application | callbacks between awaits, close while waiting |
| registry, decoder (`registry.rs`, `decode.rs`, `decode_tx.rs`) | two tables: by launchpad, and routes | load, match, decode | subscriber, backfill, decode-tx, inspect-config | overwritten routes, two tables that must agree |
| bytecode (`scan.rs`, `signatures.rs`) | map of signatures | load, scan | RPC source | order of a `HashMap`, duplicates, dependence on a name |
| Bloom filter (`bloom.rs`) | bits, size, hashes | new, insert, contains | nobody yet | wrapping products, indices, hashes that meet |
| holder fold and metrics (`rpc_source.rs`, `metrics.rs`) | map of balances, their sum | fold, list, measure | RPC source, worker | saturation, casts, sums that wrap or panic, a truncated list |

What makes each correct is stated as the properties of section 3; `migrate`, the
CLI, the configuration and the SDK's schemas have no behaviour worth a model
(straight-line I/O and declarations).

## 2. Modules

| module | models | proofs |
|---|---|---|
| `Pipeline` | the four tasks, the channels, launch, shutdown, heartbeats, crash and relaunch | `PipelineProofs` |
| `KafkaProducer` | one `LaunchpadProducer` after the other over client and coordinator | `KafkaProducerProofs` |
| `Publisher` | abstract: an ordered log that takes each message at most once | implemented: `KafkaProducerProofs` |
| `Subscriber` | `run`, `run_once`, `handle_log` over the provider | `SubscriberProofs` |
| `Enrichment` | `process` and `fetch` for one deploy delivered several times | `EnrichmentProofs` |
| `Backfill` | the paging loop in wrapping u64 arithmetic | `BackfillProofs` |
| `SdkClient` | `stream()`, `eachMessage`, `close()` | `SdkClientProofs` |
| `Registry` | the loading of `factories.toml`, routing and decoding for three readers | `RegistryProofs` |
| `Bytecode` | the loading of signatures, the scan of a token's code | `AlgorithmProofs` |
| `Bloom` | the Bloom filter in u64 arithmetic | `AlgorithmProofs` |
| `Holders` | Transfer logs to balances, the top K, the sums of the metrics | `AlgorithmProofs` |

`MC<Module>` and its `.cfg` files are the instances for TLC. `MCAlgorithms` holds
the last four, which share no variable and no actor: a behaviour of it moves one
of them, from any of its initial states, while the others rest. Operators whose name
has an underscore (`WorkFail_Uncounted`) are *slips*: plausible bugs in the
code of the operator they are named for. No specification uses them; each is
there to show that a property would notice it.

How the models compose. A deploy of `Pipeline` is its position in the feed.
`Subscriber!SentInOrder` is what justifies that (removal notices apart).
`Pipeline`'s `ProdPublishOk` and `ProdPublishErr` are the two ways out of
`KafkaProducer`'s calls, seen from `producer_loop`; an error whose message
lands all the same is both `ProdPublishErr`'s second outcome and, after a death,
`Relaunch`'s. (A commit of unknown outcome that lands later than the return of
`publish` is only in `KafkaProducer`: no later publish succeeds on that client,
so the order of the log is the same.) `WorkUpsert`, `WorkFetch` and `WorkWrite`
of `Pipeline` are `Enrichment`'s `UpsertDeploy`, `Fetch` and `WriteEnrichment`.
What `Enrichment` knows of a read is the block it was made at; what
`fetch_bytecode_flags` and `fetch_holder_balances` make of its answer are
`Bytecode` and `Holders`. Whether a log yields a deploy in `Subscriber` and
`Backfill` is `Registry!DeployIn`.

### Pipeline

Each task is a control point (`sub`, `fan`, `prod`, `work`, `main`) and the
deploy it has in hand. A control point is an await in the code: between two of
them a task runs alone as far as the others can see. `deployCh`, `kafkaCh`,
`enrichCh` are the buffers of the mpsc channels. `recv` answers None when the
buffer is empty and all senders are dropped, that is, the task that owns the
sender ended; `send` fails when the receiver is dropped, whose buffer is then
gone. `Relaunch` may happen at any step: it stands for a kill, a crash, a panic
in the release profile (`panic = "abort"`) or a restart after an exit; what was
on the wire may land. `kafkaLog`, `rows` and `enriched` survive it. A worker
panic that ends its task alone is `WorkPanic`, for the dev profile only.
`WorkFail` covers the three `?` of `process`, `fetch` among them, because the
worker takes any `EnrichmentSource`; the one in the repository never returns an
error (see `Enrichment`). The fan-out's branch "kafka sink closed" is not an
action, because `KafkaSinkStaysOpen` proves that it cannot be taken.

### KafkaProducer and Publisher

librdkafka's client and the transaction coordinator are external: a client
answers `begin_transaction` only in state Ready; a commit that timed out leaves
it `CommitUnacked`, with the request perhaps on its way; `init_transactions` of
a new client completes or aborts what its predecessor left and fences it. The
client calls block the task for up to ten seconds; nothing else observes that.
`publish_batch` has no caller in the repository; the model calls it for
`MaxBatch` > 1. The refinement maps the call in progress to `current` and an
unanswered commit request to `unsure`.

### Subscriber

The provider keeps `StreamBuf` logs for the stream and overwrites the oldest,
reconnects by itself (`gap`), and ends the stream when it gives up. A log
is a deploy of the chain, a removal notice, or anything that yields no deploy.

### Enrichment

What a read answers is represented by the block at which it was read, which is
what tells a default from an answer and one fetch from another. A deploy is
delivered again with another block or timestamp, after a reorganisation or from
a node that leaves the timestamp out. Pools of the three fee tiers may appear in
any block. A probe goes on to the next tier because there is no pool (`NoPool`) or
because the answer has fewer than 32 bytes (`ProbeShort`), whatever pool there is;
a failed call (`ProbeErr`) ends it. `FetchPanics` is the `to::<u128>()` of the
liquidity and of the total supply on an answer above `u128::MAX`. A timestamp is a
u64 that `store.rs` casts to i64 and makes a `DateTime` of: `TimeOf` is that
conversion, and gives the time of the upsert where there is none. `first`, `began`
and `hidden` are history variables: the block of the first delivery, the head when
the fetch began, the tiers whose pool it was not told of.

### Backfill

Without `--to-block` the node is asked for its latest block first, which may fail
(`LatestError`). Blocks are `0..Limit-1`; sums wrap in the release profile (no overflow checks in
`Cargo.toml`) and panic in dev. `Regular` arguments are those whose sums stay
inside u64 and whose page has at least one block: outside it the code does loop
or panic, which the properties leave aside by name.

### SdkClient

An action is the code between two awaits of the event loop. Messages are valid
deploys or not, in any mix. kafkajs commits what `eachMessage` handled, goes
back on a rebalance, and stops some time after `disconnect()`.

### Registry

`InsertFactory`, `SkipFactory`, `RejectFactory` and `FinishLoading` are the loop of
`from_toml_str` over the four launchpads, in its order. The subscriber and
backfill see only logs that their filter admits, any of the addresses with any
of the topics; decode-tx sees every log of a transaction. A topic is a model
value, as is the word an address is padded to. A decoder reads the token and the
deployer from topics 1 and 2; only Clanker and Flaunch read the data, and do
without (Flaunch's salt is then the empty string, one of the values `None` stands
for here).

### Bytecode and Bloom

A file of signatures is loaded in its order; a scan visits the map in any order.
Bytes are of a small alphabet and selectors are short: `ContainsSubseq` does not
depend on either. The filter keeps its bits as pairs of a word and a place in it.
`with_capacity` computes m and k in floating point: the model takes every m and
every k of 1..m and rounds m to the next power of two, as the code does. (A
rounding that leaves u64 asks for 2^63 bits or more, and is out of bounds.)

### Holders

A map of balances is a function that is 0 where the map has no entry, which the
code cannot tell either. Arithmetic is that of the code: a u256 amount saturates
to u128, is cast to i128, and is subtracted and added with the wrap of the release
profile or the panic of dev. The history variables `exact`, `supply` and `peak` follow the token itself, in
unbounded arithmetic, for as long as it is `honest`: nobody sends what they have
not. It is `conserving` while its supply, besides, has never reached 2^127.

## 3. Runs

| run | properties | bounds |
|---|---|---|
| `pipeline` | `KafkaOrder`, `KafkaLosesNothingSilently`, `NoSilentLoss`, `CleanExitDrains`, `OnlyPanicBreaksPipeline`, `HeartbeatBoundedByWorker`, `RowsAccounted` | capacities 1, 3 deploys, 2 launches, both profiles; 1.5 M states |
| `pipeline_live` | `ShutdownCompletes`, `AcceptedIsSettled`, `DeadPipelineReported` | capacities 1, 2 deploys, 1 launch |
| `kafka_producer` | `IInv`, `CommittedInOrder`, `BatchIsAtomic`, `WedgeIsReported`, `CallsReturn`, `ImplementsPublisher` | 5 messages, batches up to 2, 3 launches |
| `subscriber` | `SentInOrder`, `LossIsAccounted`, `Resubscribes`, `DroppedReceiverIsNoticed` | channel 1, stream buffer 2, 3 deploys, 1 removal, delays 1, 2, 4, 5 |
| `backfill` | `PrefixPrinted`, `Terminates` | 3-bit blocks, every range and page size |
| `enrichment` | `OneFetch`, `LowestTier`, `StaleIsCounted` | 2 blocks, 2 deliveries, 3 fee tiers, timestamps of 3 bits; 4.3 M states |
| `sdk_client` | `InOrder`, `OneAfterClose`, `BusyStreamStops` | 3 messages, 1 rebalance |
| `algorithms` | `LastFactoryRoutes`, `DecodedIsWatched`; `ScanIsExact`; `ProbesDistinct`; `BalancesExact`, `SharesOfSupply` | 2 addresses, 2 topics; files of up to 2 signatures, codes of up to 3 bytes; 4-bit arithmetic, words of 4 bits, up to 4 hashes; 4 accounts under symmetry, i128 of 4 bits, the top 3, 4 transfers; 0.4 M states |
| `enrichment_window`, `enrichment_panic`, `enrichment_upsert`, `sdk_close` | one each, refuted: see section 6 | as above |

Each run also checks its module's `TypeOK` (in `kafka_producer` as a part of
the inductive invariant `IInv`; in `algorithms` that of all
four modules, and the absence of false negatives of the filter, as
`AlgorithmsTypeOK`).

Why the bounds are enough. With capacity 1, a channel is full after one deploy
and empty after one more: three deploys fill the fan-out, one channel and the
worker, so that every sender blocks on every receiver; the bound of
`HeartbeatBoundedByWorker` (capacity + 1) is reached and its slip exceeds it. Two
launches are enough for everything a relaunch can find; three in the producer,
so that a late commit can meet a second successor. Five messages make two
batches and one more. The provider's buffer of 2 is overwritten by the third
deploy. Two blocks are enough for a pool to appear between any two reads, two
deliveries for every conflict clause. Of the timestamps of 3 bits that are not a
block's, one is no time and the other is negative as a signed number. A 3-bit block number has all the borders a
64-bit one has: 0, the maximum, and sums that leave it. Two addresses and two
topics give factories that share both, one or none of them, among all four
launchpads, and logs that join one factory's address to another's topic. Two
signatures are a duplicate selector, or transfer before and after another; three
bytes hold overlapping selectors at either end. In 4-bit arithmetic the products
of the hashes wrap, and filters have two words, or a last one that is cut; of two
items the second can meet the bits of the first. Four accounts exceed the top 3,
whose sum may leave u128, and the amounts include those that fit a signed balance,
those that only fit an unsigned one, and those that fit neither. Accounts may be
permuted: no operator tells one from another, and the properties of that run are
invariants.

Deadlock is checked in every run. A process that really has stopped (exited,
waiting for a hung worker, out of launches or messages) stutters in `Stopped`,
`Ended` or `Returned`, and nothing else may stop.

## 4. Fairness

- `Pipeline`: weak fairness of each task's steps and of main's awaits (tokio
  polls a task that can make progress), and of the clock. Strong fairness of
  `SubCancelled`: an abort is acted on when the task yields, which tokio's
  cooperative budget makes it do even if logs never stop. Nothing obliges a log,
  a signal, a crash or a relaunch to come. A call that never answers is
  `WorkHang`, a step of its own, which the liveness properties name.
- `KafkaProducer`: weak fairness of the steps of a call: every client call has a
  timeout in the code, and `message.timeout.ms` bounds a delivery. None of the
  coordinator or of a relaunch.
- `Subscriber`: weak fairness of the loop and of a provider that lost its socket
  (it restores it or gives up); strong fairness of a successful connection and
  subscription (a node tried for ever accepts in the end) and of further logs
  (the chain goes on); the latter is what `DroppedReceiverIsNoticed` rests on,
  since the code looks for a dropped receiver only after a log.
- `Backfill`: every request is answered, that for the latest block among them, and
  none is obliged to fail. `SdkClient`: the application iterates,
  kafkajs hands over what there is and completes a disconnect. Nothing obliges
  the application to call `close()`.

## 5. Proofs

Every invariant that a passing run checks is a theorem, for all values of the
constants that satisfy the `ASSUME` of the module: any capacities of at least 1,
any number of deploys, messages, launches, deliveries, accounts and logs, any
width of the block numbers, words and balances. So is the refinement of
`Publisher`. The assumptions say no more than that a bound is a number (positive
where the code makes it so), that addresses are finitely many, and that the
widths of the Bloom filter, 64 and 2^64, are powers of two.

| module | theorems | rests on |
|---|---|---|
| `PipelineProofs` | `TypeCorrect`, `KafkaSinkStaysOpenCorrect`, `OnlyPanicBreaksPipelineCorrect`, `KafkaLosesNothingSilentlyCorrect`, `NoSilentLossCorrect`, `RowsAccountedCorrect`, `CleanExitDrainsCorrect`, `KafkaOrderCorrect`, `HeartbeatBoundedByWorkerCorrect` | `TypeOK`, `ControlInv`, `LossInv`, `OrderInv`, `HeadOfLineInv` |
| `KafkaProducerProofs` | `IInvCorrect`, `CommittedInOrderCorrect`, `BatchIsAtomicCorrect`, `WedgeIsReportedCorrect`, `ImplementsPublisherCorrect` | `IInv` |
| `SubscriberProofs` | `TypeCorrect`, `SentInOrderCorrect`, `LossIsAccountedCorrect` | `TypeOK`, `HeldInv`, `OrderInv` |
| `EnrichmentProofs` | `TypeCorrect`, `OneFetchCorrect`, `LowestTierCorrect`, `StaleIsCountedCorrect` | `IInv` |
| `BackfillProofs` | `TypeCorrect`, `PrefixPrintedCorrect`, `ExactlyOnceCorrect`, `RegularNeverPanicsCorrect` | `IInv` |
| `SdkClientProofs` | `TypeCorrect`, `InOrderCorrect`, `OneAfterCloseCorrect` | `TypeOK`, `OrderInv`, `CloseInv` |
| `RegistryProofs` | `RegistryTypeCorrect`, `LastFactoryRoutesCorrect`, `DecodedIsWatchedCorrect` | `TablesInv`, `HandledInv` |
| `AlgorithmProofs` | `BytecodeTypeCorrect`, `ScanIsExactCorrect`; `BloomTypeCorrect`, `NoFalseNegativesCorrect`, `ProbesDistinctCorrect`; `HoldersTypeCorrect`, `BalancesExactCorrect`, `SharesOfSupplyCorrect`; `EachAlgorithmRuns`, `AlgorithmsTypeCorrect` | `BytecodeInv`, `BloomInv`, `HoldersInv` |

The argument for `Pipeline` has five layers. `TypeOK` says, beyond types, that a
task holds a deploy exactly at the control points where it works on one; that is
inductive by itself. `ControlInv` says in which order the tasks can end: fan-out
after the subscriber or after a panic, producer and worker after the fan-out (or
by panic), main's position after those it awaited, and that a fan-out that
ended after the subscriber left empty channels behind. `LossInv` adds where
every accepted deploy is; it needs `ControlInv` because a receiver that ends
takes its buffer with it, and a channel is known to be empty then only from the
order of the ends. `OrderInv` is the strengthening of `KafkaOrder`: reading the
pipeline from the log back to the subscriber, every deploy of a stage precedes
every deploy of the later stages, and none exceeds `decoded`. `KafkaOrder`
alone is not inductive: a step appends what the producer holds, about which it
says nothing. `HeadOfLineInv` says that the fan-out gave the producer at most one
deploy that it did not give the worker; `HeartbeatBoundedByWorker` then counts
what the worker has not taken: the channel, and the one in the fan-out's hands.

For `KafkaProducer`, `CommittedInOrder` says nothing of what the broker holds and
of what is still to be sent, so a commit breaks its induction. `IInv` adds three
things. `ClientInv` says what state of the client goes with what the broker holds:
a client that is Ready has nothing open, and a commit that may still land belongs
to one that will begin no other. `HeldInv` says that the broker holds exactly what
it acknowledged of the call, or has given it up, and a whole call if a commit is
in flight (from there, `BatchIsAtomic`: `CallInv` has the calls disjoint).
`OrderInv` puts the log before what is open, and both before a call that has not
begun. Under the mapping of `Abstract`, `StepRefines` has a lemma for each kind of
step: what begins a call, what goes on inside it (a stutter), the commit, the
errors that end it, what the coordinator does by itself, a crash, and a new client.

For `Subscriber`, `OrderInv` orders the provider's buffer, the log in hand and what
was sent, of the live logs only (`Precedes`): a removal notice repeats an
old deploy. `HeldInv` says that there is a log in hand exactly while it is sent.
`LossIsAccounted` is inductive with these; a log that is overwritten, or arrives
with no subscription, moves into the history that names it.

For `Enrichment`, what makes the properties inductive is what the fetch in progress
knows. `ReadInv` orders its reads between the block it began at and the head, with
a default for each read still to come; `PoolInv` says of each tier below the one
being probed that it had no pool when the fetch began, or that the node did not
tell of it (`Passed`). `DeliveryInv` ties the row and the failure counter to the
delivery, and `FirstInv` the row's block to the first delivery until a call fails.
The write then turns `ReadInv` and `PoolInv` into `OneFetch` and `LowestTier` of
the row (`WriteStores`), and no block mined later can change them. `StaleIsCounted`
is inductive with `TypeOK`, `DeliveryInv` and `FirstInv`.

For `Backfill`, `IInv` states that inside a regular run the loop's start lies in
`from..to+1`, so that no sum leaves the block numbers and `PageEnd` is not below
`start`; the printed prefix is then exact, and exact up to `to` at the end.

For `SdkClient`, `OrderInv` adds to `InOrder` that the queue is empty while the
generator waits: a deploy that goes past the queue overtakes nothing only because
of that. `CloseInv` says that a generator that has handed out a deploy after
`close()` waits for no other and has none in hand.

For `Registry`, `TablesInv` says what the loop has put into the tables after each
launchpad: a route is that of the last launchpad so far with its pair, and every
pair that was configured has one. `LastFactoryRoutes` alone is not inductive,
because it says nothing of `byLaunchpad`, through which the filter of the other
readers is made; `DecodedIsWatched` follows from both tables together
(`DeployIsWatched`).

For `Bytecode`, `LoadedInv` says that the map holds the last signature of each
selector, and `ScanInv` that a scan under way has raised exactly what the
selectors it has visited raise, whichever they are: that is what makes the order
of the map irrelevant.

For `Bloom`, every bit lies in the vector because a hash is below m and the number
of words is the ceiling of m over the word size (`WordInRange`), and an inserted
item stays found because bits are only added and the size, the hashes and the
digest of an item do not change. Two of the k hashes meet if m divides d * b for a
distance d < k <= m: the `| 1` in `double_hash` makes b odd, and a power of two
that divides d * b with b odd divides d (`OddCancels`, by halving the least power
for which that fails), which is too small. The wrap of the products at 2^64 changes
nothing, because m divides 2^64 (`Unwrapped`). Powers of two are a constant with two
assumptions (`PowersOfTwoAssumption`, `WidthsAssumption`), since no prover used here
knows exponentiation; TLC evaluates both for the powers it is given.

For `Holders`, the sums are those of the library's recursive `MapThenSumSet`. What
holds of them for every set of accounts (any member may be taken first, a change
of one balance changes the sum by as much, a larger set of richer members sums up
to more) is proved on a least set for which it fails: inclusion of finite sets is
well-founded, and `WFMin` of the library states that with a set where its induction
theorems take an operator. `ConserveInv` then keeps the sum of the exact balances
of an honest token equal to its supply, and that at most `peak` (`ExactMoves`). While
`peak` is below 2^127 no balance overflows, no amount is saturated or cast to another
number, and neither panic has a cause (`TransferConserves`). `ListInv` keeps the list one of the richest. Of accounts that
are at most as many as the share is of, those in the numerator cancel, and the
others are no more than those they would replace, and no richer (`RichestListed`).

`EachAlgorithmRuns` is about the instance itself: a behaviour of `MCAlgorithms` is
one of each of the four modules, so that its run checks those and nothing more.

Model-checked only: the liveness properties (`ShutdownCompletes`,
`AcceptedIsSettled`, `DeadPipelineReported`, `CallsReturn`, `Resubscribes`,
`DroppedReceiverIsNoticed`, `Terminates`, `BusyStreamStops`), since TLAPS has neither
fairness nor ENABLED here, and the refutations of section 6.

## 6. Findings

Four runs refute what a doc of the repository says.

- `rpc_source.rs:75`, "Number of blocks after deploy to scan": the scan is made
  once, as the deploy arrives, and sees the blocks mined by then
  (`enrichment_window`).
- `rpc_source.rs:15`, every step "degrades to a partial snapshot rather than an
  error": a total supply (`rpc_source.rs:250`) or a liquidity (`:162`) above
  `u128::MAX` panics (`enrichment_panic`).
- `store.rs:32`, "Insert (or no-op on conflict) a deploy row": a second delivery
  overwrites `block_timestamp` and leaves `block_number`, so that the row of a deploy
  that was mined again is of two blocks (`enrichment_upsert`).
- `client.ts:31`, "Stops when [[close]] is called": a generator that waits for a
  deploy never returns (`sdk_close`).

What the passing runs show and a reader may not expect: a stalled worker stops
the Kafka feed after `EnrichCap + 1` deploys (`HeartbeatBoundedByWorker`); a
producer whose commit timed out drops every deploy until the process restarts,
and only `kafka_connected` says so (`WedgeIsReported`); main does not notice a
dead pipeline, only the age of the last event does (`DeadPipelineReported`); the
second of two launchpads with the same address and topic takes all the logs
(`LastFactoryRoutes`); a short `getPool` answer makes fetch take the pool of a
higher tier, a failed call does not (`LowestTier`); with more than K holders every
share is of the listed K, not of the supply (`SharesOfSupply`).

Some properties hold under a condition that they name. The models have what the code
does outside it, no property says that it is right, and it differs from a doc in
places:

- `Regular` (`PrefixPrinted`, `Terminates`): with a `--page-size` of 0 the loop
  stays where it is; a sum that leaves u64 panics in the dev profile, and in release
  the loop may wrap to block 0 and print deploys from before the "Inclusive starting
  block" (`backfill.rs:13`).
- `conserving` (`BalancesExact`, `SharesOfSupply`): an amount or a balance of 2^127 or
  more turns negative, so that the largest holder is not among "the top-K balances"
  (`rpc_source.rs:166`); listed balances that sum to 2^128 or more panic in dev and wrap
  in release, where a share, and `hhi`, may exceed 1 (`metrics.rs:81`).
- `TransferListed` (`ScanIsExact` has it as what the code depends on): without a
  signature of transfer's name every contract with an ERC-20 surface is flagged,
  although `scan.rs:35` speaks of one that does not "actually embed the canonical
  transfer selector" and `signatures.rs:21` of names that are "not load-bearing".
- The hung or panicked worker of `ShutdownCompletes` and `AcceptedIsSettled`, since no
  call has a timeout; the removal notices of `SentInOrder`, which `handle_log` sends on
  as deploys.
- Two things have no property at all: a second fetch that could read less replaces the
  row of one that read more (`store.rs:72`; `OneFetch` only says that the two are not
  mixed), and the delay of the reconnection is never set back (`subscriber.rs:45`).

The docs of the decoders, "fields that cannot be located degrade to `None` /
`Value::Null`" (`decode.rs:10`), hold of the data only: a log without topic 1 or 2 is an
error, and dropped with a warning (`decode.rs:91`), and Flaunch's salt is an empty
string.

## 7. Not modelled

Formatting, logging and metrics other than the counters the properties name;
topics and keys (the order is that of the whole feed, hence of each topic); the
HTTP server; floating-point results (the quotients of the shares, Gini, HHI,
`estimated_fpr`, the formulas of `with_capacity`) and `clamp_decimal`;
`postgres_connected`, which is TRUE from launch on; two deploys of one token in one
transaction by two launchpads, which `ON CONFLICT (tx_hash, token)` makes one row
of the first launchpad (`Enrichment` follows one deploy). `migrate`, the CLI and
the configuration have no state; the SDK's schemas are declarations, and the
deployment files build and start what is modelled.

## 8. Plan

Every invariant that is checked is proved. What is left to prove or to model:

1. `KafkaProducer` composed into `Pipeline`: that `ProdPublishOk` and
   `ProdPublishErr` are what `Publisher` allows its caller to see, so that
   `KafkaOrder` follows from the abstract log alone.
2. The safety halves of the liveness properties: the step each of them cannot do
   without (a drained channel below a dropped sender, a bounded backoff, a page that
   advances), as invariants or action properties.
3. The hazards that no property covers, if the repository comes to promise something
   about them.
