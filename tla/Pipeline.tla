------------------------------ MODULE Pipeline ------------------------------
(***************************************************************************)
(* The live ingestion pipeline of `shade-indexer serve`: four tokio tasks  *)
(* joined by three bounded mpsc channels, and the main task that launches  *)
(* them, waits for a signal and drains them.                               *)
(*                                                                         *)
(*   subscriber --deployCh--> fanout --kafkaCh---> producer_loop           *)
(*                                   --enrichCh--> EnrichWorker::run       *)
(*                                                                         *)
(* A deploy is the number under which the subscriber decoded it, so the    *)
(* order of the numbers is the order of the chain's feed.  The websocket   *)
(* side of the subscriber, the Kafka transaction behind `publish` and the  *)
(* rows behind the store's statements are reduced here to what they hand   *)
(* to the pipeline: a decoded deploy, and the outcome of a call.           *)
(***************************************************************************)
EXTENDS Integers, Sequences, FiniteSets, Functions

CONSTANTS
  DeployCap,   \* capacity of the subscriber's channel (CHANNEL_BUF)
  KafkaCap,    \* capacity of the fan-out's channel to the producer
  EnrichCap,   \* capacity of the fan-out's channel to the worker
  Profiles,    \* build profiles: "dev" unwinds a panic, "release" aborts
  MaxDeploys,  \* bound: deploys the subscriber decodes in a behaviour
  MaxLaunches  \* bound: times the process is launched

ASSUME PipelineAssumption ==
  /\ DeployCap \in Nat \ {0}
  /\ KafkaCap \in Nat \ {0}
  /\ EnrichCap \in Nat \ {0}
  /\ Profiles \subseteq {"dev", "release"}
  /\ MaxDeploys \in Nat
  /\ MaxLaunches \in Nat \ {0}

Deploys  == 1..MaxDeploys
NoDeploy == 0

VARIABLES
  profile,         \* the profile the binary was built with
  launches,        \* how many times the process was launched
  main,            \* where the main task is in serve::run
  decoded,         \* deploys the subscriber has decoded so far
  sub, subHeld,    \* subscriber task: control point, deploy it is sending
  fan, fanHeld,    \* fan-out task
  prod, prodHeld,  \* producer_loop task
  work, workHeld,  \* EnrichWorker::run task
  deployCh, kafkaCh, enrichCh,
  kafkaLog,        \* deploys committed to Kafka, in commit order (durable)
  rows, enriched,  \* keys of `deploys` and `deploy_enrichment` (durable)
  kafkaDrop,       \* deploys counted by shade_indexer_kafka_drop
  enrichFailed,    \* deploys counted by shade_indexer_enrich_failed
  lastEvent,       \* age of Liveness.last_event_unix
  kafkaConnected,  \* Liveness.kafka_connected
  accepted,        \* history: deploys the deploy channel took, this launch
  toKafka,         \* history: deploys the fan-out gave kafkaCh, this launch
  toEnrich         \* history: deploys the fan-out gave enrichCh, this launch

subVars    == <<sub, subHeld, decoded>>
fanVars    == <<fan, fanHeld>>
prodVars   == <<prod, prodHeld>>
workVars   == <<work, workHeld>>
channels   == <<deployCh, kafkaCh, enrichCh>>
durable    == <<kafkaLog, rows, enriched>>
counters   == <<kafkaDrop, enrichFailed>>
heartbeats == <<lastEvent, kafkaConnected>>
history    == <<accepted, toKafka, toEnrich>>
procVars   == <<profile, launches, main>>

vars == <<procVars, subVars, fanVars, prodVars, workVars, channels, durable,
          counters, heartbeats, history>>

-----------------------------------------------------------------------------
(* A sender is alive until the task that owns it ends; recv() answers None  *)
(* once the buffer is empty and every sender is gone.  A receiver is gone   *)
(* when the task that owns it ends, and its buffer goes with it.            *)
SubscriberEnded == sub \in {"Returned", "Aborted"}
FanoutEnded     == fan = "Done"
ProducerEnded   == prod = "Done"
WorkerEnded     == work \in {"Done", "Panicked"}

\* main has called subscriber_h.abort(): the signal arrived.
ShuttingDown == main # "Running"

Alive == main # "Exited"

\* Every task at the start of its loop, every channel empty, the counters of
\* a fresh process at zero and the heartbeats as `launch` sets them.
Launched ==
  /\ main = "Running"
  /\ sub = "Streaming" /\ subHeld = NoDeploy
  /\ fan = "Recv"      /\ fanHeld = NoDeploy
  /\ prod = "Recv"     /\ prodHeld = NoDeploy
  /\ work = "Recv"     /\ workHeld = NoDeploy
  /\ deployCh = <<>> /\ kafkaCh = <<>> /\ enrichCh = <<>>
  /\ kafkaDrop = {} /\ enrichFailed = {}
  /\ lastEvent = "never" /\ kafkaConnected = TRUE
  /\ accepted = {} /\ toKafka = {} /\ toEnrich = {}

Init ==
  /\ profile \in Profiles
  /\ launches = 1
  /\ decoded = 0
  /\ kafkaLog = <<>> /\ rows = {} /\ enriched = {}
  /\ Launched

-----------------------------------------------------------------------------
(* Plausible slips in the tasks below.  Each is an action (or guard) that a  *)
(* property at the end of this module must refute; no specification uses it. *)

\* The fan-out stops when the subscriber ends, without draining its channel.
FanRecvNone_Abandons ==
  /\ Alive
  /\ fan = "Recv"
  /\ SubscriberEnded
  /\ deployCh' = <<>>
  /\ fan' = "Done"
  /\ UNCHANGED <<procVars, subVars, fanHeld, prodVars, workVars, kafkaCh,
                 enrichCh, durable, counters, heartbeats, history>>

\* Another clone of the deploy sender outlives the aborted subscriber.
FanRecvNone_ClonedSender ==
  /\ Alive
  /\ fan = "Recv"
  /\ deployCh = <<>>
  /\ sub = "Returned"
  /\ fan' = "Done"
  /\ UNCHANGED <<procVars, subVars, fanHeld, prodVars, workVars, channels,
                 durable, counters, heartbeats, history>>

\* The channel to the worker is unbounded.
FanSendEnrich_Unbounded ==
  /\ Alive
  /\ fan = "SendEnrich"
  /\ ~WorkerEnded
  /\ enrichCh' = Append(enrichCh, fanHeld)
  /\ toEnrich' = toEnrich \cup {fanHeld}
  /\ fanHeld' = NoDeploy
  /\ fan' = "Recv"
  /\ UNCHANGED <<procVars, subVars, prodVars, workVars, deployCh, kafkaCh,
                 durable, counters, heartbeats, accepted, toKafka>>

\* What a failed publish does, when it differs from the code in where the
\* message goes or in what is counted.
PublishErrVariant(ch, dropped) ==
  /\ Alive
  /\ prod = "Publish"
  /\ kafkaLog' \in {kafkaLog, Append(kafkaLog, prodHeld)}
  /\ kafkaCh' = ch
  /\ kafkaDrop' = dropped
  /\ kafkaConnected' = FALSE
  /\ prodHeld' = NoDeploy
  /\ prod' = "Recv"
  /\ UNCHANGED <<procVars, subVars, fanVars, workVars, deployCh, enrichCh, rows,
                 enriched, enrichFailed, lastEvent, history>>

ProdPublishErr_Requeues ==
  /\ Len(kafkaCh) < KafkaCap
  /\ PublishErrVariant(Append(kafkaCh, prodHeld), kafkaDrop)
ProdPublishErr_Uncounted == PublishErrVariant(kafkaCh, kafkaDrop)

\* A failure of process is not counted, or ends the worker's loop.
WorkFailVariant(failed, next) ==
  /\ Alive
  /\ work \in {"Upsert", "Fetch", "Write"}
  /\ enrichFailed' = failed
  /\ workHeld' = NoDeploy
  /\ work' = next
  /\ UNCHANGED <<procVars, subVars, fanVars, prodVars, channels, durable,
                 kafkaDrop, heartbeats, history>>

WorkFail_Uncounted == WorkFailVariant(enrichFailed, "Recv")
WorkFail_Ends      == WorkFailVariant(enrichFailed \cup {workHeld}, "Done")

\* main exits without awaiting the worker.
MainAwait_SkipsWorker ==
  /\ \/ main = "AwaitFanout"   /\ FanoutEnded   /\ main' = "AwaitProducer"
     \/ main = "AwaitProducer" /\ ProducerEnded /\ main' = "Exited"
  /\ UNCHANGED <<profile, launches, subVars, fanVars, prodVars, workVars,
                 channels, durable, counters, heartbeats, history>>

\* /readyz does not look at the age of the last event.
Ready_NoStaleness == main = "Running" /\ kafkaConnected

-----------------------------------------------------------------------------
(* LaunchpadSubscriber::run_once: one log at a time.                        *)

\* A log of a tracked factory arrives and decodes; handle_log goes to send it.
SubDecode ==
  /\ Alive
  /\ sub = "Streaming"
  /\ decoded < MaxDeploys
  /\ decoded' = decoded + 1
  /\ subHeld' = decoded + 1
  /\ sub' = "Sending"
  /\ UNCHANGED <<procVars, fanVars, prodVars, workVars, channels, durable,
                 counters, heartbeats, history>>

\* Any other log (untracked factory, undecodable): nothing is sent, but the
\* loop looks at out.is_closed() after every log.
SubOtherLog ==
  /\ Alive
  /\ sub = "Streaming"
  /\ sub' = "CheckClosed"
  /\ UNCHANGED <<procVars, decoded, subHeld, fanVars, prodVars, workVars,
                 channels, durable, counters, heartbeats, history>>

\* out.send(deploy).await: takes a slot, or fails because the receiver is
\* gone; run_once only logs that failure.
SubSend ==
  /\ Alive
  /\ sub = "Sending"
  /\ \/ /\ ~FanoutEnded
        /\ Len(deployCh) < DeployCap
        /\ deployCh' = Append(deployCh, subHeld)
        /\ accepted' = accepted \cup {subHeld}
     \/ /\ FanoutEnded
        /\ UNCHANGED <<deployCh, accepted>>
  /\ sub' = "CheckClosed"
  /\ subHeld' = NoDeploy
  /\ UNCHANGED <<procVars, decoded, fanVars, prodVars, workVars, kafkaCh,
                 enrichCh, durable, counters, heartbeats, toKafka, toEnrich>>

SubCheckClosed ==
  /\ Alive
  /\ sub = "CheckClosed"
  /\ sub' = IF FanoutEnded THEN "Returned" ELSE "Streaming"
  /\ UNCHANGED <<procVars, decoded, subHeld, fanVars, prodVars, workVars,
                 channels, durable, counters, heartbeats, history>>

\* The abort takes effect at an await point: waiting for a log, or waiting
\* for a slot with a deploy in hand, which is lost.
SubCancelled ==
  /\ Alive
  /\ ShuttingDown
  /\ sub \in {"Streaming", "Sending"}
  /\ sub' = "Aborted"
  /\ subHeld' = NoDeploy
  /\ UNCHANGED <<procVars, decoded, fanVars, prodVars, workVars, channels,
                 durable, counters, heartbeats, history>>

-----------------------------------------------------------------------------
(* The fan-out task of pipeline::launch.                                    *)

FanRecv ==
  /\ Alive
  /\ fan = "Recv"
  /\ deployCh # <<>>
  /\ fanHeld' = Head(deployCh)
  /\ deployCh' = Tail(deployCh)
  /\ lastEvent' = "fresh"
  /\ fan' = "SendKafka"
  /\ UNCHANGED <<procVars, subVars, prodVars, workVars, kafkaCh, enrichCh,
                 durable, counters, kafkaConnected, history>>

FanRecvNone ==
  /\ Alive
  /\ fan = "Recv"
  /\ deployCh = <<>>
  /\ SubscriberEnded
  /\ fan' = "Done"
  /\ UNCHANGED <<procVars, subVars, fanHeld, prodVars, workVars, channels,
                 durable, counters, heartbeats, history>>

\* kafka_tx.send.  Its error branch is not written: KafkaSinkStaysOpen below
\* says that it cannot be taken.
FanSendKafka ==
  /\ Alive
  /\ fan = "SendKafka"
  /\ Len(kafkaCh) < KafkaCap
  /\ kafkaCh' = Append(kafkaCh, fanHeld)
  /\ toKafka' = toKafka \cup {fanHeld}
  /\ fan' = "SendEnrich"
  /\ UNCHANGED <<procVars, subVars, fanHeld, prodVars, workVars, deployCh,
                 enrichCh, durable, counters, heartbeats, accepted, toEnrich>>

FanSendEnrich ==
  /\ Alive
  /\ fan = "SendEnrich"
  /\ ~WorkerEnded
  /\ Len(enrichCh) < EnrichCap
  /\ enrichCh' = Append(enrichCh, fanHeld)
  /\ toEnrich' = toEnrich \cup {fanHeld}
  /\ fanHeld' = NoDeploy
  /\ fan' = "Recv"
  /\ UNCHANGED <<procVars, subVars, prodVars, workVars, deployCh, kafkaCh,
                 durable, counters, heartbeats, accepted, toKafka>>

\* enrich_tx.send fails because the worker is gone: "enrich sink closed",
\* break.  The deploy in hand and the buffered ones go with the receiver.
FanEnrichClosed ==
  /\ Alive
  /\ fan = "SendEnrich"
  /\ WorkerEnded
  /\ fanHeld' = NoDeploy
  /\ deployCh' = <<>>
  /\ fan' = "Done"
  /\ UNCHANGED <<procVars, subVars, prodVars, workVars, kafkaCh, enrichCh,
                 durable, counters, heartbeats, history>>

-----------------------------------------------------------------------------
(* producer_loop.                                                           *)

ProdRecv ==
  /\ Alive
  /\ prod = "Recv"
  /\ kafkaCh # <<>>
  /\ prodHeld' = Head(kafkaCh)
  /\ kafkaCh' = Tail(kafkaCh)
  /\ prod' = "Publish"
  /\ UNCHANGED <<procVars, subVars, fanVars, workVars, deployCh, enrichCh,
                 durable, counters, heartbeats, history>>

ProdRecvNone ==
  /\ Alive
  /\ prod = "Recv"
  /\ kafkaCh = <<>>
  /\ FanoutEnded
  /\ prod' = "Done"
  /\ UNCHANGED <<procVars, subVars, fanVars, prodHeld, workVars, channels,
                 durable, counters, heartbeats, history>>

\* publish() answered Ok: the one-message transaction is committed.
ProdPublishOk ==
  /\ Alive
  /\ prod = "Publish"
  /\ kafkaLog' = Append(kafkaLog, prodHeld)
  /\ kafkaConnected' = TRUE
  /\ prodHeld' = NoDeploy
  /\ prod' = "Recv"
  /\ UNCHANGED <<procVars, subVars, fanVars, workVars, channels, rows,
                 enriched, counters, lastEvent, history>>

\* publish() answered Err: the loop drops the message and goes on.  After a
\* timed-out commit the broker may have committed it all the same.
ProdPublishErr ==
  /\ Alive
  /\ prod = "Publish"
  /\ kafkaLog' \in {kafkaLog, Append(kafkaLog, prodHeld)}
  /\ kafkaDrop' = kafkaDrop \cup {prodHeld}
  /\ kafkaConnected' = FALSE
  /\ prodHeld' = NoDeploy
  /\ prod' = "Recv"
  /\ UNCHANGED <<procVars, subVars, fanVars, workVars, channels, rows,
                 enriched, enrichFailed, lastEvent, history>>

-----------------------------------------------------------------------------
(* EnrichWorker::run and process: three awaited calls for each deploy.      *)

WorkRecv ==
  /\ Alive
  /\ work = "Recv"
  /\ enrichCh # <<>>
  /\ workHeld' = Head(enrichCh)
  /\ enrichCh' = Tail(enrichCh)
  /\ work' = "Upsert"
  /\ UNCHANGED <<procVars, subVars, fanVars, prodVars, deployCh, kafkaCh,
                 durable, counters, heartbeats, history>>

WorkRecvNone ==
  /\ Alive
  /\ work = "Recv"
  /\ enrichCh = <<>>
  /\ FanoutEnded
  /\ work' = "Done"
  /\ UNCHANGED <<procVars, subVars, fanVars, prodVars, workHeld, channels,
                 durable, counters, heartbeats, history>>

WorkUpsert ==
  /\ Alive
  /\ work = "Upsert"
  /\ rows' = rows \cup {workHeld}
  /\ work' = "Fetch"
  /\ UNCHANGED <<procVars, subVars, fanVars, prodVars, workHeld, channels,
                 kafkaLog, enriched, counters, heartbeats, history>>

WorkFetch ==
  /\ Alive
  /\ work = "Fetch"
  /\ work' = "Write"
  /\ UNCHANGED <<procVars, subVars, fanVars, prodVars, workHeld, channels,
                 durable, counters, heartbeats, history>>

WorkWrite ==
  /\ Alive
  /\ work = "Write"
  /\ enriched' = enriched \cup {workHeld}
  /\ workHeld' = NoDeploy
  /\ work' = "Recv"
  /\ UNCHANGED <<procVars, subVars, fanVars, prodVars, channels, kafkaLog,
                 rows, counters, heartbeats, history>>

\* The statement the worker waits for may have taken effect in Postgres
\* although the answer never reached the worker.
StatementMayLand ==
  /\ rows' \in {rows} \cup (IF work = "Upsert" THEN {rows \cup {workHeld}} ELSE {})
  /\ enriched' \in {enriched}
                   \cup (IF work = "Write" THEN {enriched \cup {workHeld}} ELSE {})

\* A `?` of process: the failure is counted and the worker goes on.
WorkFail ==
  /\ Alive
  /\ work \in {"Upsert", "Fetch", "Write"}
  /\ StatementMayLand
  /\ enrichFailed' = enrichFailed \cup {workHeld}
  /\ workHeld' = NoDeploy
  /\ work' = "Recv"
  /\ UNCHANGED <<procVars, subVars, fanVars, prodVars, channels, kafkaLog,
                 kafkaDrop, heartbeats, history>>

\* Neither the RPC calls nor the statements have a timeout: a peer that
\* keeps the connection open and never answers holds the worker for good.
WorkHang ==
  /\ Alive
  /\ work \in {"Upsert", "Fetch", "Write"}
  /\ StatementMayLand
  /\ work' = "Hung"
  /\ UNCHANGED <<procVars, subVars, fanVars, prodVars, workHeld, channels,
                 kafkaLog, counters, heartbeats, history>>

\* fetch panics on a total supply above u128::MAX.  In the dev profile the
\* panic ends the worker task alone, and drops its receiver.
WorkPanic ==
  /\ Alive
  /\ profile = "dev"
  /\ work = "Fetch"
  /\ work' = "Panicked"
  /\ workHeld' = NoDeploy
  /\ enrichCh' = <<>>
  /\ UNCHANGED <<procVars, subVars, fanVars, prodVars, deployCh, kafkaCh,
                 durable, counters, heartbeats, history>>

-----------------------------------------------------------------------------
(* serve::run after launch, the clock, and the death of the process.        *)

ShutdownSignal ==
  /\ main = "Running"
  /\ main' = "AwaitFanout"
  /\ UNCHANGED <<profile, launches, subVars, fanVars, prodVars, workVars,
                 channels, durable, counters, heartbeats, history>>

\* `let _ = handle.await` for the three tasks in turn; a panicked task is a
\* join error, which main ignores.
MainAwait ==
  /\ \/ main = "AwaitFanout"   /\ FanoutEnded   /\ main' = "AwaitProducer"
     \/ main = "AwaitProducer" /\ ProducerEnded /\ main' = "AwaitWorker"
     \/ main = "AwaitWorker"   /\ WorkerEnded   /\ main' = "Exited"
  /\ UNCHANGED <<profile, launches, subVars, fanVars, prodVars, workVars,
                 channels, durable, counters, heartbeats, history>>

\* STALE_THRESHOLD passes with no event.
EventGoesStale ==
  /\ Alive
  /\ lastEvent = "fresh"
  /\ lastEvent' = "stale"
  /\ UNCHANGED <<procVars, subVars, fanVars, prodVars, workVars, channels,
                 durable, counters, kafkaConnected, history>>

\* What was on its way to a server when the process died may land or not.
InFlightMayLand ==
  /\ kafkaLog' \in {kafkaLog}
       \cup (IF prod = "Publish" THEN {Append(kafkaLog, prodHeld)} ELSE {})
  /\ StatementMayLand

\* The process is launched again after a clean exit, a kill, or (release
\* profile, where a panic aborts) a panic of the worker.  Memory is lost.
Relaunch ==
  /\ launches < MaxLaunches
  /\ launches' = launches + 1
  /\ InFlightMayLand
  /\ main' = "Running"
  /\ sub' = "Streaming" /\ subHeld' = NoDeploy
  /\ fan' = "Recv"      /\ fanHeld' = NoDeploy
  /\ prod' = "Recv"     /\ prodHeld' = NoDeploy
  /\ work' = "Recv"     /\ workHeld' = NoDeploy
  /\ deployCh' = <<>> /\ kafkaCh' = <<>> /\ enrichCh' = <<>>
  /\ kafkaDrop' = {} /\ enrichFailed' = {}
  /\ lastEvent' = "never" /\ kafkaConnected' = TRUE
  /\ accepted' = {} /\ toKafka' = {} /\ toEnrich' = {}
  /\ UNCHANGED <<profile, decoded>>

\* A process that ended for good, or that waits for a hung worker for ever,
\* is not a deadlock of the model.
Stopped ==
  /\ launches = MaxLaunches
  /\ \/ main = "Exited"
     \/ work = "Hung"
  /\ UNCHANGED vars

-----------------------------------------------------------------------------
SubscriberStep == SubSend \/ SubCheckClosed \/ SubCancelled
FanoutStep     == FanRecv \/ FanRecvNone \/ FanSendKafka \/ FanSendEnrich
                  \/ FanEnrichClosed
ProducerStep   == ProdRecv \/ ProdRecvNone \/ ProdPublishOk \/ ProdPublishErr
WorkerStep     == WorkRecv \/ WorkRecvNone \/ WorkUpsert \/ WorkFetch
                  \/ WorkWrite \/ WorkFail \/ WorkHang \/ WorkPanic

Next ==
  \/ SubDecode \/ SubOtherLog
  \/ SubscriberStep
  \/ FanoutStep
  \/ ProducerStep
  \/ WorkerStep
  \/ ShutdownSignal \/ MainAwait \/ EventGoesStale
  \/ Relaunch
  \/ Stopped

\* The runtime polls a task that can make progress, and the clock advances.
\* An abort is acted upon when the task next yields, which tokio's cooperative
\* budget makes it do even if logs never stop: that is strong fairness.
\* Nothing obliges a log, a signal, a crash or a relaunch to come.
Fairness ==
  /\ WF_vars(SubscriberStep)
  /\ SF_vars(SubCancelled)
  /\ WF_vars(FanoutStep)
  /\ WF_vars(ProducerStep)
  /\ WF_vars(WorkerStep)
  /\ WF_vars(MainAwait)
  /\ WF_vars(EventGoesStale)

Spec     == Init /\ [][Next]_vars
FairSpec == Spec /\ Fairness

-----------------------------------------------------------------------------
(* Properties.                                                              *)

\* Where the worker has a deploy in hand.
Processing == {"Upsert", "Fetch", "Write", "Hung"}

\* Each task is at one of its control points, and holds a deploy exactly while
\* it works on one.
PointsOK ==
  /\ profile \in Profiles
  /\ launches \in 1..MaxLaunches
  /\ main \in {"Running", "AwaitFanout", "AwaitProducer", "AwaitWorker", "Exited"}
  /\ decoded \in 0..MaxDeploys
  /\ sub \in {"Streaming", "Sending", "CheckClosed", "Returned", "Aborted"}
  /\ fan \in {"Recv", "SendKafka", "SendEnrich", "Done"}
  /\ prod \in {"Recv", "Publish", "Done"}
  /\ work \in Processing \cup {"Recv", "Done", "Panicked"}
  /\ subHeld \in IF sub = "Sending" THEN Deploys ELSE {NoDeploy}
  /\ fanHeld \in IF fan \in {"SendKafka", "SendEnrich"} THEN Deploys ELSE {NoDeploy}
  /\ prodHeld \in IF prod = "Publish" THEN Deploys ELSE {NoDeploy}
  /\ workHeld \in IF work \in Processing THEN Deploys ELSE {NoDeploy}

\* No channel exceeds its capacity.
ChannelsOK ==
  /\ deployCh \in Seq(Deploys) /\ Len(deployCh) <= DeployCap
  /\ kafkaCh \in Seq(Deploys) /\ Len(kafkaCh) <= KafkaCap
  /\ enrichCh \in Seq(Deploys) /\ Len(enrichCh) <= EnrichCap

RecordsOK ==
  /\ kafkaLog \in Seq(Deploys)
  /\ rows \subseteq Deploys /\ enriched \subseteq Deploys
  /\ kafkaDrop \subseteq Deploys /\ enrichFailed \subseteq Deploys
  /\ lastEvent \in {"never", "fresh", "stale"}
  /\ kafkaConnected \in BOOLEAN
  /\ accepted \subseteq Deploys /\ toKafka \subseteq Deploys /\ toEnrich \subseteq Deploys

\* Every variable has its type.
TypeOK == PointsOK /\ ChannelsOK /\ RecordsOK

\* The deploys one task holds, as a set.
Held(active, d) == IF active THEN {d} ELSE {}

InFanout(points) == Range(deployCh) \cup Held(fan \in points, fanHeld)

KafkaPending  == Range(kafkaCh) \cup Held(prod = "Publish", prodHeld)
KafkaSettled  == Range(kafkaLog) \cup kafkaDrop
EnrichPending == Range(enrichCh)
                 \cup Held(work \in Processing, workHeld)
EnrichSettled == enriched \cup enrichFailed

Increasing(s) == \A i, j \in 1..Len(s) : i < j => s[i] < s[j]

\* The deploys of a launchpad's topic appear in the order of the chain's
\* feed and never twice, across failed publishes, unknown commit outcomes,
\* crashes and relaunches.
KafkaOrder == Increasing(kafkaLog)

\* What the fan-out gave the producer is published, counted as dropped, or
\* still on its way: even when the worker died and the fan-out broke off.
KafkaLosesNothingSilently == toKafka \subseteq KafkaPending \cup KafkaSettled

\* While the worker has not panicked, a deploy the deploy channel accepted is
\* on both paths: on its way to, or settled at, the producer and the worker.
\* A deploy is lost only where a counter says so.
NoSilentLoss ==
  work # "Panicked" =>
    /\ accepted \subseteq InFanout({"SendKafka"}) \cup KafkaPending \cup KafkaSettled
    /\ accepted \subseteq InFanout({"SendKafka", "SendEnrich"})
                          \cup EnrichPending \cup EnrichSettled

\* "clean shutdown" (serve.rs) is true of the data: when main has awaited the
\* three tasks, every accepted deploy has been published or counted as
\* dropped and, unless the worker panicked, enriched or counted as failed.
CleanExitDrains ==
  main = "Exited" =>
    /\ toKafka \subseteq KafkaSettled
    /\ work # "Panicked" => accepted \subseteq KafkaSettled \cap EnrichSettled

\* Before a signal every task is alive, whatever Kafka, Postgres and the RPC
\* node answer: only a panic of the worker can end one, and end the others
\* after it.  (serve::run looks at no handle before the signal.)
OnlyPanicBreaksPipeline ==
  /\ main = "Running"
  /\ SubscriberEnded \/ FanoutEnded \/ ProducerEnded \/ WorkerEnded
  => work = "Panicked"

\* The fan-out never finds the Kafka sink closed: the producer outlives it
\* whatever Kafka answers, so "kafka sink closed" is dead code.
KafkaSinkStaysOpen == ProducerEnded => FanoutEnded

\* Head of line: the fan-out heartbeats and publishes at most EnrichCap + 1
\* deploys beyond those the worker has taken.  A stalled worker therefore
\* stops the Kafka feed and mark_event after EnrichCap + 1 deploys, and
\* /readyz turns stale.
Heartbeated  == toKafka \cup Held(fan = "SendKafka", fanHeld)
TakenByWorker == toEnrich \ Range(enrichCh)
HeartbeatBoundedByWorker ==
  Cardinality(Heartbeated \ TakenByWorker) <= EnrichCap + 1

\* An enrichment row always has its deploy row (the foreign key), and a
\* deploy row without one is in the worker's hands, counted as failed, or was
\* left behind by a panic or by an earlier launch.
RowsAccounted ==
  /\ enriched \subseteq rows
  /\ work # "Panicked" =>
       (rows \cap toEnrich) \ enriched \subseteq EnrichPending \cup enrichFailed

\* The answer of GET /readyz.  postgres_connected is TRUE from launch on:
\* nothing in the pipeline ever clears it.
Ready == main = "Running" /\ kafkaConnected /\ lastEvent = "fresh"

\* Once main has begun to drain, the process exits, unless the worker waits
\* for a peer that never answers (or the process is relaunched).
ShutdownCompletes ==
  (main \notin {"Running", "Exited"}) ~> (main \in {"Running", "Exited"} \/ work = "Hung")

\* An accepted deploy is settled on both paths, unless the worker hangs or
\* panics or the process dies.
AcceptedIsSettled ==
  \A d \in Deploys :
    (d \in accepted) ~> \/ d \in KafkaSettled \cap EnrichSettled
                        \/ d \notin accepted
                        \/ work \in {"Hung", "Panicked"}

\* main never looks at its tasks before a signal, but a pipeline whose
\* fan-out ended under it is reported: /readyz answers "not ready" for the
\* rest of the launch.
DeadPipelineReported ==
  \A n \in 1..MaxLaunches :
    (launches = n /\ fan = "Done") ~> [](launches = n => ~Ready)

=============================================================================
