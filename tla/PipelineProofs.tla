--------------------------- MODULE PipelineProofs ---------------------------
(***************************************************************************)
(* Theorems about Pipeline, for every capacity of the channels, every      *)
(* number of deploys and launches, and both build profiles.                *)
(***************************************************************************)
EXTENDS Pipeline, SequenceTheorems, FiniteSetTheorems, TLAPS

-----------------------------------------------------------------------------
(* What the channels' operations do to the set of queued deploys.           *)

\* A sequence of deploys as the set of its elements.
LEMMA RangeMember ==
  \A s \in Seq(Deploys) :
    /\ Range(s) \subseteq Deploys
    /\ \A x : x \in Range(s) <=> \E i \in 1..Len(s) : x = s[i]
  BY DEF Range

\* Sending adds the sent deploy.
LEMMA RangeAppend ==
  \A s \in Seq(Deploys), x \in Deploys :
    /\ Append(s, x) \in Seq(Deploys)
    /\ Len(Append(s, x)) = Len(s) + 1
    /\ Range(Append(s, x)) = Range(s) \cup {x}
<1> SUFFICES ASSUME NEW s \in Seq(Deploys), NEW x \in Deploys
             PROVE  /\ Append(s, x) \in Seq(Deploys)
                    /\ Len(Append(s, x)) = Len(s) + 1
                    /\ Range(Append(s, x)) = Range(s) \cup {x}
  OBVIOUS
<1> DEFINE t == Append(s, x)
<1>1. /\ t \in Seq(Deploys) /\ Len(t) = Len(s) + 1 /\ Len(s) \in Nat
      /\ \A i \in 1..Len(s) : t[i] = s[i]
      /\ t[Len(s) + 1] = x
  BY AppendProperties
<1>2. \A y : (\E i \in 1..Len(t) : y = t[i]) <=> y = x \/ \E i \in 1..Len(s) : y = s[i]
  <2> HIDE DEF t
  <2> QED
    BY <1>1
<1>3. \A y : y \in Range(t) <=> \E i \in 1..Len(t) : y = t[i]
  <2> HIDE DEF t
  <2> QED
    BY <1>1, RangeMember
<1>4. \A y : y \in Range(s) <=> \E i \in 1..Len(s) : y = s[i]
  BY RangeMember
<1>5. \A y : y \in Range(t) <=> y \in Range(s) \cup {x}
  <2> HIDE DEF t
  <2> QED
    BY <1>2, <1>3, <1>4
<1> QED
  BY <1>1, <1>5

\* Receiving removes nothing but the received deploy.
LEMMA RangeHeadTail ==
  \A s \in Seq(Deploys) : s # <<>> =>
    /\ Head(s) \in Deploys /\ Tail(s) \in Seq(Deploys)
    /\ Len(Tail(s)) = Len(s) - 1
    /\ Range(s) = {Head(s)} \cup Range(Tail(s))
<1> SUFFICES ASSUME NEW s \in Seq(Deploys), s # <<>>
             PROVE  /\ Head(s) \in Deploys /\ Tail(s) \in Seq(Deploys)
                    /\ Len(Tail(s)) = Len(s) - 1
                    /\ Range(s) = {Head(s)} \cup Range(Tail(s))
  OBVIOUS
<1> DEFINE t == Tail(s)
<1>1. /\ Head(s) \in Deploys /\ t \in Seq(Deploys)
      /\ Len(t) = Len(s) - 1
      /\ \A i \in 1..Len(t) : t[i] = s[i + 1]
  BY HeadTailProperties
<1>2. Len(s) \in Nat /\ Len(s) > 0 /\ Head(s) = s[1]
  OBVIOUS
<1>3. ASSUME NEW y
      PROVE  (\E i \in 1..Len(s) : y = s[i])
             <=> y = Head(s) \/ \E i \in 1..Len(t) : y = t[i]
  <2> HIDE DEF t
  <2>1. ASSUME NEW i \in 1..Len(s), y = s[i], i # 1
        PROVE  \E j \in 1..Len(t) : y = t[j]
    <3>1. i - 1 \in 1..Len(t) /\ y = t[i - 1]
      BY <1>1, <1>2, <2>1
    <3> QED
      BY <3>1
  <2>2. ASSUME NEW j \in 1..Len(t), y = t[j]
        PROVE  \E i \in 1..Len(s) : y = s[i]
    BY <1>1, <1>2, <2>2
  <2> QED
    BY <1>2, <2>1, <2>2
<1>4. \A y : y \in Range(t) <=> \E i \in 1..Len(t) : y = t[i]
  <2> HIDE DEF t
  <2> QED
    BY <1>1, RangeMember
<1>5. \A y : y \in Range(s) <=> \E i \in 1..Len(s) : y = s[i]
  BY RangeMember
<1>6. \A y : y \in Range(s) <=> y \in {Head(s)} \cup Range(t)
  <2> HIDE DEF t
  <2> QED
    BY <1>3, <1>4, <1>5
<1> QED
  BY <1>1, <1>6

\* An empty channel holds nothing.
LEMMA RangeEmpty ==
  <<>> \in Seq(Deploys) /\ Len(<<>>) = 0 /\ Range(<<>>) = {}
  BY DEF Range

-----------------------------------------------------------------------------
(* Type correctness.                                                        *)

\* The types hold at launch.
LEMMA TypeInit == Init => TypeOK
<1> SUFFICES ASSUME Init PROVE TypeOK
  OBVIOUS
<1> USE PipelineAssumption DEF Init, Launched
<1>1. PointsOK
  BY DEF PointsOK, NoDeploy, Processing
<1>2. ChannelsOK
  BY RangeEmpty DEF ChannelsOK
<1>3. RecordsOK
  BY RangeEmpty DEF RecordsOK
<1> QED
  BY <1>1, <1>2, <1>3 DEF TypeOK

\* A deploy that is received is a deploy.
LEMMA ReceivedIsDeploy ==
  ASSUME TypeOK
  PROVE  /\ deployCh # <<>> => Head(deployCh) \in Deploys
         /\ kafkaCh # <<>> => Head(kafkaCh) \in Deploys
         /\ enrichCh # <<>> => Head(enrichCh) \in Deploys
  BY RangeHeadTail DEF TypeOK, ChannelsOK

\* A task holds a deploy only where it works on one, after every step.
LEMMA PointsNext == TypeOK /\ [Next]_vars => PointsOK'
<1> SUFFICES ASSUME TypeOK, [Next]_vars PROVE PointsOK'
  OBVIOUS
<1>1. PointsOK
  BY DEF TypeOK
<1> USE <1>1, PipelineAssumption
    DEF PointsOK, procVars, subVars, fanVars, prodVars, workVars, NoDeploy, Processing
<1>2. CASE SubDecode
  BY <1>2 DEF SubDecode, Deploys
<1>3. CASE SubOtherLog \/ SubscriberStep
  BY <1>3 DEF SubOtherLog, SubscriberStep, SubSend, SubCheckClosed, SubCancelled
<1>4. CASE FanoutStep
  BY <1>4, ReceivedIsDeploy
  DEF FanoutStep, FanRecv, FanRecvNone, FanSendKafka, FanSendEnrich, FanEnrichClosed
<1>5. CASE ProducerStep
  BY <1>5, ReceivedIsDeploy
  DEF ProducerStep, ProdRecv, ProdRecvNone, ProdPublishOk, ProdPublishErr
<1>6. CASE WorkerStep
  BY <1>6, ReceivedIsDeploy
  DEF WorkerStep, WorkRecv, WorkRecvNone, WorkUpsert, WorkFetch, WorkWrite,
      WorkFail, WorkHang, WorkPanic
<1>7. CASE ShutdownSignal \/ MainAwait \/ EventGoesStale
  BY <1>7 DEF ShutdownSignal, MainAwait, EventGoesStale
<1>8. CASE Relaunch
  BY <1>8 DEF Relaunch
<1>9. CASE Stopped \/ UNCHANGED vars
  BY <1>9 DEF Stopped, vars
<1> QED
  BY <1>2, <1>3, <1>4, <1>5, <1>6, <1>7, <1>8, <1>9 DEF Next

\* A channel keeps its type and capacity when it is left alone or emptied,
\* when its head is received, and when a deploy is sent into a free slot.
LEMMA ChannelKept ==
  ASSUME NEW c, NEW d, NEW x, NEW cap \in Nat,
         c \in Seq(Deploys), Len(c) <= cap,
         \/ d = c \/ d = <<>>
         \/ c # <<>> /\ d = Tail(c)
         \/ x \in Deploys /\ Len(c) < cap /\ d = Append(c, x)
  PROVE  d \in Seq(Deploys) /\ Len(d) <= cap
<1>1. CASE d = c
  BY <1>1
<1>2. CASE d = <<>>
  <2>1. Len(d) = 0 /\ d \in Seq(Deploys)
    BY <1>2
  <2> QED
    BY <2>1
<1>3. CASE c # <<>> /\ d = Tail(c)
  BY <1>3, RangeHeadTail
<1>4. CASE x \in Deploys /\ Len(c) < cap /\ d = Append(c, x)
  BY <1>4, RangeAppend
<1> QED
  BY <1>1, <1>2, <1>3, <1>4

\* What each step does to the three channels.
LEMMA ChannelSteps ==
  ASSUME TypeOK, [Next]_vars
  PROVE  /\ \/ deployCh' = deployCh \/ deployCh' = <<>>
            \/ deployCh # <<>> /\ deployCh' = Tail(deployCh)
            \/ /\ subHeld \in Deploys /\ Len(deployCh) < DeployCap
               /\ deployCh' = Append(deployCh, subHeld)
         /\ \/ kafkaCh' = kafkaCh \/ kafkaCh' = <<>>
            \/ kafkaCh # <<>> /\ kafkaCh' = Tail(kafkaCh)
            \/ /\ fanHeld \in Deploys /\ Len(kafkaCh) < KafkaCap
               /\ kafkaCh' = Append(kafkaCh, fanHeld)
         /\ \/ enrichCh' = enrichCh \/ enrichCh' = <<>>
            \/ enrichCh # <<>> /\ enrichCh' = Tail(enrichCh)
            \/ /\ fanHeld \in Deploys /\ Len(enrichCh) < EnrichCap
               /\ enrichCh' = Append(enrichCh, fanHeld)
<1>1. /\ sub = "Sending" => subHeld \in Deploys
      /\ fan \in {"SendKafka", "SendEnrich"} => fanHeld \in Deploys
  BY DEF TypeOK, PointsOK
<1> USE DEF channels
<1>2. CASE SubDecode \/ SubOtherLog \/ SubscriberStep
  BY <1>1, <1>2
  DEF SubDecode, SubOtherLog, SubscriberStep, SubSend, SubCheckClosed, SubCancelled
<1>3. CASE FanoutStep
  BY <1>1, <1>3
  DEF FanoutStep, FanRecv, FanRecvNone, FanSendKafka, FanSendEnrich, FanEnrichClosed
<1>4. CASE ProducerStep
  BY <1>4 DEF ProducerStep, ProdRecv, ProdRecvNone, ProdPublishOk, ProdPublishErr
<1>5. CASE WorkerStep
  BY <1>5 DEF WorkerStep, WorkRecv, WorkRecvNone, WorkUpsert, WorkFetch, WorkWrite,
              WorkFail, WorkHang, WorkPanic
<1>6. CASE ShutdownSignal \/ MainAwait \/ EventGoesStale \/ Relaunch
  BY <1>6 DEF ShutdownSignal, MainAwait, EventGoesStale, Relaunch
<1>7. CASE Stopped \/ UNCHANGED vars
  BY <1>7 DEF Stopped, vars
<1> QED
  BY <1>2, <1>3, <1>4, <1>5, <1>6, <1>7 DEF Next

\* No step makes a channel outgrow its capacity.
LEMMA ChannelsNext == TypeOK /\ [Next]_vars => ChannelsOK'
<1> SUFFICES ASSUME TypeOK, [Next]_vars PROVE ChannelsOK'
  OBVIOUS
<1>1. DeployCap \in Nat /\ KafkaCap \in Nat /\ EnrichCap \in Nat
  BY PipelineAssumption
<1>2. ChannelsOK
  BY DEF TypeOK
<1>3. deployCh' \in Seq(Deploys) /\ Len(deployCh') <= DeployCap
  BY <1>1, <1>2, ChannelSteps, ChannelKept DEF ChannelsOK
<1>4. kafkaCh' \in Seq(Deploys) /\ Len(kafkaCh') <= KafkaCap
  BY <1>1, <1>2, ChannelSteps, ChannelKept DEF ChannelsOK
<1>5. enrichCh' \in Seq(Deploys) /\ Len(enrichCh') <= EnrichCap
  BY <1>1, <1>2, ChannelSteps, ChannelKept DEF ChannelsOK
<1> QED
  BY <1>3, <1>4, <1>5 DEF ChannelsOK

\* What was logged, stored and counted keeps its types.
LEMMA RecordsNext == TypeOK /\ [Next]_vars => RecordsOK'
<1> SUFFICES ASSUME TypeOK, [Next]_vars PROVE RecordsOK'
  OBVIOUS
<1>1. RecordsOK /\ PointsOK
  BY DEF TypeOK
<1>2. /\ sub = "Sending" => subHeld \in Deploys
      /\ fan \in {"SendKafka", "SendEnrich"} => fanHeld \in Deploys
      /\ prod = "Publish" => /\ prodHeld \in Deploys
                             /\ Append(kafkaLog, prodHeld) \in Seq(Deploys)
      /\ work \in Processing => workHeld \in Deploys
  BY <1>1, RangeAppend DEF PointsOK, RecordsOK
<1> USE <1>1, <1>2
    DEF RecordsOK, durable, counters, heartbeats, history, StatementMayLand, Processing
<1>3. CASE SubDecode \/ SubOtherLog \/ SubscriberStep
  BY <1>3
  DEF SubDecode, SubOtherLog, SubscriberStep, SubSend, SubCheckClosed, SubCancelled
<1>4. CASE FanoutStep
  BY <1>4
  DEF FanoutStep, FanRecv, FanRecvNone, FanSendKafka, FanSendEnrich, FanEnrichClosed
<1>5. CASE ProducerStep
  BY <1>5 DEF ProducerStep, ProdRecv, ProdRecvNone, ProdPublishOk, ProdPublishErr
<1>6. CASE WorkerStep
  BY <1>6 DEF WorkerStep, WorkRecv, WorkRecvNone, WorkUpsert, WorkFetch, WorkWrite,
              WorkFail, WorkHang, WorkPanic
<1>7. CASE ShutdownSignal \/ MainAwait \/ EventGoesStale
  BY <1>7 DEF ShutdownSignal, MainAwait, EventGoesStale
<1>8. CASE Relaunch
  BY <1>8 DEF Relaunch, InFlightMayLand
<1>9. CASE Stopped \/ UNCHANGED vars
  BY <1>9 DEF Stopped, vars
<1> QED
  BY <1>3, <1>4, <1>5, <1>6, <1>7, <1>8, <1>9 DEF Next

\* Every step keeps the types.
LEMMA TypeNext == TypeOK /\ [Next]_vars => TypeOK'
  BY PointsNext, ChannelsNext, RecordsNext DEF TypeOK

\* Every variable keeps its type, and no channel exceeds its capacity.
THEOREM TypeCorrect == Spec => []TypeOK
  BY TypeInit, TypeNext, PTL DEF Spec

-----------------------------------------------------------------------------
(* How the tasks end.                                                       *)

\* A task ends only after the one that feeds it, with its channel empty, or
\* in the wake of a panicked worker; and main awaits them in that order.
ControlInv ==
  /\ sub = "Returned" => fan = "Done"
  /\ sub = "Aborted" => main # "Running"
  /\ fan = "Done" => deployCh = <<>>
  /\ prod = "Done" => fan = "Done" /\ kafkaCh = <<>>
  /\ work = "Done" => fan = "Done"
  /\ work \in {"Done", "Panicked"} => enrichCh = <<>>
  /\ main = "Running" /\ fan = "Done" => work = "Panicked"
  /\ main \in {"AwaitProducer", "AwaitWorker", "Exited"} => fan = "Done"
  /\ main \in {"AwaitWorker", "Exited"} => prod = "Done"
  /\ main = "Exited" => work \in {"Done", "Panicked"}

\* Nothing has ended at launch.
LEMMA ControlInit == Init => ControlInv
  BY DEF Init, Launched, ControlInv

\* Tasks end in the order that ControlInv says.
LEMMA ControlNext == TypeOK /\ ControlInv /\ [Next]_vars => ControlInv'
<1> SUFFICES ASSUME TypeOK, ControlInv, [Next]_vars PROVE ControlInv'
  OBVIOUS
<1>1. PointsOK
  BY DEF TypeOK
<1> USE DEF ControlInv, procVars, subVars, fanVars, prodVars, workVars, channels,
            SubscriberEnded, FanoutEnded, ProducerEnded, WorkerEnded, Alive, ShuttingDown
<1>2. CASE SubDecode \/ SubOtherLog \/ SubscriberStep
  BY <1>2
  DEF SubDecode, SubOtherLog, SubscriberStep, SubSend, SubCheckClosed, SubCancelled
<1>3. CASE FanoutStep
  BY <1>3
  DEF FanoutStep, FanRecv, FanRecvNone, FanSendKafka, FanSendEnrich, FanEnrichClosed
<1>4. CASE ProducerStep
  BY <1>4 DEF ProducerStep, ProdRecv, ProdRecvNone, ProdPublishOk, ProdPublishErr
<1>5. CASE WorkerStep
  BY <1>5 DEF WorkerStep, WorkRecv, WorkRecvNone, WorkUpsert, WorkFetch, WorkWrite,
              WorkFail, WorkHang, WorkPanic
<1>6. CASE ShutdownSignal \/ MainAwait \/ EventGoesStale
  BY <1>1, <1>6 DEF ShutdownSignal, MainAwait, EventGoesStale, PointsOK
<1>7. CASE Relaunch
  BY <1>7 DEF Relaunch
<1>8. CASE Stopped \/ UNCHANGED vars
  BY <1>8 DEF Stopped, vars
<1> QED
  BY <1>2, <1>3, <1>4, <1>5, <1>6, <1>7, <1>8 DEF Next

\* The producer outlives the fan-out: "kafka sink closed" is dead code.
THEOREM KafkaSinkStaysOpenCorrect == Spec => []KafkaSinkStaysOpen
<1>1. ControlInv => KafkaSinkStaysOpen
  BY DEF ControlInv, KafkaSinkStaysOpen, ProducerEnded, FanoutEnded
<1> QED
  BY <1>1, TypeInit, TypeNext, ControlInit, ControlNext, PTL DEF Spec

\* Before a signal only a panic of the worker ends tasks.
THEOREM OnlyPanicBreaksPipelineCorrect == Spec => []OnlyPanicBreaksPipeline
<1>1. ControlInv => OnlyPanicBreaksPipeline
  BY DEF ControlInv, OnlyPanicBreaksPipeline, SubscriberEnded, FanoutEnded,
         ProducerEnded, WorkerEnded
<1> QED
  BY <1>1, TypeInit, TypeNext, ControlInit, ControlNext, PTL DEF Spec

-----------------------------------------------------------------------------
(* Nothing is lost silently.                                                *)

\* A deploy the worker was given is on its way or settled, and has its row
\* before it can get its enrichment.
WorkerInv ==
  /\ enriched \subseteq rows
  /\ work \in {"Fetch", "Write"} => workHeld \in rows
  /\ work # "Panicked" => toEnrich \subseteq EnrichPending \cup EnrichSettled

LossInv == KafkaLosesNothingSilently /\ NoSilentLoss /\ WorkerInv

\* At launch there is nothing to lose.
LEMMA LossInit == Init => LossInv
  BY DEF Init, Launched, LossInv, KafkaLosesNothingSilently, NoSilentLoss, WorkerInv

\* What each channel holds after a send, a receive, or the loss of the buffer.
LEMMA Queued ==
  ASSUME TypeOK
  PROVE  /\ deployCh # <<>> => Range(deployCh) = {Head(deployCh)} \cup Range(Tail(deployCh))
         /\ kafkaCh # <<>> => Range(kafkaCh) = {Head(kafkaCh)} \cup Range(Tail(kafkaCh))
         /\ enrichCh # <<>> => Range(enrichCh) = {Head(enrichCh)} \cup Range(Tail(enrichCh))
         /\ sub = "Sending" =>
              Range(Append(deployCh, subHeld)) = Range(deployCh) \cup {subHeld}
         /\ fan \in {"SendKafka", "SendEnrich"} =>
              /\ Range(Append(kafkaCh, fanHeld)) = Range(kafkaCh) \cup {fanHeld}
              /\ Range(Append(enrichCh, fanHeld)) = Range(enrichCh) \cup {fanHeld}
         /\ prod = "Publish" =>
              Range(Append(kafkaLog, prodHeld)) = Range(kafkaLog) \cup {prodHeld}
<1>1. /\ deployCh \in Seq(Deploys) /\ kafkaCh \in Seq(Deploys)
      /\ enrichCh \in Seq(Deploys) /\ kafkaLog \in Seq(Deploys)
  BY DEF TypeOK, ChannelsOK, RecordsOK
<1>2. /\ sub = "Sending" => subHeld \in Deploys
      /\ fan \in {"SendKafka", "SendEnrich"} => fanHeld \in Deploys
      /\ prod = "Publish" => prodHeld \in Deploys
  BY DEF TypeOK, PointsOK
<1> QED
  BY <1>1, <1>2, RangeHeadTail, RangeAppend

\* A deploy that leaves a place is in the next one, settled or counted.
LEMMA LossNext == TypeOK /\ ControlInv /\ LossInv /\ [Next]_vars => LossInv'
<1> SUFFICES ASSUME TypeOK, ControlInv, LossInv, [Next]_vars PROVE LossInv'
  OBVIOUS
<1> USE Queued, RangeEmpty
    DEF LossInv, KafkaLosesNothingSilently, NoSilentLoss, WorkerInv, InFanout,
        KafkaPending, KafkaSettled, EnrichPending, EnrichSettled, Held, Processing,
        procVars, subVars, fanVars, prodVars, workVars, channels, durable, counters,
        heartbeats, history
<1>1. CASE SubSend
  BY <1>1 DEF SubSend
<1>2. CASE SubDecode \/ SubOtherLog \/ SubCheckClosed \/ SubCancelled
  BY <1>2 DEF SubDecode, SubOtherLog, SubCheckClosed, SubCancelled
<1>3. CASE FanRecv
  BY <1>3 DEF FanRecv
<1>4. CASE FanRecvNone
  BY <1>4 DEF FanRecvNone
<1>5. CASE FanSendKafka
  BY <1>5 DEF FanSendKafka
<1>6. CASE FanSendEnrich
  BY <1>6 DEF FanSendEnrich
<1>7. CASE FanEnrichClosed
  BY <1>7 DEF FanEnrichClosed, WorkerEnded, ControlInv
<1>8. CASE ProdRecv
  BY <1>8 DEF ProdRecv
<1>9. CASE ProdRecvNone
  BY <1>9 DEF ProdRecvNone
<1>10. CASE ProdPublishOk
  BY <1>10 DEF ProdPublishOk
<1>11. CASE ProdPublishErr
  BY <1>11 DEF ProdPublishErr
<1>12. CASE WorkRecv
  BY <1>12 DEF WorkRecv
<1>13. CASE WorkRecvNone \/ WorkFetch \/ WorkPanic
  BY <1>13 DEF WorkRecvNone, WorkFetch, WorkPanic
<1>14. CASE WorkUpsert
  BY <1>14 DEF WorkUpsert
<1>15. CASE WorkWrite
  BY <1>15 DEF WorkWrite
<1>16. CASE WorkFail
  BY <1>16 DEF WorkFail, StatementMayLand
<1>17. CASE WorkHang
  BY <1>17 DEF WorkHang, StatementMayLand
<1>18. CASE ShutdownSignal \/ MainAwait \/ EventGoesStale
  BY <1>18 DEF ShutdownSignal, MainAwait, EventGoesStale
<1>19. CASE Relaunch
  BY <1>19 DEF Relaunch, InFlightMayLand, StatementMayLand
<1>20. CASE Stopped \/ UNCHANGED vars
  BY <1>20 DEF Stopped, vars
<1> QED
  BY <1>1, <1>2, <1>3, <1>4, <1>5, <1>6, <1>7, <1>8, <1>9, <1>10, <1>11, <1>12,
     <1>13, <1>14, <1>15, <1>16, <1>17, <1>18, <1>19, <1>20
  DEF Next, SubscriberStep, FanoutStep, ProducerStep, WorkerStep

\* No accepted deploy is ever unaccounted for.
LEMMA LossInvariant == Spec => [](TypeOK /\ ControlInv /\ LossInv)
  BY TypeInit, TypeNext, ControlInit, ControlNext, LossInit, LossNext, PTL DEF Spec

\* What the producer was given is published, counted as dropped, or pending.
THEOREM KafkaLosesNothingSilentlyCorrect == Spec => []KafkaLosesNothingSilently
  BY LossInvariant, PTL DEF LossInv

\* Short of a panic, an accepted deploy is pending or settled on both paths.
THEOREM NoSilentLossCorrect == Spec => []NoSilentLoss
  BY LossInvariant, PTL DEF LossInv

\* A deploy row without its enrichment is pending or counted, short of a panic.
THEOREM RowsAccountedCorrect == Spec => []RowsAccounted
<1>1. LossInv => RowsAccounted
  BY DEF LossInv, WorkerInv, RowsAccounted, EnrichSettled
<1> QED
  BY <1>1, LossInvariant, PTL

\* A clean exit leaves nothing pending: the channels are empty and no task has
\* a deploy in hand, so that "pending or settled" means settled.
THEOREM CleanExitDrainsCorrect == Spec => []CleanExitDrains
<1>1. ControlInv /\ LossInv => CleanExitDrains
  <2> SUFFICES ASSUME ControlInv, LossInv, main = "Exited"
               PROVE  /\ toKafka \subseteq KafkaSettled
                      /\ work # "Panicked" => accepted \subseteq KafkaSettled \cap EnrichSettled
    BY DEF CleanExitDrains
  <2>1. /\ fan = "Done" /\ prod = "Done" /\ work \in {"Done", "Panicked"}
        /\ deployCh = <<>> /\ kafkaCh = <<>> /\ enrichCh = <<>>
    BY DEF ControlInv
  <2>2. KafkaPending = {} /\ EnrichPending = {}
    BY <2>1, RangeEmpty DEF KafkaPending, EnrichPending, Held, Processing
  <2>3. InFanout({"SendKafka"}) = {} /\ InFanout({"SendKafka", "SendEnrich"}) = {}
    BY <2>1, RangeEmpty DEF InFanout, Held
  <2> QED
    BY <2>2, <2>3 DEF LossInv, KafkaLosesNothingSilently, NoSilentLoss
<1> QED
  BY <1>1, LossInvariant, PTL

-----------------------------------------------------------------------------
(* The order of the feed.                                                   *)

Before(S, T) == \A x \in S, y \in T : x < y

\* The stages a deploy passes on its way to Kafka, from the last to the first.
InProd   == Held(prod = "Publish", prodHeld)
InKafka  == Range(kafkaCh)
InFan    == Held(fan = "SendKafka", fanHeld)
InDeploy == Range(deployCh)
InSub    == Held(sub = "Sending", subHeld)

\* Deploys are in the order of the feed at each stage, and those of a stage
\* come before those of every earlier one.
OrderInv ==
  /\ Increasing(kafkaLog) /\ Increasing(kafkaCh) /\ Increasing(deployCh)
  /\ Before(Range(kafkaLog), InProd \cup InKafka \cup InFan \cup InDeploy \cup InSub)
  /\ Before(InProd, InKafka \cup InFan \cup InDeploy \cup InSub)
  /\ Before(InKafka, InFan \cup InDeploy \cup InSub)
  /\ Before(InFan, InDeploy \cup InSub)
  /\ Before(InDeploy, InSub)
  /\ \A d \in Range(kafkaLog) \cup InProd \cup InKafka \cup InFan \cup InDeploy \cup InSub :
       d <= decoded

\* Appending what comes after all the rest keeps a sequence increasing.
LEMMA IncreasingAppend ==
  \A s \in Seq(Deploys), x \in Deploys :
    Increasing(s) /\ Before(Range(s), {x}) => Increasing(Append(s, x))
<1> SUFFICES ASSUME NEW s \in Seq(Deploys), NEW x \in Deploys,
                    Increasing(s), Before(Range(s), {x}),
                    NEW i \in 1..Len(Append(s, x)), NEW j \in 1..Len(Append(s, x)), i < j
             PROVE  Append(s, x)[i] < Append(s, x)[j]
  BY DEF Increasing
<1>1. /\ Len(Append(s, x)) = Len(s) + 1 /\ Len(s) \in Nat
      /\ \A k \in 1..Len(s) : Append(s, x)[k] = s[k]
      /\ Append(s, x)[Len(s) + 1] = x
  BY AppendProperties
<1>2. i \in 1..Len(s)
  BY <1>1
<1>3. CASE j \in 1..Len(s)
  BY <1>1, <1>2, <1>3 DEF Increasing
<1>4. CASE j = Len(s) + 1
  <2>1. s[i] \in Range(s)
    BY <1>2, RangeMember
  <2> QED
    BY <1>1, <1>2, <1>4, <2>1 DEF Before
<1> QED
  BY <1>1, <1>3, <1>4

\* The head of an increasing sequence comes before its tail.
LEMMA IncreasingTail ==
  \A s \in Seq(Deploys) :
    Increasing(s) /\ s # <<>> => Increasing(Tail(s)) /\ Before({Head(s)}, Range(Tail(s)))
<1> SUFFICES ASSUME NEW s \in Seq(Deploys), Increasing(s), s # <<>>
             PROVE  Increasing(Tail(s)) /\ Before({Head(s)}, Range(Tail(s)))
  OBVIOUS
<1> DEFINE t == Tail(s)
<1>1. /\ t \in Seq(Deploys) /\ Len(t) = Len(s) - 1 /\ Len(s) \in Nat
      /\ \A k \in 1..Len(t) : t[k] = s[k + 1]
      /\ Head(s) = s[1]
  BY HeadTailProperties
<1> HIDE DEF t
<1>2. Increasing(t)
  BY <1>1 DEF Increasing
<1>3. ASSUME NEW y \in Range(t) PROVE Head(s) < y
  <2>1. PICK k \in 1..Len(t) : y = t[k]
    BY <1>1, RangeMember
  <2>2. y = s[k + 1] /\ k + 1 \in 1..Len(s) /\ 1 \in 1..Len(s) /\ 1 < k + 1
    BY <1>1, <2>1
  <2>3. s[1] < s[k + 1]
    BY <2>2 DEF Increasing
  <2> QED
    BY <1>1, <2>2, <2>3
<1> QED
  BY <1>2, <1>3 DEF Before, t

\* The empty log is in order.
LEMMA IncreasingEmpty == Increasing(<<>>)
  BY DEF Increasing

\* The pipeline is empty, hence in order, at launch.
LEMMA OrderInit == Init => OrderInv
  BY RangeEmpty, IncreasingEmpty
  DEF Init, Launched, OrderInv, Before, InProd, InKafka, InFan, InDeploy, InSub, Held

\* Deploys move on behind those before them.
LEMMA OrderNext == TypeOK /\ OrderInv /\ [Next]_vars => OrderInv'
<1> SUFFICES ASSUME TypeOK, OrderInv, [Next]_vars PROVE OrderInv'
  OBVIOUS
<1>1. Deploys \subseteq Int
  BY DEF Deploys
<1>2. /\ kafkaLog \in Seq(Deploys) /\ kafkaCh \in Seq(Deploys) /\ deployCh \in Seq(Deploys)
      /\ sub = "Sending" => subHeld \in Deploys
      /\ fan = "SendKafka" => fanHeld \in Deploys
      /\ prod = "Publish" => prodHeld \in Deploys
      /\ decoded \in Nat
  BY DEF TypeOK, PointsOK, ChannelsOK, RecordsOK
<1> USE DEF procVars, subVars, fanVars, prodVars, workVars, channels, durable,
            counters, heartbeats, history
<1>3. /\ InProd \subseteq Deploys /\ InKafka \subseteq Deploys /\ InFan \subseteq Deploys
      /\ InDeploy \subseteq Deploys /\ InSub \subseteq Deploys
      /\ Range(kafkaLog) \subseteq Deploys
  BY <1>2, RangeMember DEF InProd, InKafka, InFan, InDeploy, InSub, Held
\* Steps that touch no stage, or only take the subscriber's deploy away.
<1>4. ASSUME UNCHANGED <<kafkaLog, prod, prodHeld, kafkaCh, fan, fanHeld, deployCh>>,
             InSub' \subseteq InSub, decoded' = decoded
      PROVE  OrderInv'
  <2>1. UNCHANGED <<InProd, InKafka, InFan, InDeploy, Range(kafkaLog)>>
    BY <1>4 DEF InProd, InKafka, InFan, InDeploy
  <2>2. Increasing(kafkaLog)' /\ Increasing(kafkaCh)' /\ Increasing(deployCh)'
    BY <1>4 DEF OrderInv
  <2> QED
    BY <1>4, <2>1, <2>2 DEF OrderInv, Before
<1>5. CASE SubDecode
  <2>1. /\ InSub = {} /\ InSub' = {decoded + 1} /\ decoded' = decoded + 1
        /\ UNCHANGED <<InProd, InKafka, InFan, InDeploy, Range(kafkaLog)>>
    BY <1>5 DEF SubDecode, InProd, InKafka, InFan, InDeploy, InSub, Held
  <2>2. Increasing(kafkaLog)' /\ Increasing(kafkaCh)' /\ Increasing(deployCh)'
    BY <1>5 DEF SubDecode, OrderInv
  <2> DEFINE stages == Range(kafkaLog) \cup InProd \cup InKafka \cup InFan \cup InDeploy
  <2>3. stages \subseteq Int /\ \A d \in stages : d <= decoded
    BY <1>1, <1>3 DEF OrderInv
  <2>4. Before(stages, InSub') /\ \A d \in stages \cup InSub' : d <= decoded'
    BY <1>2, <2>1, <2>3 DEF Before
  <2> QED
    BY <2>1, <2>2, <2>4 DEF OrderInv, Before
<1>6. CASE SubOtherLog \/ SubCheckClosed \/ SubCancelled
  BY <1>4, <1>6 DEF SubOtherLog, SubCheckClosed, SubCancelled, InSub, Held
<1>7. CASE SubSend
  <2>1. CASE deployCh' = deployCh
    BY <1>4, <1>7, <2>1 DEF SubSend, InSub, Held
  <2>2. CASE deployCh' = Append(deployCh, subHeld)
    <3>1. /\ InSub = {subHeld} /\ InSub' = {} /\ InDeploy' = InDeploy \cup {subHeld}
          /\ UNCHANGED <<InProd, InKafka, InFan, Range(kafkaLog), decoded>>
      BY <1>2, <1>7, <2>2, RangeAppend
      DEF SubSend, InProd, InKafka, InFan, InDeploy, InSub, Held
    <3>2. Increasing(deployCh)'
      BY <1>2, <1>7, <2>2, <3>1, IncreasingAppend DEF SubSend, OrderInv, InDeploy
    <3>3. Increasing(kafkaLog)' /\ Increasing(kafkaCh)'
      BY <1>7 DEF SubSend, OrderInv
    <3> QED
      BY <1>1, <1>3, <3>1, <3>2, <3>3 DEF OrderInv, Before
  <2> QED
    BY <1>7, <2>1, <2>2 DEF SubSend
<1>8. CASE FanRecv
  <2>1. /\ InFan = {} /\ InFan' = {Head(deployCh)} /\ InDeploy' = Range(Tail(deployCh))
        /\ InDeploy = {Head(deployCh)} \cup InDeploy'
        /\ UNCHANGED <<InProd, InKafka, InSub, Range(kafkaLog), decoded>>
    BY <1>2, <1>8, RangeHeadTail
    DEF FanRecv, InProd, InKafka, InFan, InDeploy, InSub, Held
  <2>2. Increasing(deployCh)' /\ Before(InFan', InDeploy')
    BY <1>2, <1>8, <2>1, IncreasingTail DEF FanRecv, OrderInv
  <2>3. Increasing(kafkaLog)' /\ Increasing(kafkaCh)'
    BY <1>8 DEF FanRecv, OrderInv
  <2> QED
    BY <1>1, <1>3, <2>1, <2>2, <2>3 DEF OrderInv, Before
<1>9. CASE FanSendKafka
  <2>1. /\ InFan = {fanHeld} /\ InFan' = {} /\ InKafka' = InKafka \cup {fanHeld}
        /\ UNCHANGED <<InProd, InDeploy, InSub, Range(kafkaLog), decoded>>
    BY <1>2, <1>9, RangeAppend
    DEF FanSendKafka, InProd, InKafka, InFan, InDeploy, InSub, Held
  <2>2. Increasing(kafkaCh)'
    BY <1>2, <1>9, <2>1, IncreasingAppend DEF FanSendKafka, OrderInv, InKafka, Before
  <2>3. Increasing(kafkaLog)' /\ Increasing(deployCh)'
    BY <1>9 DEF FanSendKafka, OrderInv
  <2> QED
    BY <1>1, <1>3, <2>1, <2>2, <2>3 DEF OrderInv, Before
<1>10. CASE FanRecvNone \/ FanSendEnrich \/ FanEnrichClosed
  <2>1. /\ InFan' = InFan /\ InDeploy' \subseteq InDeploy
        /\ UNCHANGED <<InProd, InKafka, InSub, Range(kafkaLog), decoded>>
    BY <1>10, RangeEmpty
    DEF FanRecvNone, FanSendEnrich, FanEnrichClosed, InProd, InKafka, InFan, InDeploy,
        InSub, Held
  <2>2. Increasing(kafkaLog)' /\ Increasing(kafkaCh)' /\ Increasing(deployCh)'
    BY <1>10, IncreasingEmpty DEF FanRecvNone, FanSendEnrich, FanEnrichClosed, OrderInv
  <2> QED
    BY <2>1, <2>2 DEF OrderInv, Before
<1>11. CASE ProdRecv
  <2>1. /\ InProd = {} /\ InProd' = {Head(kafkaCh)} /\ InKafka' = Range(Tail(kafkaCh))
        /\ InKafka = {Head(kafkaCh)} \cup InKafka'
        /\ UNCHANGED <<InFan, InDeploy, InSub, Range(kafkaLog), decoded>>
    BY <1>2, <1>11, RangeHeadTail
    DEF ProdRecv, InProd, InKafka, InFan, InDeploy, InSub, Held
  <2>2. Increasing(kafkaCh)' /\ Before(InProd', InKafka')
    BY <1>2, <1>11, <2>1, IncreasingTail DEF ProdRecv, OrderInv
  <2>3. Increasing(kafkaLog)' /\ Increasing(deployCh)'
    BY <1>11 DEF ProdRecv, OrderInv
  <2> QED
    BY <1>1, <1>3, <2>1, <2>2, <2>3 DEF OrderInv, Before
\* The log may grow by the deploy that is being published, which leaves the
\* producer's hand; the other stages stay, or are emptied by a relaunch.
<1>12. ASSUME \/ kafkaLog' = kafkaLog
              \/ prod = "Publish" /\ kafkaLog' = Append(kafkaLog, prodHeld),
              InProd' = {}, InKafka' \subseteq InKafka, InFan' \subseteq InFan,
              InDeploy' \subseteq InDeploy, InSub' \subseteq InSub, decoded' = decoded,
              Increasing(kafkaCh)', Increasing(deployCh)'
       PROVE  OrderInv'
  <2>1. CASE kafkaLog' = kafkaLog
    <3>1. Range(kafkaLog)' = Range(kafkaLog) /\ Increasing(kafkaLog)'
      BY <2>1 DEF OrderInv
    <3> QED
      BY <1>12, <3>1 DEF OrderInv, Before
  <2>2. CASE prod = "Publish" /\ kafkaLog' = Append(kafkaLog, prodHeld)
    <3>1. InProd = {prodHeld} /\ Range(kafkaLog)' = Range(kafkaLog) \cup {prodHeld}
      BY <1>2, <2>2, RangeAppend DEF InProd, Held
    <3>2. Increasing(kafkaLog)'
      BY <1>2, <2>2, <3>1, IncreasingAppend DEF OrderInv, Before
    <3> QED
      BY <1>1, <1>3, <1>12, <3>1, <3>2 DEF OrderInv, Before
  <2> QED
    BY <1>12, <2>1, <2>2
<1>13. CASE ProdRecvNone
  <2>1. /\ kafkaLog' = kafkaLog /\ InProd' = {}
        /\ UNCHANGED <<InKafka, InFan, InDeploy, InSub, decoded>>
    BY <1>13 DEF ProdRecvNone, InProd, InKafka, InFan, InDeploy, InSub, Held
  <2>2. Increasing(kafkaCh)' /\ Increasing(deployCh)'
    BY <1>13 DEF ProdRecvNone, OrderInv
  <2> QED
    BY <1>12, <2>1, <2>2
<1>14. CASE ProdPublishOk \/ ProdPublishErr
  <2>1. /\ \/ kafkaLog' = kafkaLog
           \/ prod = "Publish" /\ kafkaLog' = Append(kafkaLog, prodHeld)
        /\ InProd' = {}
        /\ UNCHANGED <<InKafka, InFan, InDeploy, InSub, decoded>>
    BY <1>14
    DEF ProdPublishOk, ProdPublishErr, InProd, InKafka, InFan, InDeploy, InSub, Held
  <2>2. Increasing(kafkaCh)' /\ Increasing(deployCh)'
    BY <1>14 DEF ProdPublishOk, ProdPublishErr, OrderInv
  <2> QED
    BY <1>12, <2>1, <2>2
<1>15. CASE Relaunch
  <2>1. /\ \/ kafkaLog' = kafkaLog
           \/ prod = "Publish" /\ kafkaLog' = Append(kafkaLog, prodHeld)
        /\ InProd' = {} /\ InFan' = {} /\ InSub' = {} /\ decoded' = decoded
    BY <1>15 DEF Relaunch, InFlightMayLand, InProd, InFan, InSub, Held
  <2>2. InKafka' = {} /\ InDeploy' = {}
    BY <1>15, RangeEmpty DEF Relaunch, InKafka, InDeploy
  <2>3. Increasing(kafkaCh)' /\ Increasing(deployCh)'
    BY <1>15, IncreasingEmpty DEF Relaunch
  <2> QED
    BY <1>12, <2>1, <2>2, <2>3
<1>16. CASE WorkerStep
  BY <1>4, <1>16
  DEF WorkerStep, WorkRecv, WorkRecvNone, WorkUpsert, WorkFetch, WorkWrite,
      WorkFail, WorkHang, WorkPanic, InSub, Held
<1>17. CASE ShutdownSignal \/ MainAwait \/ EventGoesStale
  BY <1>4, <1>17 DEF ShutdownSignal, MainAwait, EventGoesStale, InSub, Held
<1>18. CASE Stopped \/ UNCHANGED vars
  BY <1>4, <1>18 DEF Stopped, vars, InSub, Held
<1> QED
  BY <1>5, <1>6, <1>7, <1>8, <1>9, <1>10, <1>11, <1>13, <1>14, <1>15, <1>16, <1>17, <1>18
  DEF Next, SubscriberStep, FanoutStep, ProducerStep

\* Deploys reach Kafka in the order of the chain's feed, each at most once.
THEOREM KafkaOrderCorrect == Spec => []KafkaOrder
<1>1. OrderInv => KafkaOrder
  BY DEF OrderInv, KafkaOrder
<1> QED
  BY <1>1, TypeInit, TypeNext, OrderInit, OrderNext, PTL DEF Spec

-----------------------------------------------------------------------------
(* The head of the line.                                                    *)

\* What the fan-out gave the producer it gave the worker as well, but for the
\* deploy in its hands, or the one it had when it found the worker gone.
HeadOfLineInv ==
  /\ fan \in {"Recv", "SendKafka"} => toKafka \subseteq toEnrich
  /\ fan = "SendEnrich" => toKafka \subseteq toEnrich \cup {fanHeld}
  /\ fan = "Done" => \E d \in Deploys \cup {NoDeploy} : toKafka \subseteq toEnrich \cup {d}

\* At launch neither sink was given a deploy.
LEMMA HeadOfLineInit == Init => HeadOfLineInv
  BY DEF Init, Launched, HeadOfLineInv

\* The fan-out is at most one deploy ahead on the side of the producer.
LEMMA HeadOfLineNext == TypeOK /\ HeadOfLineInv /\ [Next]_vars => HeadOfLineInv'
<1> SUFFICES ASSUME TypeOK, HeadOfLineInv, [Next]_vars PROVE HeadOfLineInv'
  OBVIOUS
<1> USE DEF procVars, subVars, fanVars, prodVars, workVars, channels, durable,
            counters, heartbeats, history
<1>1. ASSUME UNCHANGED <<fan, fanHeld, toKafka, toEnrich>> PROVE HeadOfLineInv'
  BY <1>1 DEF HeadOfLineInv
<1>2. CASE SubDecode \/ SubOtherLog \/ SubscriberStep
  BY <1>1, <1>2
  DEF SubDecode, SubOtherLog, SubscriberStep, SubSend, SubCheckClosed, SubCancelled
<1>3. CASE FanRecv
  BY <1>3 DEF FanRecv, HeadOfLineInv
<1>4. CASE FanRecvNone
  BY <1>4 DEF FanRecvNone, HeadOfLineInv, NoDeploy
<1>5. CASE FanSendKafka
  BY <1>5 DEF FanSendKafka, HeadOfLineInv
<1>6. CASE FanSendEnrich
  BY <1>6 DEF FanSendEnrich, HeadOfLineInv
<1>7. CASE FanEnrichClosed
  <2>1. fanHeld \in Deploys \cup {NoDeploy}
    BY DEF TypeOK, PointsOK
  <2> QED
    BY <1>7, <2>1 DEF FanEnrichClosed, HeadOfLineInv
<1>8. CASE ProducerStep
  BY <1>1, <1>8 DEF ProducerStep, ProdRecv, ProdRecvNone, ProdPublishOk, ProdPublishErr
<1>9. CASE WorkerStep
  BY <1>1, <1>9 DEF WorkerStep, WorkRecv, WorkRecvNone, WorkUpsert, WorkFetch, WorkWrite,
                    WorkFail, WorkHang, WorkPanic
<1>10. CASE ShutdownSignal \/ MainAwait \/ EventGoesStale
  BY <1>1, <1>10 DEF ShutdownSignal, MainAwait, EventGoesStale
<1>11. CASE Relaunch
  BY <1>11 DEF Relaunch, HeadOfLineInv
<1>12. CASE Stopped \/ UNCHANGED vars
  BY <1>1, <1>12 DEF Stopped, vars
<1> QED
  BY <1>2, <1>3, <1>4, <1>5, <1>6, <1>7, <1>8, <1>9, <1>10, <1>11, <1>12
  DEF Next, FanoutStep

\* A channel holds no more deploys than it is long.
LEMMA RangeCardinality ==
  ASSUME NEW s \in Seq(Deploys)
  PROVE  IsFiniteSet(Range(s)) /\ Cardinality(Range(s)) <= Len(s)
<1>1. /\ Len(s) \in Nat /\ s \in [1..Len(s) -> Range(s)]
      /\ \A y \in Range(s) : \E i \in 1..Len(s) : s[i] = y
  BY RangeMember
<1>2. s \in Surjection(1..Len(s), Range(s))
  BY <1>1 DEF Surjection
<1>3. IsFiniteSet(1..Len(s)) /\ Cardinality(1..Len(s)) = Len(s)
  <2> DEFINE n == Len(s)
  <2>1. n \in Nat
    BY <1>1
  <2> HIDE DEF n
  <2>2. /\ IsFiniteSet(1..n)
        /\ Cardinality(1..n) = IF 1 > n THEN 0 ELSE n - 1 + 1
    BY <2>1, FS_Interval
  <2>3. Cardinality(1..n) = n
    BY <2>1, <2>2
  <2> QED
    BY <2>2, <2>3 DEF n
<1>4. IsFiniteSet(Range(s)) /\ Cardinality(Range(s)) <= Cardinality(1..Len(s))
  BY <1>2, <1>3, FS_Surjection
<1> QED
  BY <1>3, <1>4

\* However the worker stalls, the fan-out marks events and feeds Kafka for at
\* most EnrichCap + 1 deploys beyond those the worker has taken.
THEOREM HeartbeatBoundedByWorkerCorrect == Spec => []HeartbeatBoundedByWorker
<1>1. TypeOK /\ HeadOfLineInv => HeartbeatBoundedByWorker
  <2> SUFFICES ASSUME TypeOK, HeadOfLineInv
               PROVE  Cardinality(Heartbeated \ TakenByWorker) <= EnrichCap + 1
    BY DEF HeartbeatBoundedByWorker
  <2>1. enrichCh \in Seq(Deploys) /\ Len(enrichCh) <= EnrichCap
    BY DEF TypeOK, ChannelsOK
  <2>2. PICK d : Heartbeated \subseteq toEnrich \cup {d}
    <3>1. fan \in {"Recv", "SendKafka", "SendEnrich", "Done"}
      BY DEF TypeOK, PointsOK
    <3> QED
      BY <3>1 DEF HeadOfLineInv, Heartbeated, Held
  <2>3. Heartbeated \ TakenByWorker \subseteq Range(enrichCh) \cup {d}
    BY <2>2 DEF TakenByWorker
  <2>4. IsFiniteSet(Range(enrichCh)) /\ Cardinality(Range(enrichCh)) <= EnrichCap
    <3>1. IsFiniteSet(Range(enrichCh)) /\ Cardinality(Range(enrichCh)) <= Len(enrichCh)
      BY <2>1, RangeCardinality
    <3>2. Cardinality(Range(enrichCh)) \in Nat
      BY <3>1, FS_CardinalityType
    <3> QED
      BY <2>1, <3>1, <3>2, PipelineAssumption
  <2>5. /\ IsFiniteSet(Range(enrichCh) \cup {d})
        /\ Cardinality(Range(enrichCh) \cup {d}) <= EnrichCap + 1
    <3>1. Cardinality(Range(enrichCh)) \in Nat
      BY <2>4, FS_CardinalityType
    <3> QED
      BY <2>4, <3>1, FS_AddElement, PipelineAssumption
  <2>6. /\ Cardinality(Heartbeated \ TakenByWorker) <= Cardinality(Range(enrichCh) \cup {d})
        /\ Cardinality(Heartbeated \ TakenByWorker) \in Nat
        /\ Cardinality(Range(enrichCh) \cup {d}) \in Nat
    BY <2>3, <2>5, FS_Subset, FS_CardinalityType
  <2> QED
    BY <2>5, <2>6, PipelineAssumption
<1> QED
  BY <1>1, TypeInit, TypeNext, HeadOfLineInit, HeadOfLineNext, PTL DEF Spec

=============================================================================
