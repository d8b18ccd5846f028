----------------------------- MODULE Subscriber -----------------------------
(***************************************************************************)
(* LaunchpadSubscriber: one websocket subscription at a time, kept up by   *)
(* run's reconnection loop, each log matched, decoded and sent into the    *)
(* bounded channel whose receiver the pipeline's fan-out owns.             *)
(*                                                                         *)
(* A deploy is the number of its log on the chain, so the numbers grow     *)
(* along the chain.  Log 0 stands for all logs that yield no deploy: of an *)
(* untracked (address, topic) pair, or undecodable.  When a block is       *)
(* reorganised away the node sends its logs once more, flagged `removed`.  *)
(*                                                                         *)
(* The provider is external: it buffers a bounded number of logs for the   *)
(* stream and overwrites the oldest, reconnects by itself for a while when *)
(* the socket fails, and ends the stream when it gives up.                 *)
(***************************************************************************)
EXTENDS Integers, Sequences, FiniteSets, Functions

CONSTANTS
  MinBackoff,  \* first delay before a reconnection, in ms
  MaxBackoff,  \* RECONNECT_BACKOFF_MAX, in ms
  ChannelBuf,  \* CHANNEL_BUF: slots of the deploy channel
  StreamBuf,   \* logs the provider keeps for a slow stream
  MaxDeploys,  \* bound: deploys of the chain
  MaxRemoved   \* bound: logs the node sends again as removed

ASSUME SubscriberAssumption ==
  /\ MinBackoff \in Nat \ {0}
  /\ MaxBackoff \in Nat /\ MinBackoff <= MaxBackoff
  /\ ChannelBuf \in Nat \ {0}
  /\ StreamBuf \in Nat \ {0}
  /\ MaxDeploys \in Nat
  /\ MaxRemoved \in Nat

Deploys  == 1..MaxDeploys
OtherLog == 0
Logs     == [deploy : Deploys \cup {OtherLog}, removed : BOOLEAN]

VARIABLES
  pc,        \* where run and run_once are
  backoff,   \* the delay of the next reconnection
  held,      \* the log in handle_log
  conn,      \* the provider: "none", "live", "gap" (socket lost), "ended"
  buffer,    \* logs the provider holds for the stream
  mined,     \* deploys on the chain so far: 1..mined
  removals,  \* removal notices sent so far
  sent,      \* logs sent downstream, in order
  queued,    \* how many of them the receiver has not taken yet
  closed,    \* the receiver was dropped
  missed,    \* history: deploys mined while no subscription was live
  lagged     \* history: deploys overwritten in the provider's buffer

loopVars     == <<pc, backoff, held>>
providerVars == <<conn, buffer>>
chainVars    == <<mined, removals>>
outVars      == <<sent, queued, closed>>
vars == <<loopVars, providerVars, chainVars, outVars, missed, lagged>>

\* The deploys among some logs, removal notices apart.
DeploysIn(logs) == {l.deploy : l \in {x \in logs : ~x.removed}} \cap Deploys

NoLog == [deploy |-> OtherLog, removed |-> FALSE]

\* (backoff * 2).min(RECONNECT_BACKOFF_MAX)
NextBackoff(b) == IF 2 * b < MaxBackoff THEN 2 * b ELSE MaxBackoff

Init ==
  /\ pc = "Connecting" /\ backoff = MinBackoff /\ held = NoLog
  /\ conn = "none" /\ buffer = <<>>
  /\ mined = 0 /\ removals = 0
  /\ sent = <<>> /\ queued = 0 /\ closed = FALSE
  /\ missed = {} /\ lagged = {}

-----------------------------------------------------------------------------
(* Plausible slips; no specification uses them.                             *)

\* After a reconnection the logs are asked for from the last seen block on,
\* inclusive.
SubscribeOk_Replays ==
  /\ pc = "Subscribing"
  /\ pc' = "Streaming"
  /\ conn' = "live"
  /\ buffer' = IF mined = 0 THEN <<>> ELSE <<[deploy |-> mined, removed |-> FALSE]>>
  /\ UNCHANGED <<backoff, held, chainVars, outVars, missed, lagged>>

\* The loop looks whether the socket is up before it takes the next log.
StreamEnds_Eager ==
  /\ pc = "Streaming"
  /\ conn = "ended"
  /\ conn' = "none"
  /\ buffer' = <<>>
  /\ pc' = "Backoff"
  /\ UNCHANGED <<backoff, held, chainVars, outVars, missed, lagged>>

\* A failure to connect is not an IndexerError::Subscription: "fatal".
EstablishErr_Fatal ==
  /\ pc \in {"Connecting", "Subscribing"}
  /\ pc' = "Returned"
  /\ UNCHANGED <<backoff, held, providerVars, chainVars, outVars, missed, lagged>>

\* is_closed() is not consulted: a failed send is only logged.
CheckClosed_Ignores ==
  /\ pc = "CheckClosed"
  /\ pc' = "Streaming"
  /\ UNCHANGED <<backoff, held, providerVars, chainVars, outVars, missed, lagged>>

\* The doubled delay is not capped.
Sleep_Uncapped ==
  /\ pc = "Backoff"
  /\ backoff' = 2 * backoff
  /\ pc' = "Connecting"
  /\ UNCHANGED <<held, providerVars, chainVars, outVars, missed, lagged>>

-----------------------------------------------------------------------------
(* run and run_once.                                                        *)

ConnectOk ==
  /\ pc = "Connecting"
  /\ pc' = "Subscribing"
  /\ UNCHANGED <<backoff, held, providerVars, chainVars, outVars, missed, lagged>>

SubscribeOk ==
  /\ pc = "Subscribing"
  /\ pc' = "Streaming"
  /\ conn' = "live"
  /\ UNCHANGED <<backoff, held, buffer, chainVars, outVars, missed, lagged>>

\* Either call fails: an IndexerError::Subscription.
EstablishErr ==
  /\ pc \in {"Connecting", "Subscribing"}
  /\ pc' = "Backoff"
  /\ UNCHANGED <<backoff, held, providerVars, chainVars, outVars, missed, lagged>>

\* stream.next() answers None once the buffered logs are used up.
StreamEnds ==
  /\ pc = "Streaming"
  /\ conn = "ended"
  /\ buffer = <<>>
  /\ conn' = "none"
  /\ pc' = "Backoff"
  /\ UNCHANGED <<backoff, held, buffer, chainVars, outVars, missed, lagged>>

\* The delay is doubled after it was slept, and never set back.
Sleep ==
  /\ pc = "Backoff"
  /\ backoff' = NextBackoff(backoff)
  /\ pc' = "Connecting"
  /\ UNCHANGED <<held, providerVars, chainVars, outVars, missed, lagged>>

\* stream.next() answers a log.  handle_log drops one that yields no deploy;
\* it does not look at the `removed` flag of the others.
TakeLog ==
  /\ pc = "Streaming"
  /\ buffer # <<>>
  /\ buffer' = Tail(buffer)
  /\ IF Head(buffer).deploy = OtherLog
       THEN pc' = "CheckClosed" /\ UNCHANGED held
       ELSE pc' = "Sending" /\ held' = Head(buffer)
  /\ UNCHANGED <<backoff, conn, chainVars, outVars, missed, lagged>>

\* out.send(deploy).await: a free slot, or an error that is only logged.
Send ==
  /\ pc = "Sending"
  /\ \/ /\ ~closed
        /\ queued < ChannelBuf
        /\ sent' = Append(sent, held)
        /\ queued' = queued + 1
     \/ /\ closed
        /\ UNCHANGED <<sent, queued>>
  /\ pc' = "CheckClosed"
  /\ held' = NoLog
  /\ UNCHANGED <<backoff, providerVars, chainVars, closed, missed, lagged>>

CheckClosed ==
  /\ pc = "CheckClosed"
  /\ pc' = IF closed THEN "Returned" ELSE "Streaming"
  /\ UNCHANGED <<backoff, held, providerVars, chainVars, outVars, missed, lagged>>

-----------------------------------------------------------------------------
(* The chain and the provider (external).                                   *)

\* A log reaches the provider: kept for the stream, in place of the oldest
\* when the buffer is full, or missed when no subscription is live.
Arrive(log) ==
  IF conn # "live"
    THEN /\ missed' = missed \cup DeploysIn({log})
         /\ UNCHANGED <<buffer, lagged>>
  ELSE IF Len(buffer) < StreamBuf
    THEN /\ buffer' = Append(buffer, log)
         /\ UNCHANGED <<missed, lagged>>
    ELSE /\ buffer' = Append(Tail(buffer), log)
         /\ lagged' = lagged \cup DeploysIn({Head(buffer)})
         /\ UNCHANGED missed

MineDeploy ==
  /\ mined < MaxDeploys
  /\ mined' = mined + 1
  /\ Arrive([deploy |-> mined + 1, removed |-> FALSE])
  /\ UNCHANGED <<loopVars, conn, removals, outVars>>

MineOther ==
  /\ conn = "live"
  /\ Arrive(NoLog)
  /\ UNCHANGED <<loopVars, conn, chainVars, outVars>>

\* A reorganisation removes a deploy: its log is sent again, as removed.
RemoveDeploy ==
  /\ removals < MaxRemoved
  /\ removals' = removals + 1
  /\ \E d \in 1..mined : Arrive([deploy |-> d, removed |-> TRUE])
  /\ UNCHANGED <<loopVars, conn, mined, outVars>>

SocketLost ==
  /\ conn = "live"
  /\ conn' = "gap"
  /\ UNCHANGED <<loopVars, buffer, chainVars, outVars, missed, lagged>>

\* The provider's own reconnection succeeds, or it gives up.
SocketRestored ==
  /\ conn = "gap"
  /\ conn' = "live"
  /\ UNCHANGED <<loopVars, buffer, chainVars, outVars, missed, lagged>>

ProviderGivesUp ==
  /\ conn = "gap"
  /\ conn' = "ended"
  /\ UNCHANGED <<loopVars, buffer, chainVars, outVars, missed, lagged>>

\* The fan-out (modelled in Pipeline) takes a deploy, or ends.
ReceiverTakes ==
  /\ ~closed
  /\ queued > 0
  /\ queued' = queued - 1
  /\ UNCHANGED <<loopVars, providerVars, chainVars, sent, closed, missed, lagged>>

ReceiverDropped ==
  /\ ~closed
  /\ closed' = TRUE
  /\ queued' = 0
  /\ UNCHANGED <<loopVars, providerVars, chainVars, sent, missed, lagged>>

Returned ==
  /\ pc = "Returned"
  /\ UNCHANGED vars

-----------------------------------------------------------------------------
LoopStep == ConnectOk \/ SubscribeOk \/ EstablishErr \/ StreamEnds \/ Sleep
            \/ TakeLog \/ Send \/ CheckClosed

Next ==
  \/ LoopStep
  \/ MineDeploy \/ MineOther \/ RemoveDeploy
  \/ SocketLost \/ SocketRestored \/ ProviderGivesUp
  \/ ReceiverTakes \/ ReceiverDropped
  \/ Returned

Spec == Init /\ [][Next]_vars

\* The runtime polls the task and its timers fire; a provider that lost the
\* socket restores it or gives up; a node tried again and again accepts in
\* the end; the chain keeps producing logs of the subscribed factories; and a
\* receiver that is alive keeps taking deploys.
Fairness ==
  /\ WF_vars(LoopStep)
  /\ WF_vars(SocketRestored \/ ProviderGivesUp)
  /\ SF_vars(ConnectOk) /\ SF_vars(SubscribeOk)
  /\ SF_vars(MineOther)
  /\ WF_vars(ReceiverTakes)

FairSpec == Spec /\ Fairness

-----------------------------------------------------------------------------
(* Properties.                                                              *)

\* Every variable has its type; the delay stays between its first value and
\* its cap, and no buffer outgrows its size.
TypeOK ==
  /\ pc \in {"Connecting", "Subscribing", "Streaming", "Sending",
             "CheckClosed", "Backoff", "Returned"}
  /\ backoff \in MinBackoff..MaxBackoff
  /\ held \in Logs
  /\ conn \in {"none", "live", "gap", "ended"}
  /\ buffer \in Seq(Logs) /\ Len(buffer) <= StreamBuf
  /\ mined \in 0..MaxDeploys
  /\ removals \in 0..MaxRemoved
  /\ sent \in Seq(Logs)
  /\ queued \in 0..ChannelBuf
  /\ closed \in BOOLEAN
  /\ missed \subseteq Deploys /\ lagged \subseteq Deploys

\* Removal notices apart, deploys go downstream in the order of the chain and
\* at most once, across lost sockets, overwritten logs and resubscriptions:
\* what Pipeline takes for granted of its feed.
SentInOrder ==
  \A i, j \in 1..Len(sent) :
    i < j /\ ~sent[i].removed /\ ~sent[j].removed => sent[i].deploy < sent[j].deploy

\* While the receiver lives, a deploy that was mined is sent, on its way, or
\* was lost in one of two ways: no live subscription when it was mined, or a
\* stream so slow that the provider overwrote it.
LossIsAccounted ==
  ~closed => 1..mined \subseteq DeploysIn(Range(sent) \cup Range(buffer) \cup {held})
                                \cup missed \cup lagged

\* A lost subscription is established again: whatever else happens, run does
\* not stay in its reconnection loop.
Resubscribes == (pc = "Backoff") ~> (pc = "Streaming")

\* A dropped receiver is noticed, although run only looks for it after a log:
\* it takes a subscription that is up and one more log.
DroppedReceiverIsNoticed == closed ~> (pc = "Returned")

=============================================================================
