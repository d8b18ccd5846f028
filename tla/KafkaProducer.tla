---------------------------- MODULE KafkaProducer ----------------------------
(***************************************************************************)
(* LaunchpadProducer: publish and publish_batch over a transactional       *)
(* librdkafka client, called by producer_loop one after the other.         *)
(*                                                                         *)
(* publish(d) takes the steps of publish_batch on the one message d, so    *)
(* one set of actions, for a call of n messages, stands for both.  Their   *)
(* to_vec(deploy)? is left out: a NormalizedDeploy always serializes.      *)
(* A deploy is its position in the feed.                                   *)
(*                                                                         *)
(* The client and the broker are external.  The client answers begin only  *)
(* in state Ready; a failed send or commit leaves it where a transaction   *)
(* must first be aborted (AbortableError), or where the outcome of the     *)
(* commit (abort) has not been collected by a second call of commit        *)
(* (abort), or in Fatal, which only a new client leaves.                   *)
(***************************************************************************)
EXTENDS Integers, Sequences, Functions

CONSTANTS
  MaxMessages,  \* bound: messages of the feed
  MaxBatch,     \* bound: messages of one call; 1 is publish alone
  MaxLaunches   \* bound: producers created, one for each launch

ASSUME KafkaProducerAssumption ==
  /\ MaxMessages \in Nat
  /\ MaxBatch \in Nat \ {0}
  /\ MaxLaunches \in Nat \ {0}

Messages == 1..MaxMessages

VARIABLES
  up, launches,   \* is the process up; how many times it was launched
  pc,             \* which client call publish is about to make or awaits
  call, acked,    \* messages of the last call; how many the broker acked
  fed,            \* messages given to calls so far
  client,         \* transactional state of the librdkafka client
  open,           \* messages the broker holds in the open transaction
  inflight,       \* an unanswered commit request that may still take effect
  fenced,         \* the coordinator gave the transaction up
  log,            \* what a read_committed consumer reads
  okSet,          \* history: messages of the calls that answered Ok
  calls,          \* history: every call made
  kafkaConnected  \* Liveness.kafka_connected

brokerVars  == <<open, inflight, fenced, log>>
callVars    == <<call, fed, calls>>
processVars == <<up, launches>>
vars == <<processVars, pc, callVars, acked, client, brokerVars, okSet,
          kafkaConnected>>

NextMessages(m, n) == [i \in 1..n |-> m + i]

Init ==
  /\ up = TRUE /\ launches = 1
  /\ pc = "Idle"
  /\ call = <<>> /\ acked = 0 /\ fed = 0 /\ calls = {}
  /\ client = "Ready"
  /\ open = <<>> /\ inflight = FALSE /\ fenced = FALSE
  /\ log = <<>> /\ okSet = {}
  /\ kafkaConnected = TRUE

\* The call returns to its caller.  producer_loop records how publish went;
\* publish_batch has no caller that would.
Return(ok) ==
  /\ pc' = "Idle"
  /\ kafkaConnected' = IF Len(call) = 1 THEN ok ELSE kafkaConnected
  /\ okSet' = IF ok THEN okSet \cup Range(call) ELSE okSet

-----------------------------------------------------------------------------
(* Plausible slips; no specification uses them.                             *)

\* producer_loop tries the messages of a failed call once more.
Start_Replays ==
  /\ up
  /\ pc = "Idle"
  /\ IF Range(call) \subseteq okSet
       THEN \E n \in 1..MaxBatch :
              /\ fed + n <= MaxMessages
              /\ call' = NextMessages(fed, n)
              /\ calls' = calls \cup {NextMessages(fed, n)}
              /\ fed' = fed + n
       ELSE UNCHANGED callVars
  /\ acked' = 0
  /\ pc' = "Begin"
  /\ UNCHANGED <<processVars, client, brokerVars, okSet, kafkaConnected>>

\* publish_batch skips a message that could not be sent and commits the rest.
SendErr_Skips ==
  /\ up
  /\ pc = "Send"
  /\ acked' = acked + 1
  /\ pc' = IF acked + 1 = Len(call) THEN "Commit" ELSE "Send"
  /\ UNCHANGED <<processVars, callVars, client, brokerVars, okSet,
                 kafkaConnected>>

\* The result of commit_transaction is ignored, as that of abort is.
CommitErr_Ignored ==
  /\ up
  /\ pc = "Commit"
  /\ \/ client' = "CommitUnacked" /\ inflight' \in BOOLEAN
     \/ client' \in {"AbortableError", "Fatal"} /\ UNCHANGED inflight
  /\ Return(TRUE)
  /\ UNCHANGED <<processVars, callVars, acked, open, fenced, log>>

\* commit_transaction waits without a timeout.
CommitErr_NoTimeout ==
  /\ up
  /\ pc = "Commit"
  /\ client' \in {"AbortableError", "Fatal"}
  /\ ~fenced
  /\ Return(FALSE)
  /\ UNCHANGED <<processVars, callVars, acked, brokerVars>>

\* The new client does not call init_transactions: the transaction its
\* predecessor left is neither ended nor fenced off.
NewProducer_NoInit ==
  /\ ~up
  /\ launches < MaxLaunches
  /\ up' = TRUE /\ launches' = launches + 1
  /\ client' = "Ready"
  /\ kafkaConnected' = TRUE
  /\ UNCHANGED <<pc, callVars, acked, brokerVars, okSet>>

-----------------------------------------------------------------------------
(* publish and publish_batch.                                               *)

Start ==
  /\ up
  /\ pc = "Idle"
  /\ \E n \in 1..MaxBatch :
       /\ fed + n <= MaxMessages
       /\ call' = NextMessages(fed, n)
       /\ calls' = calls \cup {NextMessages(fed, n)}
       /\ fed' = fed + n
  /\ acked' = 0
  /\ pc' = "Begin"
  /\ UNCHANGED <<processVars, client, brokerVars, okSet, kafkaConnected>>

\* begin_transaction()?
BeginOk ==
  /\ up
  /\ pc = "Begin"
  /\ client = "Ready"
  /\ client' = "InTransaction"
  /\ pc' = "Send"
  /\ UNCHANGED <<processVars, callVars, acked, brokerVars, okSet,
                 kafkaConnected>>

BeginErr ==
  /\ up
  /\ pc = "Begin"
  /\ client # "Ready"
  /\ Return(FALSE)
  /\ UNCHANGED <<processVars, callVars, acked, client, brokerVars>>

\* The broker acknowledged the next message of the call.
SendOk ==
  /\ up
  /\ pc = "Send"
  /\ ~fenced
  /\ open' = Append(open, call[acked + 1])
  /\ acked' = acked + 1
  /\ pc' = IF acked + 1 = Len(call) THEN "Commit" ELSE "Send"
  /\ UNCHANGED <<processVars, callVars, client, inflight, fenced, log, okSet,
                 kafkaConnected>>

\* The message could not be enqueued, or its delivery failed: the broker may
\* hold it all the same.
SendErr ==
  /\ up
  /\ pc = "Send"
  /\ client' \in {"InTransaction", "AbortableError", "Fatal"}
  /\ \/ UNCHANGED open
     \/ /\ ~fenced
        /\ client' # "InTransaction"
        /\ open' = Append(open, call[acked + 1])
  /\ pc' = "Abort"
  /\ UNCHANGED <<processVars, callVars, acked, inflight, fenced, log, okSet,
                 kafkaConnected>>

\* `let _ = abort_transaction(5 s)`, then the error of the send is returned
\* whatever the abort answered.
AbortOk ==
  /\ up
  /\ pc = "Abort"
  /\ client \in {"InTransaction", "AbortableError"}
  /\ ~fenced
  /\ open' = <<>>
  /\ client' = "Ready"
  /\ Return(FALSE)
  /\ UNCHANGED <<processVars, callVars, acked, inflight, fenced, log>>

AbortErr ==
  /\ up
  /\ pc = "Abort"
  /\ client' \in IF client = "Fatal" THEN {"Fatal"} ELSE {"AbortUnacked", "Fatal"}
  /\ Return(FALSE)
  /\ UNCHANGED <<processVars, callVars, acked, brokerVars>>

CommitOk ==
  /\ up
  /\ pc = "Commit"
  /\ ~fenced
  /\ log' = log \o open
  /\ open' = <<>>
  /\ client' = "Ready"
  /\ Return(TRUE)
  /\ UNCHANGED <<processVars, callVars, acked, inflight, fenced>>

\* commit_transaction(10 s)? fails and nobody aborts.  After a timeout the
\* request may be on its way to the coordinator.
CommitErr ==
  /\ up
  /\ pc = "Commit"
  /\ \/ client' = "CommitUnacked" /\ inflight' \in {FALSE, ~fenced}
     \/ client' \in {"AbortableError", "Fatal"} /\ UNCHANGED inflight
  /\ Return(FALSE)
  /\ UNCHANGED <<processVars, callVars, acked, open, fenced, log>>

-----------------------------------------------------------------------------
(* The coordinator, and the death and relaunch of the process.              *)

\* A commit request that was given up on takes effect.
LateCommit ==
  /\ inflight
  /\ log' = log \o open
  /\ open' = <<>>
  /\ inflight' = FALSE
  /\ UNCHANGED <<processVars, pc, callVars, acked, client, fenced, okSet,
                 kafkaConnected>>

\* transaction.timeout.ms: the coordinator aborts a transaction left open and
\* fences its producer.
TransactionTimeout ==
  /\ open # <<>>
  /\ open' = <<>>
  /\ inflight' = FALSE
  /\ fenced' = TRUE
  /\ UNCHANGED <<processVars, pc, callVars, acked, client, log, okSet,
                 kafkaConnected>>

\* The process dies.  A commit it was waiting for may be on the wire.
Crash ==
  /\ up
  /\ up' = FALSE
  /\ pc' = "Idle"
  /\ client' = "Gone"
  /\ inflight' \in {inflight} \cup (IF pc = "Commit" /\ ~fenced THEN {TRUE} ELSE {})
  /\ UNCHANGED <<launches, callVars, acked, open, fenced, log, okSet,
                 kafkaConnected>>

\* LaunchpadProducer::new.  init_transactions completes a commit that reached
\* the coordinator, aborts anything else, and fences the predecessor.  (When
\* it fails the process exits, and the state is that before the launch.)
NewProducer ==
  /\ ~up
  /\ launches < MaxLaunches
  /\ up' = TRUE /\ launches' = launches + 1
  /\ log' \in {log} \cup (IF inflight THEN {log \o open} ELSE {})
  /\ open' = <<>> /\ inflight' = FALSE /\ fenced' = FALSE
  /\ client' = "Ready"
  /\ kafkaConnected' = TRUE
  /\ UNCHANGED <<pc, callVars, acked, okSet>>

\* The feed is used up, or no launch is left.
Stopped ==
  /\ pc = "Idle"
  /\ fed = MaxMessages \/ ~up
  /\ UNCHANGED vars

PublishStep == BeginOk \/ BeginErr \/ SendOk \/ SendErr \/ AbortOk \/ AbortErr
               \/ CommitOk \/ CommitErr

Next == Start \/ PublishStep \/ LateCommit \/ TransactionTimeout
        \/ Crash \/ NewProducer \/ Stopped

Spec == Init /\ [][Next]_vars

\* Each client call answers within its Timeout::After, message.timeout.ms
\* bounds the delivery of a message, and the runtime polls publish.
FairSpec == Spec /\ WF_vars(PublishStep)

-----------------------------------------------------------------------------
(* Properties.                                                              *)

ClientStates == {"Ready", "InTransaction", "AbortableError", "AbortUnacked",
                 "CommitUnacked", "Fatal", "Gone"}

\* Every variable has its type.
TypeOK ==
  /\ up \in BOOLEAN
  /\ launches \in 1..MaxLaunches
  /\ pc \in {"Idle", "Begin", "Send", "Abort", "Commit"}
  /\ call \in Seq(Messages) /\ Len(call) <= MaxBatch
  /\ acked \in 0..Len(call)
  /\ fed \in 0..MaxMessages
  /\ client \in ClientStates
  /\ open \in Seq(Messages)
  /\ inflight \in BOOLEAN /\ fenced \in BOOLEAN
  /\ log \in Seq(Messages)
  /\ okSet \subseteq Messages
  /\ \A c \in calls : c \in Seq(Messages)
  /\ kafkaConnected \in BOOLEAN

\* The client leaves its ready state only inside a call or for good, and a
\* transaction that could still land belongs to a client that will never
\* begin another: what makes the order of the log safe.
ClientInv ==
  /\ up = (client # "Gone")
  /\ ~up => pc = "Idle"
  /\ pc \in {"Send", "Commit"} => client = "InTransaction"
  /\ pc = "Abort" => client \in {"InTransaction", "AbortableError", "Fatal"}
  /\ pc \in {"Idle", "Begin"} => client # "InTransaction"
  /\ client = "Ready" => open = <<>> /\ ~fenced
  /\ inflight => open # <<>> /\ ~fenced /\ client \in {"CommitUnacked", "Gone"}

Increasing(s) == \A i, j \in 1..Len(s) : i < j => s[i] < s[j]
Before(s, t)  == \A i \in 1..Len(s), j \in 1..Len(t) : s[i] < t[j]
UpTo(s, m)    == \A i \in 1..Len(s) : s[i] <= m

\* The calls share no message, and the call in progress is the last of them.
CallInv ==
  /\ \A c \in calls : UpTo(c, fed)
  /\ \A c, d \in calls : c = d \/ Range(c) \cap Range(d) = {}
  /\ Increasing(call)
  /\ pc # "Idle" => call \in calls /\ call # <<>>
  /\ pc = "Begin" => acked = 0
  /\ pc = "Send" => acked < Len(call)
  /\ pc = "Commit" => acked = Len(call)

\* The broker holds what it acked of the call in progress, unless it gave the
\* transaction up; a commit that may still land is that of a whole call.
HeldInv ==
  /\ fenced => open = <<>>
  /\ pc \in {"Send", "Commit"} /\ ~fenced =>
       Len(open) = acked /\ \A i \in 1..acked : open[i] = call[i]
  /\ inflight => open \in calls

\* What is committed comes before what the broker holds, and both before the
\* messages of a call that has not begun its transaction.
OrderInv ==
  /\ Increasing(log) /\ Increasing(open)
  /\ UpTo(log, fed) /\ UpTo(open, fed)
  /\ Before(log, open)
  /\ pc # "Idle" => Before(log, call)
  /\ pc = "Begin" => Before(open, call)

\* Every variable has its type; the client and the broker are where the calls
\* made so far can have brought them; and nothing that may still be committed
\* comes before what is: the inductive invariant behind the properties below.
IInv == TypeOK /\ ClientInv /\ CallInv /\ HeldInv /\ OrderInv

\* A deploy is committed at most once and in the order of the feed, across
\* unknown outcomes, timed-out transactions, crashes and relaunches.
CommittedInOrder == Increasing(log)

\* publish_batch: "Either all messages are committed or none" (its doc).
BatchIsAtomic ==
  \A c \in calls : Range(c) \subseteq Range(log) \/ Range(c) \cap Range(log) = {}

\* A producer that can never begin a transaction again is reported: after
\* publish has returned, kafka_connected is FALSE unless the client is Ready.
\* (Only a relaunch makes it Ready again.)
WedgeIsReported ==
  up /\ pc = "Idle" /\ Len(call) = 1 /\ client # "Ready" => ~kafkaConnected

\* A call that was made returns, whatever the broker does.
CallsReturn == (pc # "Idle") ~> (pc = "Idle")

\* The producer implements the ordered at-most-once log.  A commit request
\* that was given up on is a call of unknown outcome.
Abstract == INSTANCE Publisher WITH
  current <- IF pc = "Idle" THEN <<>> ELSE call,
  unsure  <- IF inflight THEN open ELSE <<>>

ImplementsPublisher == Abstract!Spec

=============================================================================
