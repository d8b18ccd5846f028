----------------------------- MODULE SdkClient -----------------------------
(***************************************************************************)
(* IndexerClient of the TypeScript SDK: the async generator stream(), the  *)
(* eachMessage callback that feeds it, and close().                        *)
(*                                                                         *)
(* One event loop runs them: an action is the code between two awaits.     *)
(* The application is external: it asks for the next deploy, again and     *)
(* again, and may call close() at any time.  So are kafkajs and the        *)
(* brokers: they hand the messages of a topic to eachMessage one by one,   *)
(* commit the offset of what eachMessage has handled, go back to the       *)
(* committed offset when the group rebalances, and stop after disconnect() *)
(* took effect.                                                            *)
(***************************************************************************)
EXTENDS Integers, Sequences

CONSTANTS
  MaxMessages,   \* bound: messages of the topic
  MaxRebalances  \* bound: rebalances of the consumer group

ASSUME SdkClientAssumption == MaxMessages \in Nat /\ MaxRebalances \in Nat

Messages  == 1..MaxMessages
NoMessage == 0

VARIABLES
  kind,        \* which messages are deploys, and which are not valid ones
  gen,         \* where the generator is
  closed,      \* this.closed
  consumer,    \* the kafkajs consumer
  queue,       \* deploys no waiter was there for
  waiting,     \* `waiters` holds the resolve of the generator's promise
  handed,      \* the deploy that promise was resolved with
  position, committed,  \* offsets: messages handled, and handled for good
  rebalances,
  pushed,      \* history: deploys given to push, in order
  received,    \* history: deploys the application got, in order
  afterClose   \* history: how many of them after close() was called

queueVars  == <<queue, waiting, handed>>
offsetVars == <<position, committed, rebalances>>
appVars    == <<received, afterClose>>
vars == <<kind, gen, closed, consumer, queueVars, offsetVars, pushed, appVars>>

Ended == gen \in {"Returned", "Threw"}

Init ==
  /\ kind \in [Messages -> {"deploy", "invalid"}]
  /\ gen = "Unstarted" /\ closed = FALSE /\ consumer = "none"
  /\ queue = <<>> /\ waiting = FALSE /\ handed = NoMessage
  /\ position = 0 /\ committed = 0 /\ rebalances = 0
  /\ pushed = <<>> /\ received = <<>> /\ afterClose = 0

\* A step of the generator that touches neither the queue nor the messages.
Goto(from, to) ==
  /\ gen = from
  /\ gen' = to
  /\ UNCHANGED <<kind, closed, queueVars, offsetVars, pushed, appVars>>

\* yield d: the application's next() resolves with d.
Yield(d) ==
  /\ gen' = "Yielded"
  /\ received' = Append(received, d)
  /\ afterClose' = IF closed THEN afterClose + 1 ELSE afterClose

-----------------------------------------------------------------------------
(* Plausible slips; no specification uses them.                             *)

\* The loop drains the queue before it looks at `closed`.
TakeQueued_DrainsFirst ==
  /\ gen = "Loop"
  /\ queue # <<>>
  /\ queue' = Tail(queue)
  /\ Yield(Head(queue))
  /\ UNCHANGED <<kind, closed, consumer, waiting, handed, offsetVars, pushed>>

\* push calls waiters[0] and leaves it there until the generator resumes.
Push_KeepsWaiter(d) ==
  /\ pushed' = Append(pushed, d)
  /\ IF gen \in {"Waiting", "Resolved"}
       THEN /\ handed' = IF gen = "Waiting" THEN d ELSE handed
            /\ waiting' = FALSE
            /\ gen' = "Resolved"
            /\ UNCHANGED queue
       ELSE queue' = Append(queue, d) /\ UNCHANGED <<gen, waiting, handed>>

\* The generator leaves its resolve behind after it resumed.
Resume_KeepsWaiter ==
  /\ gen = "Resolved"
  /\ handed' = NoMessage
  /\ waiting' = TRUE
  /\ Yield(handed)
  /\ UNCHANGED <<kind, closed, consumer, queue, offsetVars, pushed>>

\* `closed` is looked at only before a deploy is taken from the queue.
Wait_Unchecked ==
  /\ gen = "Loop"
  /\ queue = <<>>
  /\ waiting' = TRUE
  /\ gen' = "Waiting"
  /\ UNCHANGED <<kind, closed, consumer, queue, handed, offsetVars, pushed, appVars>>

-----------------------------------------------------------------------------
(* stream().                                                                *)

\* The application calls next(): for the first time, or after a deploy.
AppNext ==
  \/ Goto("Unstarted", "Connect") /\ consumer' = "created"
  \/ Goto("Yielded", "Loop") /\ UNCHANGED consumer

\* consumer.connect() and one consumer.subscribe() for each topic.
ConnectOk   == Goto("Connect", "Subscribe") /\ UNCHANGED consumer
SubscribeOk == Goto("Subscribe", "Run") /\ UNCHANGED consumer

\* consumer.run(): messages flow from when it has started, which may be
\* before the generator gets to its loop.
RunStarts  == Goto("Run", "Started") /\ consumer' = "running"
RunReturns == Goto("Started", "Loop") /\ UNCHANGED consumer

\* One of the awaited calls rejects, and the generator with it.
SetupThrows ==
  /\ gen \in {"Connect", "Subscribe", "Run"}
  /\ Goto(gen, "Threw")
  /\ UNCHANGED consumer

\* while (!this.closed)
LoopEnds == closed /\ Goto("Loop", "Returned") /\ UNCHANGED consumer

TakeQueued ==
  /\ gen = "Loop"
  /\ ~closed
  /\ queue # <<>>
  /\ queue' = Tail(queue)
  /\ Yield(Head(queue))
  /\ UNCHANGED <<kind, closed, consumer, waiting, handed, offsetVars, pushed>>

\* await new Promise((resolve) => waiters.push(resolve))
Wait ==
  /\ gen = "Loop"
  /\ ~closed
  /\ queue = <<>>
  /\ waiting' = TRUE
  /\ gen' = "Waiting"
  /\ UNCHANGED <<kind, closed, consumer, queue, handed, offsetVars, pushed, appVars>>

\* The resolved promise resumes the generator, which yields without another
\* look at `closed`.
Resume ==
  /\ gen = "Resolved"
  /\ handed' = NoMessage
  /\ Yield(handed)
  /\ UNCHANGED <<kind, closed, consumer, queue, waiting, offsetVars, pushed>>

-----------------------------------------------------------------------------
(* eachMessage, close, kafkajs.                                             *)

\* The promise of a waiter is resolved, or the deploy is queued.
Push(d) ==
  /\ pushed' = Append(pushed, d)
  /\ IF waiting
       THEN /\ handed' = d
            /\ waiting' = FALSE
            /\ gen' = "Resolved"
            /\ UNCHANGED queue
       ELSE queue' = Append(queue, d) /\ UNCHANGED <<gen, waiting, handed>>

\* A message without a value, that is not JSON or not a Deploy is skipped
\* (the last two with a call of onParseError).
EachMessage ==
  /\ consumer \in {"running", "disconnecting"}
  /\ position < MaxMessages
  /\ position' = position + 1
  /\ IF kind[position + 1] = "deploy"
       THEN Push(position + 1)
       ELSE UNCHANGED <<gen, queueVars, pushed>>
  /\ UNCHANGED <<kind, closed, consumer, committed, rebalances, appVars>>

CommitOffset ==
  /\ consumer \in {"running", "disconnecting"}
  /\ committed < position
  /\ committed' = position
  /\ UNCHANGED <<kind, gen, closed, consumer, queueVars, position, rebalances,
                 pushed, appVars>>

\* What was handled and not committed is handed over once more.
Rebalance ==
  /\ consumer = "running"
  /\ rebalances < MaxRebalances
  /\ rebalances' = rebalances + 1
  /\ position' = committed
  /\ UNCHANGED <<kind, gen, closed, consumer, queueVars, committed, pushed, appVars>>

\* close(): disconnect() stops a consumer that runs.
Close ==
  /\ ~closed
  /\ closed' = TRUE
  /\ consumer' = IF consumer = "running" THEN "disconnecting" ELSE consumer
  /\ UNCHANGED <<kind, gen, queueVars, offsetVars, pushed, appVars>>

Disconnected ==
  /\ consumer = "disconnecting"
  /\ consumer' = "disconnected"
  /\ UNCHANGED <<kind, gen, closed, queueVars, offsetVars, pushed, appVars>>

\* The generator has ended, or waits with no message left to come.
Stopped ==
  /\ Ended \/ gen = "Waiting"
  /\ UNCHANGED vars

GeneratorStep == ConnectOk \/ SubscribeOk \/ RunStarts \/ RunReturns
                 \/ SetupThrows \/ LoopEnds \/ TakeQueued \/ Wait \/ Resume

Next == AppNext \/ GeneratorStep \/ EachMessage \/ CommitOffset \/ Rebalance
        \/ Close \/ Disconnected \/ Stopped

Spec == Init /\ [][Next]_vars

\* The application iterates, the event loop runs what can run, and kafkajs
\* answers and hands over the messages there are.  Nothing makes the
\* application call close() or the group rebalance.
FairSpec ==
  /\ Spec
  /\ WF_vars(AppNext) /\ WF_vars(GeneratorStep)
  /\ WF_vars(EachMessage) /\ WF_vars(Disconnected)

-----------------------------------------------------------------------------
(* Properties.                                                              *)

\* Every variable has its type, and the generator waits exactly while push
\* finds its resolve in `waiters`.
TypeOK ==
  /\ kind \in [Messages -> {"deploy", "invalid"}]
  /\ gen \in {"Unstarted", "Connect", "Subscribe", "Run", "Started", "Loop",
              "Waiting", "Resolved", "Yielded", "Returned", "Threw"}
  /\ closed \in BOOLEAN
  /\ consumer \in {"none", "created", "running", "disconnecting", "disconnected"}
  /\ queue \in Seq(Messages) /\ pushed \in Seq(Messages) /\ received \in Seq(Messages)
  /\ waiting = (gen = "Waiting")
  /\ handed \in IF gen = "Resolved" THEN Messages ELSE {NoMessage}
  /\ position \in 0..MaxMessages /\ committed \in 0..position
  /\ rebalances \in 0..MaxRebalances
  /\ afterClose \in 0..Len(received)

\* The application gets the deploys in the order of eachMessage, none skipped
\* and none twice, although some go through the queue and some past it.
InOrder ==
  pushed = received \o (IF gen = "Resolved" THEN <<handed>> ELSE <<>>) \o queue

\* After close() the application gets at most the deploy its pending next()
\* was already waiting for.
OneAfterClose == afterClose <= 1

\* After close() a generator that is not waiting for a deploy returns.
BusyStreamStops == (closed /\ gen # "Waiting") ~> Ended

\* The doc of stream(): "Stops when [[close]] is called".  close() resolves no
\* waiter, so a generator that waits when the consumer stops waits for ever.
StopsOnClose == closed ~> Ended

=============================================================================
