-------------------------- MODULE SdkClientProofs --------------------------
(***************************************************************************)
(* Theorems about SdkClient, for every number of messages and rebalances   *)
(* and every mix of valid and invalid messages.                            *)
(***************************************************************************)
EXTENDS SdkClient, SequenceTheorems, TLAPS

-----------------------------------------------------------------------------
(* Deploys that move from one end of a sequence to another.                 *)

\* The empty sequence, before or after another.
LEMMA EmptyFacts ==
  /\ <<>> \in Seq(Messages) /\ Len(<<>>) = 0
  /\ \A s \in Seq(Messages) : s \o <<>> = s /\ <<>> \o s = s
  BY ConcatEmptySeq

\* Appending is concatenating one message.
LEMMA AppendFacts ==
  ASSUME NEW s \in Seq(Messages), NEW d \in Messages
  PROVE  /\ Append(s, d) \in Seq(Messages) /\ Append(s, d) = s \o <<d>>
         /\ Len(Append(s, d)) = Len(s) + 1 /\ Len(s) \in Nat
         /\ <<d>> \in Seq(Messages)
  BY AppendProperties, AppendIsConcat

\* Appending to the last part of a sequence is appending to the whole.
LEMMA AppendLast ==
  ASSUME NEW s \in Seq(Messages), NEW t \in Seq(Messages), NEW d \in Messages
  PROVE  Append(s \o t, d) = s \o Append(t, d)
<1>1. s \o t \in Seq(Messages)
  BY ConcatProperties
<1>2. Append(s \o t, d) = (s \o t) \o <<d>>
  BY <1>1, AppendFacts
<1>3. Append(t, d) = t \o <<d>> /\ <<d>> \in Seq(Messages)
  BY AppendFacts
<1> QED
  BY <1>2, <1>3, ConcatAssociative

\* The head of a queue that is moved to the end of what comes before it.
LEMMA MoveHead ==
  ASSUME NEW s \in Seq(Messages), NEW q \in Seq(Messages), q # <<>>
  PROVE  /\ Head(q) \in Messages /\ Tail(q) \in Seq(Messages)
         /\ s \o q = Append(s, Head(q)) \o Tail(q)
<1>1. Head(q) \in Messages /\ Tail(q) \in Seq(Messages)
  BY HeadTailProperties
<1>2. q = <<Head(q)>> \o Tail(q)
  <2> DEFINE r == <<Head(q)>> \o Tail(q)
  <2>1. <<Head(q)>> \in Seq(Messages) /\ Len(<<Head(q)>>) = 1 /\ <<Head(q)>>[1] = q[1]
    BY <1>1
  <2>2. /\ Len(Tail(q)) = Len(q) - 1 /\ Len(q) \in Nat \ {0}
        /\ \A i \in 1..Len(Tail(q)) : Tail(q)[i] = q[i + 1]
    BY HeadTailProperties
  <2>3. /\ r \in Seq(Messages) /\ Len(r) = 1 + Len(Tail(q))
        /\ \A i \in 1..1 + Len(Tail(q)) :
             r[i] = IF i <= 1 THEN <<Head(q)>>[i] ELSE Tail(q)[i - 1]
    BY <1>1, <2>1, ConcatProperties
  <2> HIDE DEF r
  <2>4. \A i \in 1..Len(q) : q[i] = r[i]
    <3> SUFFICES ASSUME NEW i \in 1..Len(q)
                 PROVE  q[i] = r[i]
      OBVIOUS
    <3>1. CASE i = 1
      BY <2>1, <2>2, <2>3, <3>1
    <3>2. CASE i # 1
      <4>1. i - 1 \in 1..Len(Tail(q)) /\ Tail(q)[i - 1] = q[i]
        BY <2>2, <3>2
      <4> QED
        BY <2>2, <2>3, <3>2, <4>1
    <3> QED
      BY <3>1, <3>2
  <2>5. q = r
    BY <2>2, <2>3, <2>4, SeqEqual
  <2> QED
    BY <2>5 DEF r
<1>3. Append(s, Head(q)) = s \o <<Head(q)>> /\ <<Head(q)>> \in Seq(Messages)
  BY <1>1, AppendFacts
<1>4. (s \o <<Head(q)>>) \o Tail(q) = s \o (<<Head(q)>> \o Tail(q))
  BY <1>1, <1>3, ConcatAssociative
<1> QED
  BY <1>1, <1>2, <1>3, <1>4

-----------------------------------------------------------------------------
(* Type correctness.                                                        *)

\* The types hold before the first stream.
LEMMA InitType == Init => TypeOK
<1> SUFFICES ASSUME Init
             PROVE  TypeOK
  OBVIOUS
<1>1. /\ queue \in Seq(Messages) /\ pushed \in Seq(Messages)
      /\ received \in Seq(Messages) /\ afterClose \in 0..Len(received)
  BY EmptyFacts DEF Init
<1>2. position \in 0..MaxMessages /\ committed \in 0..position /\ rebalances \in 0..MaxRebalances
  BY SdkClientAssumption DEF Init
<1> QED
  BY <1>1, <1>2 DEF Init, TypeOK

\* The message that eachMessage gets is one of the topic.
LEMMA NextMessage == TypeOK /\ position < MaxMessages => position + 1 \in Messages
  BY SdkClientAssumption DEF TypeOK, Messages

\* Every step keeps the types.
LEMMA TypeStep == TypeOK /\ [Next]_vars => TypeOK'
<1> SUFFICES ASSUME TypeOK, [Next]_vars
             PROVE  TypeOK'
  OBVIOUS
<1> USE SdkClientAssumption DEF TypeOK, queueVars, offsetVars, appVars
<1>1. CASE AppNext
  BY <1>1 DEF AppNext, Goto
<1>2. CASE ConnectOk \/ SubscribeOk \/ RunStarts \/ RunReturns
  BY <1>2 DEF ConnectOk, SubscribeOk, RunStarts, RunReturns, Goto
<1>3. CASE SetupThrows \/ LoopEnds
  BY <1>3 DEF SetupThrows, LoopEnds, Goto
<1>4. CASE TakeQueued
  <2>1. Head(queue) \in Messages /\ Tail(queue) \in Seq(Messages)
    BY <1>4, MoveHead DEF TakeQueued
  <2>2. received' \in Seq(Messages) /\ Len(received') = Len(received) + 1
    BY <1>4, <2>1, AppendFacts DEF TakeQueued, Yield
  <2>3. afterClose' \in 0..Len(received')
    BY <1>4, <2>2 DEF TakeQueued, Yield
  <2> QED
    BY <1>4, <2>1, <2>2, <2>3 DEF TakeQueued, Yield
<1>5. CASE Wait
  BY <1>5 DEF Wait
<1>6. CASE Resume
  <2>1. received' \in Seq(Messages) /\ Len(received') = Len(received) + 1
    BY <1>6, AppendFacts DEF Resume, Yield
  <2>2. afterClose' \in 0..Len(received')
    BY <1>6, <2>1 DEF Resume, Yield
  <2> QED
    BY <1>6, <2>1, <2>2 DEF Resume, Yield
<1>7. CASE EachMessage
  <2>1. position' \in 0..MaxMessages /\ position + 1 \in Messages /\ committed' \in 0..position'
    BY <1>7, NextMessage DEF EachMessage
  <2>2. CASE kind[position + 1] = "deploy"
    <3>1. Push(position + 1)
      BY <1>7, <2>2 DEF EachMessage
    <3>2. pushed' \in Seq(Messages) /\ queue' \in Seq(Messages)
      BY <2>1, <3>1, AppendFacts DEF Push
    <3> QED
      BY <1>7, <2>1, <3>1, <3>2 DEF EachMessage, Push
  <2>3. CASE kind[position + 1] # "deploy"
    BY <1>7, <2>1, <2>3 DEF EachMessage
  <2> QED
    BY <2>2, <2>3
<1>8. CASE CommitOffset \/ Rebalance
  BY <1>8 DEF CommitOffset, Rebalance
<1>9. CASE Close \/ Disconnected
  BY <1>9 DEF Close, Disconnected
<1>10. CASE UNCHANGED vars
  BY <1>10 DEF vars
<1> QED
  BY <1>1, <1>2, <1>3, <1>4, <1>5, <1>6, <1>7, <1>8, <1>9, <1>10
  DEF Next, GeneratorStep, Stopped

\* Every variable has its type in every reachable state: among other things a
\* resolve is in `waiters` exactly while the generator waits for it.
THEOREM TypeCorrect == Spec => []TypeOK
  BY InitType, TypeStep, PTL DEF Spec

-----------------------------------------------------------------------------
(* The order of the deploys.                                                *)

\* The generator waits only for want of a queued deploy, so a deploy that is
\* handed to it directly passes none that is queued.
OrderInv == InOrder /\ (gen = "Waiting" => queue = <<>>)

InHand == IF gen = "Resolved" THEN <<handed>> ELSE <<>>

\* A step that leaves the deploys where they are.
LEMMA OrderFrame ==
  ASSUME TypeOK, OrderInv, UNCHANGED <<pushed, received, queue, handed>>,
         gen # "Resolved", gen' # "Resolved", gen' = "Waiting" => queue = <<>>
  PROVE  OrderInv'
  BY DEF OrderInv, InOrder

\* A deploy taken from the queue follows those taken before it.
LEMMA OrderTakeQueued == TypeOK /\ OrderInv /\ TakeQueued => OrderInv'
<1> SUFFICES ASSUME TypeOK, OrderInv, TakeQueued
             PROVE  OrderInv'
  OBVIOUS
<1>1. /\ gen = "Loop" /\ gen' = "Yielded" /\ queue # <<>> /\ queue' = Tail(queue)
      /\ received' = Append(received, Head(queue)) /\ pushed' = pushed
  BY DEF TakeQueued, Yield
<1>2. pushed = received \o queue
  BY <1>1, EmptyFacts DEF OrderInv, InOrder, TypeOK
<1>3. pushed' = received' \o queue' /\ received' \in Seq(Messages)
  BY <1>1, <1>2, MoveHead, AppendFacts DEF TypeOK
<1> QED
  BY <1>1, <1>3, EmptyFacts DEF OrderInv, InOrder

\* A deploy that went past the queue follows those taken before it.
LEMMA OrderResume == TypeOK /\ OrderInv /\ Resume => OrderInv'
<1> SUFFICES ASSUME TypeOK, OrderInv, Resume
             PROVE  OrderInv'
  OBVIOUS
<1>1. /\ gen = "Resolved" /\ gen' = "Yielded" /\ handed \in Messages
      /\ received' = Append(received, handed) /\ UNCHANGED <<queue, pushed>>
  BY DEF Resume, Yield, TypeOK
<1>2. pushed = received \o <<handed>> \o queue
  BY <1>1 DEF OrderInv, InOrder
<1>3. received' = received \o <<handed>> /\ received' \in Seq(Messages)
  BY <1>1, AppendFacts DEF TypeOK
<1>4. received' \o <<>> = received'
  BY <1>3, EmptyFacts
<1> QED
  BY <1>1, <1>2, <1>3, <1>4 DEF OrderInv, InOrder

\* push: to the waiter past the queue, which is empty then, or to its end.
LEMMA OrderPush ==
  ASSUME TypeOK, OrderInv, NEW d \in Messages, Push(d), received' = received
  PROVE  OrderInv'
<1>1. pushed' = Append(pushed, d) /\ received \in Seq(Messages) /\ queue \in Seq(Messages)
  BY DEF Push, TypeOK
<1>2. CASE waiting
  <2>1. /\ gen = "Waiting" /\ gen' = "Resolved" /\ handed' = d
        /\ queue = <<>> /\ queue' = <<>>
    BY <1>2 DEF Push, TypeOK, OrderInv
  <2>2. pushed = received
    BY <1>1, <2>1, EmptyFacts DEF OrderInv, InOrder
  <2>3. pushed' = received \o <<d>> /\ pushed' \in Seq(Messages)
    BY <1>1, <2>2, AppendFacts
  <2>4. pushed' \o <<>> = pushed'
    BY <2>3, EmptyFacts
  <2> QED
    BY <2>1, <2>3, <2>4 DEF OrderInv, InOrder
<1>3. CASE ~waiting
  <2> DEFINE s == received \o InHand
  <2>1. gen' = gen /\ handed' = handed /\ queue' = Append(queue, d) /\ gen # "Waiting"
    BY <1>3 DEF Push, TypeOK
  <2>2. InHand \in Seq(Messages)
    BY EmptyFacts DEF InHand, TypeOK
  <2>3. s \in Seq(Messages)
    BY <1>1, <2>2, ConcatProperties
  <2>4. pushed = s \o queue
    BY DEF OrderInv, InOrder, InHand
  <2> HIDE DEF s
  <2>5. pushed' = s \o queue'
    BY <1>1, <2>1, <2>3, <2>4, AppendLast
  <2> QED
    BY <2>1, <2>5 DEF OrderInv, InOrder, InHand, s
<1> QED
  BY <1>2, <1>3

\* Every step keeps the order.
LEMMA OrderStep == TypeOK /\ OrderInv /\ [Next]_vars => OrderInv'
<1> SUFFICES ASSUME TypeOK, OrderInv, [Next]_vars
             PROVE  OrderInv'
  OBVIOUS
<1> USE DEF queueVars, offsetVars, appVars
<1>1. CASE AppNext
  BY <1>1, OrderFrame DEF AppNext, Goto
<1>2. CASE ConnectOk \/ SubscribeOk \/ RunStarts \/ RunReturns
  BY <1>2, OrderFrame DEF ConnectOk, SubscribeOk, RunStarts, RunReturns, Goto
<1>3. CASE SetupThrows \/ LoopEnds
  BY <1>3, OrderFrame DEF SetupThrows, LoopEnds, Goto
<1>4. CASE TakeQueued
  BY <1>4, OrderTakeQueued
<1>5. CASE Wait
  BY <1>5, OrderFrame DEF Wait
<1>6. CASE Resume
  BY <1>6, OrderResume
<1>7. CASE EachMessage
  <2>1. received' = received /\ position + 1 \in Messages
    BY <1>7, NextMessage DEF EachMessage
  <2>2. CASE kind[position + 1] = "deploy"
    BY <1>7, <2>1, <2>2, OrderPush DEF EachMessage
  <2>3. CASE kind[position + 1] # "deploy"
    BY <1>7, <2>3 DEF EachMessage, OrderInv, InOrder
  <2> QED
    BY <2>2, <2>3
<1>8. CASE CommitOffset \/ Rebalance \/ Close \/ Disconnected \/ UNCHANGED vars
  <2>1. UNCHANGED <<gen, pushed, received, queue, handed>>
    BY <1>8 DEF CommitOffset, Rebalance, Close, Disconnected, vars
  <2> QED
    BY <2>1 DEF OrderInv, InOrder
<1> QED
  BY <1>1, <1>2, <1>3, <1>4, <1>5, <1>6, <1>7, <1>8 DEF Next, GeneratorStep, Stopped

\* The application gets the deploys in the order of eachMessage, none skipped
\* and none twice, although some go through the queue and some past it.
THEOREM InOrderCorrect == Spec => []InOrder
<1>1. Init => OrderInv
  BY EmptyFacts DEF Init, OrderInv, InOrder
<1>2. OrderInv => InOrder
  BY DEF OrderInv
<1> QED
  BY <1>1, <1>2, OrderStep, TypeCorrect, PTL DEF Spec

-----------------------------------------------------------------------------
(* close().                                                                 *)

\* Before close() no deploy was got after it, and a generator that has yielded
\* one since does not wait for another.
CloseInv ==
  /\ afterClose \in {0, 1}
  /\ afterClose = 1 => closed /\ gen \notin {"Waiting", "Resolved"}

\* No step of a closed client hands out a second deploy.
LEMMA CloseStep == TypeOK /\ CloseInv /\ [Next]_vars => CloseInv'
<1> SUFFICES ASSUME TypeOK, CloseInv, [Next]_vars
             PROVE  CloseInv'
  OBVIOUS
<1> USE DEF CloseInv, queueVars, offsetVars, appVars
<1>1. CASE AppNext
  BY <1>1 DEF AppNext, Goto
<1>2. CASE ConnectOk \/ SubscribeOk \/ RunStarts \/ RunReturns
  BY <1>2 DEF ConnectOk, SubscribeOk, RunStarts, RunReturns, Goto
<1>3. CASE SetupThrows \/ LoopEnds
  BY <1>3 DEF SetupThrows, LoopEnds, Goto
<1>4. CASE TakeQueued
  BY <1>4 DEF TakeQueued, Yield
<1>5. CASE Wait
  BY <1>5 DEF Wait
<1>6. CASE Resume
  BY <1>6 DEF Resume, Yield
<1>7. CASE EachMessage
  BY <1>7 DEF EachMessage, Push, TypeOK
<1>8. CASE CommitOffset \/ Rebalance \/ Close \/ Disconnected
  BY <1>8 DEF CommitOffset, Rebalance, Close, Disconnected
<1>9. CASE UNCHANGED vars
  BY <1>9 DEF vars
<1> QED
  BY <1>1, <1>2, <1>3, <1>4, <1>5, <1>6, <1>7, <1>8, <1>9 DEF Next, GeneratorStep, Stopped

\* After close() the application gets at most the deploy its pending next()
\* was already waiting for.
THEOREM OneAfterCloseCorrect == Spec => []OneAfterClose
<1>1. Init => CloseInv
  BY DEF Init, CloseInv
<1>2. CloseInv => OneAfterClose
  BY DEF CloseInv, OneAfterClose
<1> QED
  BY <1>1, <1>2, CloseStep, TypeCorrect, PTL DEF Spec

=============================================================================
