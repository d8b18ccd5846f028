-------------------------- MODULE SubscriberProofs --------------------------
(***************************************************************************)
(* Theorems about Subscriber, for every size of the channel and of the     *)
(* provider's buffer, every delay and every number of deploys and removal  *)
(* notices.                                                                *)
(***************************************************************************)
EXTENDS Subscriber, SequenceTheorems, TLAPS

-----------------------------------------------------------------------------
(* Logs, and sequences of logs.                                             *)

\* The log stands for a deploy and is not a removal notice.
Live(l) == ~l.removed /\ l.deploy # OtherLog

\* If both logs are live, the first is the earlier one on the chain.
Precedes(l, m) == Live(l) /\ Live(m) => l.deploy < m.deploy

Ordered(s) == \A i, j \in 1..Len(s) : i < j => Precedes(s[i], s[j])

\* The log in hand is one while it is being sent.
HeldInv == (pc # "Sending" => held = NoLog) /\ (pc = "Sending" => held.deploy # OtherLog)

\* Along the way from the provider's buffer over the log in hand to what was
\* sent, live logs are ever earlier, and none is of a deploy to come.
OrderInv ==
  /\ Ordered(sent) /\ Ordered(buffer)
  /\ \A i \in 1..Len(sent) : Precedes(sent[i], held)
  /\ \A j \in 1..Len(buffer) : Precedes(held, buffer[j])
  /\ \A i \in 1..Len(sent), j \in 1..Len(buffer) : Precedes(sent[i], buffer[j])
  /\ \A i \in 1..Len(sent) : sent[i].deploy \in 1..mined
  /\ held.deploy <= mined
  /\ \A j \in 1..Len(buffer) : buffer[j].deploy <= mined

\* The log that stands for none is of no deploy.
LEMMA NoLogFacts ==
  /\ NoLog \in Logs /\ ~Live(NoLog)
  /\ DeploysIn({NoLog}) = {}
  /\ \A l : Precedes(l, NoLog) /\ Precedes(NoLog, l)
<1>1. NoLog \in Logs /\ ~Live(NoLog)
  BY DEF NoLog, Logs, Live
<1>2. DeploysIn({NoLog}) = {}
  BY SubscriberAssumption DEF DeploysIn, NoLog, Deploys, OtherLog
<1> QED
  BY <1>1, <1>2 DEF Precedes

\* A sequence of logs as the set of its elements.
LEMMA RangeMember ==
  \A s \in Seq(Logs) :
    /\ Range(s) \subseteq Logs
    /\ \A x : x \in Range(s) <=> \E i \in 1..Len(s) : x = s[i]
  BY DEF Range

\* The empty sequence of logs.
LEMMA EmptyFacts == <<>> \in Seq(Logs) /\ Len(<<>>) = 0 /\ Range(<<>>) = {}
  BY DEF Range

\* A log joins the end of a sequence.
LEMMA AppendFacts ==
  ASSUME NEW s \in Seq(Logs), NEW x \in Logs
  PROVE  /\ Append(s, x) \in Seq(Logs)
         /\ Len(Append(s, x)) = Len(s) + 1 /\ Len(s) \in Nat
         /\ \A i \in 1..Len(s) : Append(s, x)[i] = s[i]
         /\ Append(s, x)[Len(s) + 1] = x
         /\ Range(Append(s, x)) = Range(s) \cup {x}
<1> DEFINE t == Append(s, x)
<1>1. /\ t \in Seq(Logs) /\ Len(t) = Len(s) + 1 /\ Len(s) \in Nat
      /\ \A i \in 1..Len(s) : t[i] = s[i]
      /\ t[Len(s) + 1] = x
  BY AppendProperties
<1> HIDE DEF t
<1>2. \A y : y \in Range(t) <=> y \in Range(s) \cup {x}
  <2>1. \A y : (\E i \in 1..Len(t) : y = t[i]) <=> y = x \/ \E i \in 1..Len(s) : y = s[i]
    BY <1>1
  <2> QED
    BY <1>1, <2>1, RangeMember
<1> QED
  BY <1>1, <1>2 DEF t

\* The oldest log leaves a sequence.
LEMMA HeadTailFacts ==
  ASSUME NEW s \in Seq(Logs), s # <<>>
  PROVE  /\ Tail(s) \in Seq(Logs) /\ Head(s) \in Logs
         /\ Len(s) \in Nat \ {0} /\ Len(Tail(s)) = Len(s) - 1
         /\ Head(s) = s[1]
         /\ \A i \in 1..Len(Tail(s)) : Tail(s)[i] = s[i + 1] /\ i + 1 \in 1..Len(s)
         /\ Range(s) = {Head(s)} \cup Range(Tail(s))
<1> DEFINE t == Tail(s)
<1>1. /\ Head(s) \in Logs /\ t \in Seq(Logs) /\ Len(t) = Len(s) - 1
      /\ \A i \in 1..Len(t) : t[i] = s[i + 1]
  BY HeadTailProperties
<1>2. Len(s) \in Nat \ {0} /\ Head(s) = s[1]
  OBVIOUS
<1> HIDE DEF t
<1>3. \A i \in 1..Len(t) : t[i] = s[i + 1] /\ i + 1 \in 1..Len(s)
  BY <1>1, <1>2
<1>4. ASSUME NEW y
      PROVE  (\E i \in 1..Len(s) : y = s[i])
             <=> y = Head(s) \/ \E i \in 1..Len(t) : y = t[i]
  <2>1. ASSUME NEW i \in 1..Len(s), y = s[i], i # 1
        PROVE  \E j \in 1..Len(t) : y = t[j]
    <3>1. i - 1 \in 1..Len(t) /\ y = t[i - 1]
      BY <1>1, <1>2, <2>1
    <3> QED
      BY <3>1
  <2>2. 1 \in 1..Len(s)
    BY <1>2
  <2> QED
    BY <1>2, <1>3, <2>1, <2>2
<1>5. \A y : y \in Range(t) <=> \E i \in 1..Len(t) : y = t[i]
  BY <1>1, RangeMember
<1>6. \A y : y \in Range(s) <=> \E i \in 1..Len(s) : y = s[i]
  BY RangeMember
<1>7. \A y : y \in Range(s) <=> y \in {Head(s)} \cup Range(t)
  BY <1>4, <1>5, <1>6
<1> QED
  BY <1>1, <1>2, <1>3, <1>7 DEF t

\* The deploys of a union of sets of logs.
LEMMA DeploysUnion ==
  \A S, T : DeploysIn(S \cup T) = DeploysIn(S) \cup DeploysIn(T)
  BY DEF DeploysIn

\* The deploys among the elements of one log.
LEMMA DeploysOfOne ==
  \A l \in Logs : DeploysIn({l}) = IF Live(l) THEN {l.deploy} ELSE {}
<1> SUFFICES ASSUME NEW l \in Logs
             PROVE  DeploysIn({l}) = IF Live(l) THEN {l.deploy} ELSE {}
  OBVIOUS
<1>1. l.deploy \in Deploys \cup {OtherLog} /\ OtherLog \notin Deploys
  BY SubscriberAssumption DEF Logs, Deploys, OtherLog
<1> QED
  BY <1>1 DEF DeploysIn, Live

-----------------------------------------------------------------------------
(* What a log's arrival does to the provider's buffer.                      *)

\* A stream that overwrites its oldest log stays within its buffer.
LEMMA ArriveType ==
  ASSUME TypeOK, NEW log \in Logs, Arrive(log)
  PROVE  /\ buffer' \in Seq(Logs) /\ Len(buffer') <= StreamBuf
         /\ missed' \subseteq Deploys /\ lagged' \subseteq Deploys
<1> USE SubscriberAssumption DEF TypeOK, Arrive
<1>1. \A S : DeploysIn(S) \subseteq Deploys
  BY DEF DeploysIn
<1>2. CASE conn # "live"
  BY <1>1, <1>2
<1>3. CASE conn = "live" /\ Len(buffer) < StreamBuf
  BY <1>1, <1>3, AppendFacts
<1>4. CASE conn = "live" /\ ~(Len(buffer) < StreamBuf)
  <2>1. buffer # <<>>
    BY <1>4
  <2>2. /\ Tail(buffer) \in Seq(Logs) /\ Len(Tail(buffer)) = Len(buffer) - 1
        /\ Len(buffer) \in Nat
    BY <2>1, HeadTailFacts
  <2>3. buffer' \in Seq(Logs) /\ Len(buffer') = Len(buffer)
    BY <1>4, <2>2, AppendFacts
  <2> QED
    BY <1>1, <1>4, <2>3
<1> QED
  BY <1>2, <1>3, <1>4

\* The log that arrives goes to the end of the buffer, if it gets there.
LEMMA ArriveOrder ==
  ASSUME TypeOK, NEW log \in Logs, Arrive(log)
  PROVE  /\ \A j \in 1..Len(buffer') :
              buffer'[j] = log \/ \E k \in 1..Len(buffer) : buffer'[j] = buffer[k]
         /\ Ordered(buffer) /\ (\A k \in 1..Len(buffer) : Precedes(buffer[k], log))
              => Ordered(buffer')
<1>1. CASE conn # "live"
  BY <1>1 DEF Arrive
<1>2. CASE conn = "live" /\ Len(buffer) < StreamBuf
  <2>1. buffer' = Append(buffer, log)
    BY <1>2 DEF Arrive
  <2>2. /\ Len(buffer) \in Nat
        /\ Len(buffer') = Len(buffer) + 1 /\ buffer'[Len(buffer) + 1] = log
        /\ \A j \in 1..Len(buffer) : buffer'[j] = buffer[j]
    BY <2>1, AppendFacts DEF TypeOK
  <2>3. \A j \in 1..Len(buffer') :
          \/ j = Len(buffer) + 1 /\ buffer'[j] = log
          \/ j \in 1..Len(buffer) /\ buffer'[j] = buffer[j]
    BY <2>2
  <2>4. ASSUME Ordered(buffer), \A k \in 1..Len(buffer) : Precedes(buffer[k], log)
        PROVE  Ordered(buffer')
    BY <2>2, <2>3, <2>4 DEF Ordered
  <2> QED
    BY <2>3, <2>4
<1>3. CASE conn = "live" /\ ~(Len(buffer) < StreamBuf)
  <2> DEFINE t == Tail(buffer)
  <2>1. buffer # <<>> /\ buffer \in Seq(Logs)
    BY <1>3, SubscriberAssumption DEF TypeOK
  <2>2. /\ t \in Seq(Logs) /\ Len(t) \in Nat
        /\ \A j \in 1..Len(t) : t[j] = buffer[j + 1] /\ j + 1 \in 1..Len(buffer)
    BY <2>1, HeadTailFacts
  <2>3. buffer' = Append(t, log)
    BY <1>3 DEF Arrive
  <2> HIDE DEF t
  <2>4. /\ Len(buffer') = Len(t) + 1 /\ buffer'[Len(t) + 1] = log
        /\ \A j \in 1..Len(t) : buffer'[j] = t[j]
    BY <2>2, <2>3, AppendFacts
  <2>5. \A j \in 1..Len(buffer') :
          \/ j = Len(t) + 1 /\ buffer'[j] = log
          \/ j \in 1..Len(t) /\ j + 1 \in 1..Len(buffer) /\ buffer'[j] = buffer[j + 1]
    BY <2>2, <2>4
  <2>6. ASSUME Ordered(buffer), \A k \in 1..Len(buffer) : Precedes(buffer[k], log)
        PROVE  Ordered(buffer')
    BY <2>2, <2>4, <2>5, <2>6 DEF Ordered
  <2> QED
    BY <2>5, <2>6
<1> QED
  BY <1>1, <1>2, <1>3

\* It is kept, or the history says why not, and so is what it displaces.
LEMMA ArriveAccounts ==
  ASSUME TypeOK, NEW log \in Logs, Arrive(log)
  PROVE  /\ DeploysIn({log}) \subseteq DeploysIn(Range(buffer')) \cup missed'
         /\ DeploysIn(Range(buffer)) \subseteq DeploysIn(Range(buffer')) \cup lagged'
         /\ missed \subseteq missed' /\ lagged \subseteq lagged'
<1> USE SubscriberAssumption DEF TypeOK, Arrive
<1>1. CASE conn # "live"
  BY <1>1
<1>2. CASE conn = "live" /\ Len(buffer) < StreamBuf
  <2>1. Range(buffer') = Range(buffer) \cup {log}
    BY <1>2, AppendFacts
  <2> QED
    BY <1>2, <2>1, DeploysUnion
<1>3. CASE conn = "live" /\ ~(Len(buffer) < StreamBuf)
  <2>1. buffer # <<>>
    BY <1>3
  <2>2. Tail(buffer) \in Seq(Logs) /\ Range(buffer) = {Head(buffer)} \cup Range(Tail(buffer))
    BY <2>1, HeadTailFacts
  <2>3. Range(buffer') = Range(Tail(buffer)) \cup {log}
    BY <1>3, <2>2, AppendFacts
  <2>4. DeploysIn(Range(buffer)) = DeploysIn({Head(buffer)}) \cup DeploysIn(Range(Tail(buffer)))
    BY <2>2, DeploysUnion
  <2>5. DeploysIn(Range(buffer')) = DeploysIn(Range(Tail(buffer))) \cup DeploysIn({log})
    BY <2>3, DeploysUnion
  <2>6. lagged' = lagged \cup DeploysIn({Head(buffer)}) /\ missed' = missed
    BY <1>3
  <2> QED
    BY <2>4, <2>5, <2>6
<1> QED
  BY <1>1, <1>2, <1>3

\* Every arrival is that of a log, of a deploy mined by then.
LEMMA Arrivals ==
  ASSUME TypeOK, MineDeploy \/ MineOther \/ RemoveDeploy
  PROVE  \E log \in Logs :
           /\ Arrive(log)
           /\ log.deploy <= mined'
           /\ \/ ~Live(log) /\ mined' = mined
              \/ MineDeploy /\ log.deploy = mined + 1 /\ Live(log) /\ mined' = mined + 1
<1> DEFINE P(log) ==
      /\ Arrive(log)
      /\ log.deploy <= mined'
      /\ \/ ~Live(log) /\ mined' = mined
         \/ MineDeploy /\ log.deploy = mined + 1 /\ Live(log) /\ mined' = mined + 1
<1> USE SubscriberAssumption DEF TypeOK, Deploys, OtherLog, Logs, Live
<1>1. CASE MineDeploy
  <2> DEFINE log == [deploy |-> mined + 1, removed |-> FALSE]
  <2>1. log \in Logs /\ log.deploy = mined + 1 /\ Live(log)
    BY <1>1 DEF MineDeploy
  <2>2. Arrive(log) /\ mined' = mined + 1
    BY <1>1 DEF MineDeploy
  <2> HIDE DEF log
  <2>3. P(log)
    BY <1>1, <2>1, <2>2
  <2> QED
    BY <2>1, <2>3
<1>2. CASE MineOther
  <2>1. NoLog \in Logs /\ P(NoLog)
    BY <1>2, NoLogFacts DEF MineOther, NoLog, chainVars
  <2> QED
    BY <2>1
<1>3. CASE RemoveDeploy
  <2>1. PICK d \in 1..mined : Arrive([deploy |-> d, removed |-> TRUE])
    BY <1>3 DEF RemoveDeploy
  <2> DEFINE log == [deploy |-> d, removed |-> TRUE]
  <2>2. log \in Logs /\ log.deploy <= mined /\ ~Live(log) /\ mined' = mined
    BY <1>3 DEF RemoveDeploy
  <2> HIDE DEF log
  <2>3. P(log)
    BY <2>1, <2>2 DEF log
  <2> QED
    BY <2>2, <2>3
<1> QED
  BY <1>1, <1>2, <1>3

-----------------------------------------------------------------------------
(* Type correctness, and the log in hand.                                   *)

\* The types hold before the first connection.
LEMMA InitType == Init => TypeOK /\ HeldInv
<1> SUFFICES ASSUME Init
             PROVE  TypeOK /\ HeldInv
  OBVIOUS
<1> USE DEF Init
<1>1. TypeOK
  <2>1. backoff \in MinBackoff..MaxBackoff
    BY SubscriberAssumption
  <2>2. /\ buffer \in Seq(Logs) /\ Len(buffer) <= StreamBuf
        /\ sent \in Seq(Logs) /\ held \in Logs
    BY SubscriberAssumption, NoLogFacts, EmptyFacts
  <2>3. queued \in 0..ChannelBuf /\ mined \in 0..MaxDeploys /\ removals \in 0..MaxRemoved
    BY SubscriberAssumption
  <2> QED
    BY <2>1, <2>2, <2>3 DEF TypeOK
<1>2. HeldInv
  BY DEF HeldInv
<1> QED
  BY <1>1, <1>2

\* The next log of the stream.
LEMMA NextLog ==
  ASSUME TypeOK, buffer # <<>>
  PROVE  Head(buffer) \in Logs /\ Tail(buffer) \in Seq(Logs) /\ Len(Tail(buffer)) <= StreamBuf
<1>1. /\ Head(buffer) \in Logs /\ Tail(buffer) \in Seq(Logs)
      /\ Len(Tail(buffer)) = Len(buffer) - 1 /\ Len(buffer) \in Nat
  BY HeadTailFacts DEF TypeOK
<1> QED
  BY <1>1, SubscriberAssumption DEF TypeOK

\* The parts of the state that a log's arrival leaves alone.
LEMMA ArrivalFrame ==
  MineDeploy \/ MineOther \/ RemoveDeploy =>
    /\ UNCHANGED <<pc, backoff, held, conn, sent, queued, closed>>
    /\ mined' = mined \/ (mined < MaxDeploys /\ mined' = mined + 1)
    /\ removals' = removals \/ (removals < MaxRemoved /\ removals' = removals + 1)
  BY DEF MineDeploy, MineOther, RemoveDeploy, loopVars, outVars, chainVars

\* Every step keeps the types.
LEMMA TypeStep == TypeOK /\ HeldInv /\ [Next]_vars => TypeOK' /\ HeldInv'
<1> SUFFICES ASSUME TypeOK, HeldInv, [Next]_vars
             PROVE  TypeOK' /\ HeldInv'
  OBVIOUS
<1> USE SubscriberAssumption DEF TypeOK, HeldInv, loopVars, providerVars, chainVars, outVars
<1>1. CASE ConnectOk \/ SubscribeOk \/ EstablishErr
  BY <1>1 DEF ConnectOk, SubscribeOk, EstablishErr
<1>2. CASE StreamEnds \/ CheckClosed
  BY <1>2 DEF StreamEnds, CheckClosed
<1>3. CASE Sleep
  <2>1. backoff' \in MinBackoff..MaxBackoff
    BY <1>3 DEF Sleep, NextBackoff
  <2> QED
    BY <1>3, <2>1 DEF Sleep
<1>4. CASE TakeLog
  BY <1>4, NextLog DEF TakeLog
<1>5. CASE Send
  <2>1. sent' \in Seq(Logs)
    <3>1. Append(sent, held) \in Seq(Logs)
      BY AppendFacts
    <3>2. sent' = sent \/ sent' = Append(sent, held)
      BY <1>5 DEF Send
    <3> QED
      BY <3>1, <3>2
  <2>2. queued' \in 0..ChannelBuf
    BY <1>5 DEF Send
  <2>3. held' = NoLog /\ held' \in Logs
    BY <1>5, NoLogFacts DEF Send
  <2> QED
    BY <1>5, <2>1, <2>2, <2>3 DEF Send
<1>6. CASE MineDeploy \/ MineOther \/ RemoveDeploy
  <2>1. /\ buffer' \in Seq(Logs) /\ Len(buffer') <= StreamBuf
        /\ missed' \subseteq Deploys /\ lagged' \subseteq Deploys
    BY <1>6, Arrivals, ArriveType
  <2>2. mined' \in 0..MaxDeploys /\ removals' \in 0..MaxRemoved
    BY <1>6, ArrivalFrame
  <2> QED
    BY <1>6, <2>1, <2>2, ArrivalFrame
<1>7. CASE SocketLost \/ SocketRestored \/ ProviderGivesUp
  BY <1>7 DEF SocketLost, SocketRestored, ProviderGivesUp
<1>8. CASE ReceiverTakes \/ ReceiverDropped
  <2>1. queued' \in 0..ChannelBuf /\ closed' \in BOOLEAN
    <3>1. CASE ReceiverTakes
      BY <3>1 DEF ReceiverTakes
    <3>2. CASE ReceiverDropped
      BY <3>2 DEF ReceiverDropped
    <3> QED
      BY <1>8, <3>1, <3>2
  <2>2. UNCHANGED <<pc, backoff, held, conn, buffer, mined, removals, sent, missed, lagged>>
    BY <1>8 DEF ReceiverTakes, ReceiverDropped
  <2> QED
    BY <2>1, <2>2
<1>9. CASE UNCHANGED vars
  BY <1>9 DEF vars
<1> QED
  BY <1>1, <1>2, <1>3, <1>4, <1>5, <1>6, <1>7, <1>8, <1>9 DEF Next, LoopStep, Returned

\* Types, and what is in hand, in every reachable state.
LEMMA TypeInvariant == Spec => [](TypeOK /\ HeldInv)
  BY InitType, TypeStep, PTL DEF Spec

\* Every variable has its type in every reachable state; the delay stays
\* between its first value and its cap, however often run reconnects.
THEOREM TypeCorrect == Spec => []TypeOK
  BY TypeInvariant, PTL

-----------------------------------------------------------------------------
(* The order of what is sent.                                               *)

\* Before the first log all is in order.
LEMMA InitOrder == Init => OrderInv
  BY EmptyFacts, NoLogFacts DEF Init, OrderInv, Ordered, NoLog, OtherLog

\* Nothing that the order is about changes.
LEMMA OrderFrame ==
  OrderInv /\ UNCHANGED <<sent, held, buffer, mined>> => OrderInv'
  BY DEF OrderInv, Ordered

\* A log taken from the stream follows all those taken before it.
LEMMA OrderTakeLog == TypeOK /\ HeldInv /\ OrderInv /\ TakeLog => OrderInv'
<1> SUFFICES ASSUME TypeOK, HeldInv, OrderInv, TakeLog
             PROVE  OrderInv'
  OBVIOUS
<1>1. /\ pc = "Streaming" /\ buffer # <<>> /\ buffer' = Tail(buffer)
      /\ UNCHANGED <<sent, mined>>
      /\ held' = held \/ held' = Head(buffer)
  BY DEF TakeLog, chainVars, outVars
<1>2. held = NoLog
  BY <1>1 DEF HeldInv
<1>3. /\ Len(buffer) \in Nat \ {0} /\ Len(buffer') \in Nat /\ Head(buffer) = buffer[1]
      /\ \A i \in 1..Len(buffer') : buffer'[i] = buffer[i + 1] /\ i + 1 \in 1..Len(buffer)
  BY <1>1, HeadTailFacts DEF TypeOK
<1>4. Ordered(buffer')
  BY <1>3 DEF Ordered, OrderInv
<1>5. \A j \in 1..Len(buffer') : Precedes(buffer[1], buffer'[j])
  BY <1>3 DEF Ordered, OrderInv
<1>6. \A i \in 1..Len(sent) : Precedes(sent[i], held')
  BY <1>1, <1>3 DEF OrderInv
<1>7. \A j \in 1..Len(buffer') : Precedes(held', buffer'[j])
  BY <1>1, <1>2, <1>3, <1>5, NoLogFacts
<1>8. \A i \in 1..Len(sent'), j \in 1..Len(buffer') : Precedes(sent'[i], buffer'[j])
  BY <1>1, <1>3 DEF OrderInv
<1>9. held'.deploy <= mined /\ \A j \in 1..Len(buffer') : buffer'[j].deploy <= mined
  BY <1>1, <1>3 DEF OrderInv
<1> QED
  BY <1>1, <1>4, <1>6, <1>7, <1>8, <1>9 DEF OrderInv, Ordered

\* A log sent follows those sent before it.
LEMMA OrderSend == TypeOK /\ HeldInv /\ OrderInv /\ Send => OrderInv'
<1> SUFFICES ASSUME TypeOK, HeldInv, OrderInv, Send
             PROVE  OrderInv'
  OBVIOUS
<1>1. /\ pc = "Sending" /\ held' = NoLog /\ UNCHANGED <<buffer, mined>>
      /\ sent' = sent \/ sent' = Append(sent, held)
  BY DEF Send, chainVars, providerVars
<1>2. NoLog.deploy <= mined
  BY DEF NoLog, OtherLog, TypeOK
<1>3. CASE sent' = sent
  BY <1>1, <1>2, <1>3, NoLogFacts DEF OrderInv, Ordered
<1>4. CASE sent' = Append(sent, held)
  <2>1. /\ Len(sent) \in Nat /\ Len(sent') = Len(sent) + 1 /\ sent'[Len(sent) + 1] = held
        /\ \A i \in 1..Len(sent) : sent'[i] = sent[i]
    BY <1>4, AppendFacts DEF TypeOK
  <2>2. \A i \in 1..Len(sent') : \/ i = Len(sent) + 1 /\ sent'[i] = held
                                 \/ i \in 1..Len(sent) /\ sent'[i] = sent[i]
    BY <2>1
  <2>3. Ordered(sent')
    BY <2>1, <2>2 DEF OrderInv, Ordered
  <2>4. \A i \in 1..Len(sent'), j \in 1..Len(buffer) : Precedes(sent'[i], buffer[j])
    BY <2>2 DEF OrderInv
  <2>5. held.deploy \in 1..mined
    BY <1>1 DEF HeldInv, TypeOK, Logs, Deploys, OrderInv
  <2>6. \A i \in 1..Len(sent') : sent'[i].deploy \in 1..mined
    BY <2>2, <2>5 DEF OrderInv
  <2> QED
    BY <1>1, <1>2, <2>3, <2>4, <2>6, NoLogFacts DEF OrderInv, Ordered
<1> QED
  BY <1>1, <1>3, <1>4

\* A deploy that is mined comes after all that were.
LEMMA OrderArrival ==
  TypeOK /\ OrderInv /\ (MineDeploy \/ MineOther \/ RemoveDeploy) => OrderInv'
<1> SUFFICES ASSUME TypeOK, OrderInv, MineDeploy \/ MineOther \/ RemoveDeploy
             PROVE  OrderInv'
  OBVIOUS
<1>1. UNCHANGED <<sent, held>>
  BY ArrivalFrame
<1>2. PICK log \in Logs :
        /\ Arrive(log)
        /\ log.deploy <= mined'
        /\ \/ ~Live(log) /\ mined' = mined
           \/ log.deploy = mined + 1 /\ Live(log) /\ mined' = mined + 1
  BY Arrivals
<1>3. mined \in Nat /\ mined' \in Nat /\ mined <= mined'
  BY <1>2 DEF TypeOK
<1>4. \A l \in Logs : l.deploy \in Int
  BY SubscriberAssumption DEF Logs, Deploys, OtherLog
<1>5. \A l \in Logs : l.deploy <= mined => Precedes(l, log) /\ l.deploy <= mined'
  BY <1>2, <1>3, <1>4 DEF Precedes
<1>6. /\ \A k \in 1..Len(buffer) : buffer[k] \in Logs
      /\ \A i \in 1..Len(sent) : sent[i] \in Logs /\ sent[i].deploy <= mined
      /\ held \in Logs
  BY <1>3, ElementOfSeq DEF TypeOK, OrderInv
<1>7. \A j \in 1..Len(buffer') :
        buffer'[j] = log \/ \E k \in 1..Len(buffer) : buffer'[j] = buffer[k]
  BY <1>2, ArriveOrder
<1>8. \A k \in 1..Len(buffer) : Precedes(buffer[k], log) /\ buffer[k].deploy <= mined'
  BY <1>5, <1>6 DEF OrderInv
<1>9. Ordered(buffer')
  BY <1>2, <1>8, ArriveOrder DEF OrderInv
<1>10. \A j \in 1..Len(buffer') : Precedes(held, buffer'[j])
  BY <1>5, <1>6, <1>7 DEF OrderInv
<1>11. \A i \in 1..Len(sent), j \in 1..Len(buffer') : Precedes(sent[i], buffer'[j])
  BY <1>5, <1>6, <1>7 DEF OrderInv
<1>12. \A j \in 1..Len(buffer') : buffer'[j].deploy <= mined'
  BY <1>2, <1>7, <1>8
<1>13. \A i \in 1..Len(sent) : sent[i].deploy \in 1..mined'
  BY <1>3, <1>4, <1>6 DEF OrderInv
<1>14. held.deploy <= mined'
  BY <1>5, <1>6 DEF OrderInv
<1> QED
  BY <1>1, <1>9, <1>10, <1>11, <1>12, <1>13, <1>14 DEF OrderInv, Ordered

\* Every step keeps the order.
LEMMA OrderStep == TypeOK /\ HeldInv /\ OrderInv /\ [Next]_vars => OrderInv'
<1> SUFFICES ASSUME TypeOK, HeldInv, OrderInv, [Next]_vars
             PROVE  OrderInv'
  OBVIOUS
<1> USE DEF loopVars, providerVars, chainVars, outVars
<1>1. CASE TakeLog
  BY <1>1, OrderTakeLog
<1>2. CASE Send
  BY <1>2, OrderSend
<1>3. CASE MineDeploy \/ MineOther \/ RemoveDeploy
  BY <1>3, OrderArrival
<1>4. CASE UNCHANGED <<sent, held, buffer, mined>>
  BY <1>4, OrderFrame
<1> QED
  BY <1>1, <1>2, <1>3, <1>4
  DEF Next, LoopStep, Returned, vars, ConnectOk, SubscribeOk, EstablishErr, StreamEnds,
      Sleep, CheckClosed, SocketLost, SocketRestored, ProviderGivesUp, ReceiverTakes,
      ReceiverDropped

\* Removal notices apart, deploys go downstream in the order of the chain and
\* at most once: the feed that Pipeline takes for granted.
THEOREM SentInOrderCorrect == Spec => []SentInOrder
<1>1. Spec => []OrderInv
  BY InitOrder, OrderStep, TypeInvariant, PTL DEF Spec
<1>2. TypeOK /\ OrderInv => SentInOrder
  <2> SUFFICES ASSUME TypeOK, OrderInv, NEW i \in 1..Len(sent), NEW j \in 1..Len(sent),
                      i < j, ~sent[i].removed, ~sent[j].removed
               PROVE  sent[i].deploy < sent[j].deploy
    BY DEF SentInOrder
  <2>1. Live(sent[i]) /\ Live(sent[j])
    BY DEF OrderInv, Live, OtherLog, TypeOK
  <2> QED
    BY <2>1 DEF OrderInv, Ordered, Precedes
<1> QED
  BY <1>1, <1>2, TypeCorrect, PTL

-----------------------------------------------------------------------------
(* Where a deploy can be.                                                   *)

\* LossIsAccounted is inductive, given the log in hand.
LEMMA LossStep == TypeOK /\ HeldInv /\ LossIsAccounted /\ [Next]_vars => LossIsAccounted'
<1> SUFFICES ASSUME TypeOK, HeldInv, LossIsAccounted, [Next]_vars, ~closed'
             PROVE  1..mined' \subseteq DeploysIn(Range(sent') \cup Range(buffer') \cup {held'})
                                        \cup missed' \cup lagged'
  BY DEF LossIsAccounted
<1> DEFINE In(s, b, h) == DeploysIn(Range(s)) \cup DeploysIn(Range(b)) \cup DeploysIn({h})
<1> USE DEF loopVars, providerVars, chainVars, outVars
<1>0. ~closed
  BY DEF Next, LoopStep, Returned, vars, ConnectOk, SubscribeOk, EstablishErr, StreamEnds,
         Sleep, TakeLog, Send, CheckClosed, MineDeploy, MineOther, RemoveDeploy, SocketLost,
         SocketRestored, ProviderGivesUp, ReceiverTakes, ReceiverDropped
<1>1. \A S, T, U : DeploysIn(S \cup T \cup U) = DeploysIn(S) \cup DeploysIn(T) \cup DeploysIn(U)
  <2> SUFFICES ASSUME NEW S, NEW T, NEW U
               PROVE  DeploysIn(S \cup T \cup U) = DeploysIn(S) \cup DeploysIn(T) \cup DeploysIn(U)
    OBVIOUS
  <2>1. DeploysIn((S \cup T) \cup U) = DeploysIn(S \cup T) \cup DeploysIn(U)
    BY DeploysUnion
  <2>2. DeploysIn(S \cup T) = DeploysIn(S) \cup DeploysIn(T)
    BY DeploysUnion
  <2> QED
    BY <2>1, <2>2
<1>2. 1..mined \subseteq In(sent, buffer, held) \cup missed \cup lagged
  <2>1. 1..mined \subseteq DeploysIn(Range(sent) \cup Range(buffer) \cup {held})
                           \cup missed \cup lagged
    BY <1>0 DEF LossIsAccounted
  <2> QED
    BY <1>1, <2>1
<1> SUFFICES 1..mined' \subseteq In(sent', buffer', held') \cup missed' \cup lagged'
  <2>1. DeploysIn(Range(sent') \cup Range(buffer') \cup {held'}) = In(sent', buffer', held')
    BY <1>1
  <2> QED
    BY <2>1
<1>3. CASE TakeLog
  <2>1. /\ pc = "Streaming" /\ buffer # <<>> /\ buffer' = Tail(buffer)
        /\ UNCHANGED <<sent, mined, missed, lagged>>
        /\ \/ Head(buffer).deploy = OtherLog /\ held' = held
           \/ held' = Head(buffer)
    BY <1>3 DEF TakeLog
  <2>2. Head(buffer) \in Logs /\ Range(buffer) = {Head(buffer)} \cup Range(buffer')
    BY <2>1, HeadTailFacts DEF TypeOK
  <2>3. DeploysIn(Range(buffer)) = DeploysIn({Head(buffer)}) \cup DeploysIn(Range(buffer'))
    BY <2>2, DeploysUnion
  <2>4. DeploysIn({held}) = {}
    BY <2>1, NoLogFacts DEF HeldInv
  <2>5. DeploysIn({Head(buffer)}) \subseteq DeploysIn({held'})
    BY <2>1, <2>2, DeploysOfOne DEF Live
  <2> QED
    BY <1>2, <2>1, <2>3, <2>4, <2>5
<1>4. CASE Send
  <2>1. /\ sent' = Append(sent, held) /\ held' = NoLog
        /\ UNCHANGED <<buffer, mined, missed, lagged>>
    BY <1>0, <1>4 DEF Send
  <2>2. Range(sent') = Range(sent) \cup {held}
    BY <2>1, AppendFacts DEF TypeOK
  <2>3. DeploysIn(Range(sent')) = DeploysIn(Range(sent)) \cup DeploysIn({held})
    BY <2>2, DeploysUnion
  <2> QED
    BY <1>2, <2>1, <2>3
<1>5. CASE MineDeploy \/ MineOther \/ RemoveDeploy
  <2>1. UNCHANGED <<sent, held>>
    BY <1>5, ArrivalFrame
  <2>2. PICK log \in Logs :
          /\ Arrive(log)
          /\ mined' = mined \/ (log.deploy = mined + 1 /\ Live(log) /\ mined' = mined + 1)
    BY <1>5, Arrivals
  <2>3. /\ DeploysIn({log}) \subseteq DeploysIn(Range(buffer')) \cup missed'
        /\ DeploysIn(Range(buffer)) \subseteq DeploysIn(Range(buffer')) \cup lagged'
        /\ missed \subseteq missed' /\ lagged \subseteq lagged'
    BY <2>2, ArriveAccounts
  <2>4. 1..mined' \subseteq 1..mined \cup DeploysIn({log})
    <3>1. CASE mined' = mined
      BY <3>1
    <3>2. CASE log.deploy = mined + 1 /\ Live(log) /\ mined' = mined + 1
      <4>1. DeploysIn({log}) = {mined + 1}
        BY <3>2, DeploysOfOne
      <4>2. 1..mined' \subseteq 1..mined \cup {mined + 1}
        BY <3>2 DEF TypeOK
      <4> QED
        BY <4>1, <4>2
    <3> QED
      BY <2>2, <3>1, <3>2
  <2> QED
    BY <1>2, <2>1, <2>3, <2>4
<1>6. CASE UNCHANGED <<sent, held, buffer, mined, missed, lagged>>
  BY <1>2, <1>6
<1> QED
  BY <1>3, <1>4, <1>5, <1>6
  DEF Next, LoopStep, Returned, vars, ConnectOk, SubscribeOk, EstablishErr, StreamEnds,
      Sleep, CheckClosed, SocketLost, SocketRestored, ProviderGivesUp, ReceiverTakes,
      ReceiverDropped

\* A deploy that was mined is sent, on its way, or lost in one of the two ways
\* that the history names, as long as the receiver lives.
THEOREM LossIsAccountedCorrect == Spec => []LossIsAccounted
<1>1. Init => LossIsAccounted
  BY DEF Init, LossIsAccounted
<1> QED
  BY <1>1, LossStep, TypeInvariant, PTL DEF Spec

=============================================================================
