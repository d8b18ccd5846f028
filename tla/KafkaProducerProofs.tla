------------------------ MODULE KafkaProducerProofs ------------------------
(***************************************************************************)
(* Theorems about KafkaProducer, for every number of messages and          *)
(* launches, and batches of every size: the order, the atomicity and the   *)
(* at-most-once of the committed log, and the refinement of Publisher.     *)
(***************************************************************************)
EXTENDS KafkaProducer, SequenceTheorems, TLAPS

-----------------------------------------------------------------------------
(* Sequences of messages.                                                   *)

\* Messages are their positions in the feed.
LEMMA MessagesAreNumbers == Messages \subseteq Int /\ MaxMessages \in Nat
  BY KafkaProducerAssumption DEF Messages

\* The messages of a call: the next n of the feed.
LEMMA NextMessagesType ==
  ASSUME NEW m \in Nat, NEW n \in 1..MaxBatch, m + n <= MaxMessages
  PROVE  /\ NextMessages(m, n) \in Seq(Messages)
         /\ Len(NextMessages(m, n)) = n
         /\ \A i \in 1..n : NextMessages(m, n)[i] = m + i
<1>1. n \in Nat
  BY KafkaProducerAssumption
<1>2. \A i \in 1..n : m + i \in Messages
  BY <1>1, KafkaProducerAssumption DEF Messages
<1>3. NextMessages(m, n) \in [1..n -> Messages]
  BY <1>2 DEF NextMessages
<1>4. NextMessages(m, n) \in Seq(Messages)
  BY <1>1, <1>3, SeqDef
<1>5. Len(NextMessages(m, n)) = n
  BY <1>1, <1>3, <1>4
<1> QED
  BY <1>4, <1>5 DEF NextMessages

\* A sequence of messages as the set of its elements.
LEMMA RangeMember ==
  \A s \in Seq(Messages) :
    /\ Range(s) \subseteq Messages
    /\ \A x : x \in Range(s) <=> \E i \in 1..Len(s) : x = s[i]
  BY DEF Range

\* Committing adds the committed messages to those that can be read.
LEMMA RangeConcat ==
  \A s, t \in Seq(Messages) : Range(s \o t) = Range(s) \cup Range(t)
  BY RangeConcatenation

\* The empty sequence is in order, before and after any other.
LEMMA EmptyFacts ==
  /\ <<>> \in Seq(Messages) /\ Len(<<>>) = 0
  /\ Increasing(<<>>)
  /\ \A s : Before(s, <<>>) /\ Before(<<>>, s)
  /\ \A m : UpTo(<<>>, m)
  BY DEF Increasing, Before, UpTo

\* Sending one more message.
LEMMA AppendFacts ==
  ASSUME NEW s \in Seq(Messages), NEW x \in Messages
  PROVE  /\ Append(s, x) \in Seq(Messages) /\ Append(s, x) # <<>>
         /\ Len(Append(s, x)) = Len(s) + 1 /\ Len(s) \in Nat
         /\ \A i \in 1..Len(s) : Append(s, x)[i] = s[i]
         /\ Append(s, x)[Len(s) + 1] = x
  BY AppendProperties

\* An ordered log stays ordered when a later transaction is committed.
LEMMA ConcatFacts ==
  ASSUME NEW s \in Seq(Messages), NEW t \in Seq(Messages)
  PROVE  /\ s \o t \in Seq(Messages)
         /\ Increasing(s) /\ Increasing(t) /\ Before(s, t) => Increasing(s \o t)
         /\ \A u \in Seq(Messages) : Before(s, u) /\ Before(t, u) => Before(s \o t, u)
         /\ \A m : UpTo(s, m) /\ UpTo(t, m) => UpTo(s \o t, m)
<1> DEFINE c == s \o t
<1>1. /\ c \in Seq(Messages) /\ Len(c) = Len(s) + Len(t)
      /\ \A i \in 1..Len(s) + Len(t) : c[i] = IF i <= Len(s) THEN s[i] ELSE t[i - Len(s)]
  BY ConcatProperties
<1>2. Len(s) \in Nat /\ Len(t) \in Nat
  OBVIOUS
<1>3. /\ \A i \in 1..Len(s) : s[i] \in Int
      /\ \A i \in 1..Len(t) : t[i] \in Int
  BY ElementOfSeq, MessagesAreNumbers
<1> HIDE DEF c
<1>4. \A i \in 1..Len(c) : \/ i \in 1..Len(s) /\ c[i] = s[i]
                           \/ /\ i - Len(s) \in 1..Len(t) /\ c[i] = t[i - Len(s)]
                              /\ i > Len(s)
  BY <1>1, <1>2
<1>5. Increasing(s) /\ Increasing(t) /\ Before(s, t) => Increasing(c)
  <2> SUFFICES ASSUME Increasing(s), Increasing(t), Before(s, t),
                      NEW i \in 1..Len(c), NEW j \in 1..Len(c), i < j
               PROVE  c[i] < c[j]
    BY DEF Increasing
  <2>1. CASE i > Len(s)
    <3>1. /\ i - Len(s) \in 1..Len(t) /\ c[i] = t[i - Len(s)]
          /\ j - Len(s) \in 1..Len(t) /\ c[j] = t[j - Len(s)]
          /\ i - Len(s) < j - Len(s)
      BY <1>1, <1>2, <2>1
    <3> QED
      BY <3>1 DEF Increasing
  <2>2. CASE j \in 1..Len(s) /\ i \in 1..Len(s)
    BY <1>1, <1>2, <2>2 DEF Increasing
  <2>3. CASE i \in 1..Len(s) /\ j > Len(s)
    BY <1>2, <1>4, <2>3 DEF Before
  <2> QED
    BY <1>1, <1>2, <2>1, <2>2, <2>3
<1>6. ASSUME NEW u \in Seq(Messages), Before(s, u), Before(t, u)
      PROVE  Before(c, u)
  BY <1>4, <1>6 DEF Before
<1>7. ASSUME NEW m, UpTo(s, m), UpTo(t, m)
      PROVE  UpTo(c, m)
  BY <1>4, <1>7 DEF UpTo
<1> QED
  BY <1>1, <1>5, <1>6, <1>7 DEF c

-----------------------------------------------------------------------------
(* The inductive invariant.                                                 *)

\* The invariant holds at the first launch.
LEMMA InitIInv == Init => IInv
<1> SUFFICES ASSUME Init
             PROVE  IInv
  OBVIOUS
<1> USE KafkaProducerAssumption, EmptyFacts DEF Init
<1>1. TypeOK
  <2>1. call \in Seq(Messages) /\ Len(call) <= MaxBatch /\ acked \in 0..Len(call)
    OBVIOUS
  <2>2. up \in BOOLEAN /\ launches \in 1..MaxLaunches /\ fed \in 0..MaxMessages
    OBVIOUS
  <2>3. open \in Seq(Messages) /\ log \in Seq(Messages)
    OBVIOUS
  <2> QED
    BY <2>1, <2>2, <2>3 DEF TypeOK, ClientStates
<1>2. ClientInv
  BY DEF ClientInv
<1>3. CallInv
  BY DEF CallInv
<1>4. HeldInv
  BY DEF HeldInv
<1>5. OrderInv
  BY DEF OrderInv
<1> QED
  BY <1>1, <1>2, <1>3, <1>4, <1>5 DEF IInv

\* The message a call is about to send, and the transaction with it.
LEMMA NextToSend ==
  ASSUME IInv, pc = "Send"
  PROVE  /\ acked + 1 \in 1..Len(call) /\ call[acked + 1] \in Messages
         /\ Append(open, call[acked + 1]) \in Seq(Messages)
<1>1. acked + 1 \in 1..Len(call)
  BY DEF IInv, TypeOK, CallInv
<1> QED
  BY <1>1, AppendFacts DEF IInv, TypeOK

\* Every step keeps the types.
LEMMA TypeStep == IInv /\ [Next]_vars => TypeOK'
<1> SUFFICES ASSUME IInv, [Next]_vars
             PROVE  TypeOK'
  OBVIOUS
<1> USE KafkaProducerAssumption
    DEF TypeOK, ClientStates, processVars, callVars, brokerVars
<1>1. TypeOK
  BY DEF IInv
<1>2. CASE Start
  <2> USE <1>2 DEF Start
  <2>1. PICK n \in 1..MaxBatch : /\ fed + n <= MaxMessages
                                 /\ call' = NextMessages(fed, n)
                                 /\ calls' = calls \cup {NextMessages(fed, n)}
                                 /\ fed' = fed + n
    OBVIOUS
  <2>2. call' \in Seq(Messages) /\ Len(call') = n
    BY <1>1, <2>1, NextMessagesType
  <2>3. fed' \in 0..MaxMessages
    BY <1>1, <2>1
  <2>4. \A c \in calls' : c \in Seq(Messages)
    BY <1>1, <2>1, <2>2
  <2>5. acked' \in 0..Len(call')
    BY <2>2
  <2> QED
    BY <1>1, <2>2, <2>3, <2>4, <2>5
<1>3. CASE BeginOk
  BY <1>1, <1>3 DEF BeginOk
<1>4. CASE BeginErr
  BY <1>1, <1>4 DEF BeginErr, Return
<1>5. CASE SendOk
  BY <1>1, <1>5, NextToSend DEF SendOk
<1>6. CASE SendErr
  BY <1>1, <1>6, NextToSend DEF SendErr
<1>7. CASE AbortOk
  BY <1>1, <1>7, EmptyFacts DEF AbortOk, Return
<1>8. CASE AbortErr
  BY <1>1, <1>8 DEF AbortErr, Return
<1>9. CASE CommitOk
  BY <1>1, <1>9, EmptyFacts, ConcatFacts, RangeMember DEF CommitOk, Return
<1>10. CASE CommitErr
  BY <1>1, <1>10 DEF CommitErr, Return
<1>11. CASE LateCommit
  BY <1>1, <1>11, EmptyFacts, ConcatFacts DEF LateCommit
<1>12. CASE TransactionTimeout
  BY <1>1, <1>12, EmptyFacts DEF TransactionTimeout
<1>13. CASE Crash
  BY <1>1, <1>13 DEF Crash
<1>14. CASE NewProducer
  <2>1. log \o open \in Seq(Messages)
    BY <1>1, ConcatFacts
  <2>2. log' = log \/ log' = log \o open
    BY <1>14 DEF NewProducer
  <2>3. log' \in Seq(Messages) /\ open' \in Seq(Messages)
    BY <1>1, <1>14, <2>1, <2>2, EmptyFacts DEF NewProducer
  <2>4. launches' \in 1..MaxLaunches
    BY <1>1, <1>14 DEF NewProducer
  <2> QED
    BY <1>1, <1>14, <2>3, <2>4 DEF NewProducer
<1>15. CASE UNCHANGED vars
  BY <1>1, <1>15 DEF vars
<1> QED
  BY <1>2, <1>3, <1>4, <1>5, <1>6, <1>7, <1>8, <1>9, <1>10, <1>11, <1>12, <1>13, <1>14,
     <1>15
  DEF Next, PublishStep, Stopped

\* The transaction that a commit request asks for is the whole call.
LEMMA CommitsTheCall ==
  ASSUME IInv, pc = "Commit", ~fenced
  PROVE  open = call /\ call \in calls /\ call # <<>> /\ ~inflight
<1>1. open \in Seq(Messages) /\ call \in Seq(Messages)
  BY DEF IInv, TypeOK
<1>2. Len(open) = Len(call) /\ \A i \in 1..Len(open) : open[i] = call[i]
  BY DEF IInv, CallInv, HeldInv
<1>3. open = call
  BY <1>1, <1>2, SeqEqual
<1> QED
  BY <1>3 DEF IInv, CallInv, ClientInv

\* Client and broker only move between the states that calls lead to.
LEMMA ClientStep == IInv /\ [Next]_vars => ClientInv'
<1> SUFFICES ASSUME IInv, [Next]_vars
             PROVE  ClientInv'
  OBVIOUS
<1> USE DEF ClientInv, processVars, callVars, brokerVars
<1>1. TypeOK /\ ClientInv
  BY DEF IInv
<1>2. CASE Start
  BY <1>1, <1>2 DEF Start
<1>3. CASE BeginOk
  BY <1>1, <1>3 DEF BeginOk
<1>4. CASE BeginErr
  BY <1>1, <1>4 DEF BeginErr, Return
<1>5. CASE SendOk \/ SendErr
  BY <1>1, <1>5, NextToSend DEF SendOk, SendErr
<1>6. CASE AbortOk
  BY <1>1, <1>6 DEF AbortOk, Return
<1>7. CASE AbortErr
  BY <1>1, <1>7 DEF AbortErr, Return
<1>8. CASE CommitOk
  BY <1>1, <1>8 DEF CommitOk, Return
<1>9. CASE CommitErr
  <2>1. inflight' => open' # <<>> /\ ~fenced' /\ client' = "CommitUnacked"
    BY <1>1, <1>9, CommitsTheCall DEF CommitErr
  <2> QED
    BY <1>1, <1>9, <2>1 DEF CommitErr, Return
<1>10. CASE LateCommit \/ TransactionTimeout
  BY <1>1, <1>10 DEF LateCommit, TransactionTimeout
<1>11. CASE Crash
  BY <1>1, <1>11, CommitsTheCall DEF Crash
<1>12. CASE NewProducer
  BY <1>1, <1>12 DEF NewProducer
<1>13. CASE UNCHANGED vars
  BY <1>1, <1>13 DEF vars
<1> QED
  BY <1>2, <1>3, <1>4, <1>5, <1>6, <1>7, <1>8, <1>9, <1>10, <1>11, <1>12, <1>13
  DEF Next, PublishStep, Stopped

\* A call of the next messages shares none with what was handed over before.
LEMMA NewCall ==
  ASSUME TypeOK, NEW n \in 1..MaxBatch, fed + n <= MaxMessages
  PROVE  LET new == NextMessages(fed, n)
         IN  /\ new # <<>> /\ Increasing(new) /\ UpTo(new, fed + n)
             /\ \A s \in Seq(Messages) :
                  UpTo(s, fed) => /\ Before(s, new) /\ UpTo(s, fed + n)
                                  /\ Range(s) \cap Range(new) = {}
<1> DEFINE new == NextMessages(fed, n)
<1>1. /\ new \in Seq(Messages) /\ Len(new) = n
      /\ \A i \in 1..n : new[i] = fed + i
  BY NextMessagesType DEF TypeOK
<1>2. n \in Nat \ {0} /\ fed \in Nat
  BY KafkaProducerAssumption DEF TypeOK
<1> HIDE DEF new
<1>3. new # <<>> /\ Increasing(new) /\ UpTo(new, fed + n)
  BY <1>1, <1>2 DEF Increasing, UpTo
<1>4. ASSUME NEW s \in Seq(Messages), UpTo(s, fed)
      PROVE  /\ Before(s, new) /\ UpTo(s, fed + n)
             /\ Range(s) \cap Range(new) = {}
  <2>1. \A i \in 1..Len(s) : s[i] \in Int /\ s[i] <= fed
    BY <1>4, ElementOfSeq, MessagesAreNumbers DEF UpTo
  <2>2. Before(s, new) /\ UpTo(s, fed + n)
    BY <1>1, <1>2, <2>1 DEF Before, UpTo
  <2>3. \A i \in 1..Len(s), j \in 1..Len(new) : s[i] # new[j]
    BY <1>1, <1>2, <2>1
  <2>4. Range(s) \cap Range(new) = {}
    BY <1>1, <2>3, RangeMember
  <2> QED
    BY <2>2, <2>4
<1> QED
  BY <1>3, <1>4 DEF new

\* A call takes new messages, and sends them one after the other.
LEMMA CallStep == IInv /\ [Next]_vars => CallInv'
<1> SUFFICES ASSUME IInv, [Next]_vars
             PROVE  CallInv'
  OBVIOUS
<1> USE DEF CallInv, processVars, callVars, brokerVars
<1>1. TypeOK /\ CallInv
  BY DEF IInv
<1>2. CASE Start
  <2>1. PICK n \in 1..MaxBatch : /\ fed + n <= MaxMessages
                                 /\ call' = NextMessages(fed, n)
                                 /\ calls' = calls \cup {NextMessages(fed, n)}
                                 /\ fed' = fed + n
    BY <1>2 DEF Start
  <2>2. /\ call' # <<>> /\ Increasing(call') /\ UpTo(call', fed')
        /\ \A c \in calls : UpTo(c, fed') /\ Range(c) \cap Range(call') = {}
    BY <1>1, <2>1, NewCall DEF TypeOK
  <2>3. \A c, d \in calls' : c = d \/ Range(c) \cap Range(d) = {}
    BY <1>1, <2>1, <2>2
  <2> QED
    BY <1>2, <2>1, <2>2, <2>3 DEF Start
<1>3. CASE BeginOk
  <2>1. Len(call) > 0
    BY <1>1, <1>3 DEF BeginOk, TypeOK
  <2> QED
    BY <1>1, <1>3, <2>1 DEF BeginOk
<1>4. CASE SendOk
  <2>1. acked + 1 <= Len(call) /\ Len(call) \in Nat /\ acked \in Nat
    BY <1>4, NextToSend DEF SendOk, IInv, TypeOK
  <2> QED
    BY <1>1, <1>4, <2>1 DEF SendOk
<1>5. CASE SendErr
  BY <1>1, <1>5 DEF SendErr
<1>6. CASE BeginErr \/ AbortOk \/ AbortErr \/ CommitOk \/ CommitErr
  BY <1>1, <1>6 DEF BeginErr, AbortOk, AbortErr, CommitOk, CommitErr, Return
<1>7. CASE LateCommit \/ TransactionTimeout
  BY <1>1, <1>7 DEF LateCommit, TransactionTimeout
<1>8. CASE Crash
  BY <1>1, <1>8 DEF Crash
<1>9. CASE NewProducer
  BY <1>1, <1>9 DEF NewProducer
<1>10. CASE UNCHANGED vars
  BY <1>1, <1>10 DEF vars
<1> QED
  BY <1>2, <1>3, <1>4, <1>5, <1>6, <1>7, <1>8, <1>9, <1>10
  DEF Next, PublishStep, Stopped

\* The broker holds what it acked of the call, or has given it up.
LEMMA HeldStep == IInv /\ [Next]_vars => HeldInv'
<1> SUFFICES ASSUME IInv, [Next]_vars
             PROVE  HeldInv'
  OBVIOUS
<1> USE DEF HeldInv, processVars, callVars, brokerVars
<1>1. TypeOK /\ ClientInv /\ CallInv /\ HeldInv
  BY DEF IInv
<1>2. CASE Start
  BY <1>1, <1>2 DEF Start
<1>3. CASE BeginOk
  <2>1. open = <<>> /\ acked = 0
    BY <1>1, <1>3 DEF BeginOk, ClientInv, CallInv
  <2> QED
    BY <1>1, <1>3, <2>1, EmptyFacts DEF BeginOk
<1>4. CASE SendOk
  <2>1. /\ open \in Seq(Messages) /\ Len(open) = acked
        /\ \A i \in 1..acked : open[i] = call[i]
    BY <1>1, <1>4 DEF SendOk, TypeOK
  <2>2. /\ Len(open') = acked' /\ open'[acked'] = call[acked']
        /\ \A i \in 1..acked : open'[i] = call[i]
    BY <1>4, <2>1, NextToSend, AppendFacts DEF SendOk
  <2>3. \A i \in 1..acked' : open'[i] = call'[i]
    BY <1>1, <1>4, <2>2 DEF SendOk, TypeOK
  <2>4. ~inflight /\ ~fenced
    BY <1>1, <1>4 DEF SendOk, ClientInv
  <2> QED
    BY <1>4, <2>2, <2>3, <2>4 DEF SendOk
<1>5. CASE SendErr
  BY <1>1, <1>5 DEF SendErr, ClientInv
<1>6. CASE BeginErr \/ AbortErr
  <2>1. pc' = "Idle" /\ UNCHANGED <<open, inflight, fenced, calls>>
    BY <1>6 DEF BeginErr, AbortErr, Return
  <2> QED
    BY <1>1, <2>1
<1>7. CASE AbortOk \/ CommitOk
  <2>1. pc' = "Idle" /\ open' = <<>> /\ UNCHANGED <<inflight, fenced, calls>>
    BY <1>7 DEF AbortOk, CommitOk, Return
  <2>2. ~inflight
    BY <1>1, <1>7 DEF AbortOk, CommitOk, ClientInv
  <2> QED
    BY <1>1, <2>1, <2>2
<1>8. CASE CommitErr
  <2>1. pc' = "Idle" /\ UNCHANGED <<open, fenced, calls>>
    BY <1>8 DEF CommitErr, Return
  <2>2. inflight' => ~fenced /\ ~inflight
    BY <1>1, <1>8 DEF CommitErr, ClientInv
  <2> QED
    BY <1>1, <1>8, <2>1, <2>2, CommitsTheCall DEF CommitErr
<1>9. CASE LateCommit
  BY <1>1, <1>9 DEF LateCommit, ClientInv
<1>10. CASE TransactionTimeout
  BY <1>1, <1>10 DEF TransactionTimeout
<1>11. CASE Crash
  BY <1>1, <1>11, CommitsTheCall DEF Crash
<1>12. CASE NewProducer
  BY <1>1, <1>12 DEF NewProducer, ClientInv
<1>13. CASE UNCHANGED vars
  BY <1>1, <1>13 DEF vars
<1> QED
  BY <1>2, <1>3, <1>4, <1>5, <1>6, <1>7, <1>8, <1>9, <1>10, <1>11, <1>12, <1>13
  DEF Next, PublishStep, Stopped

\* One more message of the call in progress keeps the broker's part in order.
LEMMA SendKeepsOrder ==
  ASSUME IInv, pc = "Send", ~fenced
  PROVE  LET s == Append(open, call[acked + 1])
         IN  Increasing(s) /\ UpTo(s, fed) /\ Before(log, s)
<1> DEFINE s == Append(open, call[acked + 1])
<1>1. /\ open \in Seq(Messages) /\ Len(open) = acked
      /\ \A i \in 1..acked : open[i] = call[i]
  BY DEF IInv, TypeOK, HeldInv
<1>2. /\ Len(s) = acked + 1 /\ s[acked + 1] = call[acked + 1]
      /\ \A i \in 1..acked : s[i] = open[i]
  BY <1>1, NextToSend, AppendFacts
<1>3. acked \in Nat /\ Len(call) \in Nat /\ acked + 1 <= Len(call)
  BY NextToSend DEF IInv, TypeOK
<1> HIDE DEF s
<1>4. \A i \in 1..Len(s) : s[i] = call[i] /\ i \in 1..Len(call)
  BY <1>1, <1>2, <1>3
<1>5. Increasing(call) /\ UpTo(call, fed) /\ Before(log, call)
  BY DEF IInv, CallInv, OrderInv
<1> QED
  <2>1. Increasing(s)
    BY <1>4, <1>5 DEF Increasing
  <2>2. UpTo(s, fed)
    BY <1>4, <1>5 DEF UpTo
  <2>3. Before(log, s)
    BY <1>4, <1>5 DEF Before
  <2> QED
    BY <2>1, <2>2, <2>3 DEF s

\* Whatever is committed next keeps the log in order.
LEMMA CommitKeepsOrder ==
  ASSUME TypeOK, OrderInv
  PROVE  /\ Increasing(log \o open) /\ UpTo(log \o open, fed)
         /\ Before(log, call) /\ Before(open, call) => Before(log \o open, call)
  BY ConcatFacts DEF TypeOK, OrderInv

\* What is committed, or may be, stays before what is still to be sent.
LEMMA OrderStep == IInv /\ [Next]_vars => OrderInv'
<1> SUFFICES ASSUME IInv, [Next]_vars
             PROVE  OrderInv'
  OBVIOUS
<1> USE DEF OrderInv, processVars, callVars, brokerVars
<1>1. TypeOK /\ ClientInv /\ CallInv /\ HeldInv /\ OrderInv
  BY DEF IInv
<1>2. CASE Start
  <2>1. PICK n \in 1..MaxBatch : /\ fed + n <= MaxMessages
                                 /\ call' = NextMessages(fed, n)
                                 /\ fed' = fed + n
    BY <1>2 DEF Start
  <2>2. /\ UpTo(log, fed') /\ Before(log, call')
        /\ UpTo(open, fed') /\ Before(open, call')
    BY <1>1, <2>1, NewCall DEF TypeOK
  <2> QED
    BY <1>1, <1>2, <2>2 DEF Start
<1>3. CASE BeginOk
  BY <1>1, <1>3 DEF BeginOk
<1>4. CASE SendOk \/ SendErr
  <2>1. /\ pc = "Send" /\ pc' # "Begin" /\ UNCHANGED <<log, call, fed>>
        /\ open' = open \/ (~fenced /\ open' = Append(open, call[acked + 1]))
    BY <1>4 DEF SendOk, SendErr
  <2>2. Increasing(open') /\ UpTo(open', fed) /\ Before(log, open')
    BY <1>1, <2>1, SendKeepsOrder DEF IInv
  <2> QED
    BY <1>1, <2>1, <2>2
<1>5. CASE BeginErr \/ AbortErr \/ CommitErr
  <2>1. pc' = "Idle" /\ UNCHANGED <<log, open, call, fed>>
    BY <1>5 DEF BeginErr, AbortErr, CommitErr, Return
  <2> QED
    BY <1>1, <2>1
<1>6. CASE AbortOk
  <2>1. pc' = "Idle" /\ open' = <<>> /\ UNCHANGED <<log, call, fed>>
    BY <1>6 DEF AbortOk, Return
  <2> QED
    BY <1>1, <2>1, EmptyFacts
<1>7. CASE CommitOk
  <2>1. pc' = "Idle" /\ log' = log \o open /\ open' = <<>> /\ UNCHANGED <<call, fed>>
    BY <1>7 DEF CommitOk, Return
  <2> QED
    BY <1>1, <2>1, CommitKeepsOrder, EmptyFacts
<1>8. CASE LateCommit
  <2>1. log' = log \o open /\ open' = <<>> /\ UNCHANGED <<pc, call, fed>>
    BY <1>8 DEF LateCommit
  <2>2. pc \in {"Idle", "Begin"}
    BY <1>1, <1>8 DEF LateCommit, ClientInv, TypeOK
  <2>3. pc' # "Idle" => Before(log', call')
    BY <1>1, <2>1, <2>2, CommitKeepsOrder
  <2> QED
    BY <1>1, <2>1, <2>3, CommitKeepsOrder, EmptyFacts
<1>9. CASE TransactionTimeout
  BY <1>1, <1>9, EmptyFacts DEF TransactionTimeout
<1>10. CASE Crash
  BY <1>1, <1>10 DEF Crash
<1>11. CASE NewProducer
  <2>1. /\ pc' = "Idle" /\ open' = <<>> /\ UNCHANGED <<call, fed>>
        /\ log' = log \/ log' = log \o open
    BY <1>1, <1>11 DEF NewProducer, ClientInv
  <2> QED
    BY <1>1, <2>1, CommitKeepsOrder, EmptyFacts
<1>12. CASE UNCHANGED vars
  BY <1>1, <1>12 DEF vars
<1> QED
  BY <1>2, <1>3, <1>4, <1>5, <1>6, <1>7, <1>8, <1>9, <1>10, <1>11, <1>12
  DEF Next, PublishStep, Stopped

\* Every step preserves the invariant.
LEMMA IInvStep == IInv /\ [Next]_vars => IInv'
  BY TypeStep, ClientStep, CallStep, HeldStep, OrderStep DEF IInv

-----------------------------------------------------------------------------
(* The theorems.                                                            *)

\* The inductive invariant holds in every reachable state: among other things
\* the client is Ready only when the broker holds nothing of it, and a commit
\* that may still land belongs to a client that will not begin another.
THEOREM IInvCorrect == Spec => []IInv
  BY InitIInv, IInvStep, PTL DEF Spec

\* A deploy is committed at most once and in the order of the feed, whatever
\* commits are unknown, transactions time out and processes die.
THEOREM CommittedInOrderCorrect == Spec => []CommittedInOrder
<1>1. IInv => CommittedInOrder
  BY DEF IInv, OrderInv, CommittedInOrder
<1> QED
  BY <1>1, IInvCorrect, PTL

\* What a step appends to the log, if it does: all that the broker holds, and
\* that is a whole call.
LEMMA LogStep ==
  IInv /\ [Next]_vars =>
    \/ log' = log
    \/ open \in calls /\ calls' = calls /\ log' = log \o open
<1> SUFFICES ASSUME IInv, [Next]_vars, log' # log
             PROVE  open \in calls /\ calls' = calls /\ log' = log \o open
  OBVIOUS
<1> USE DEF callVars, brokerVars
<1>1. CASE CommitOk
  BY <1>1, CommitsTheCall DEF CommitOk
<1>2. CASE LateCommit
  BY <1>2 DEF LateCommit, IInv, HeldInv
<1>3. CASE NewProducer
  BY <1>3 DEF NewProducer, IInv, HeldInv
<1> QED
  BY <1>1, <1>2, <1>3
  DEF Next, PublishStep, Stopped, vars, Start, BeginOk, BeginErr, SendOk, SendErr,
      AbortOk, AbortErr, CommitErr, TransactionTimeout, Crash

\* A call adds its messages to the calls made, and none of them is committed.
LEMMA CallsStep ==
  IInv /\ [Next]_vars =>
    \A c \in calls' :
      c \in calls \/ (log' = log /\ Range(c) \cap Range(log) = {})
<1> SUFFICES ASSUME IInv, [Next]_vars, NEW c \in calls', c \notin calls
             PROVE  log' = log /\ Range(c) \cap Range(log) = {}
  OBVIOUS
<1> USE DEF callVars, brokerVars
<1>1. Start
  BY DEF Next, PublishStep, Stopped, vars, BeginOk, BeginErr, SendOk, SendErr,
         AbortOk, AbortErr, CommitOk, CommitErr, LateCommit, TransactionTimeout,
         Crash, NewProducer
<1>2. PICK n \in 1..MaxBatch : /\ fed + n <= MaxMessages
                               /\ c = NextMessages(fed, n)
  BY <1>1 DEF Start
<1>3. Range(log) \cap Range(c) = {}
  BY <1>2, NewCall DEF IInv, TypeOK, OrderInv
<1> QED
  BY <1>1, <1>3 DEF Start

\* The doc of publish_batch, "Either all messages are committed or none", is
\* true of every call at every moment.
THEOREM BatchIsAtomicCorrect == Spec => []BatchIsAtomic
<1>1. Init => BatchIsAtomic
  BY DEF Init, BatchIsAtomic
<1>2. IInv /\ BatchIsAtomic /\ [Next]_vars => BatchIsAtomic'
  <2> SUFFICES ASSUME IInv, BatchIsAtomic, [Next]_vars, NEW c \in calls'
               PROVE  \/ Range(c) \subseteq Range(log')
                      \/ Range(c) \cap Range(log') = {}
    BY DEF BatchIsAtomic
  <2>1. CASE log' = log
    BY <2>1, CallsStep DEF BatchIsAtomic
  <2>2. CASE log' # log
    <3>1. open \in calls /\ calls' = calls /\ log' = log \o open
      BY <2>2, LogStep
    <3>2. Range(log') = Range(log) \cup Range(open)
      BY <3>1, RangeConcat DEF IInv, TypeOK
    <3>3. c = open \/ Range(c) \cap Range(open) = {}
      BY <3>1 DEF IInv, CallInv
    <3> QED
      BY <3>1, <3>2, <3>3 DEF BatchIsAtomic
  <2> QED
    BY <2>1, <2>2
<1> QED
  BY <1>1, <1>2, IInvCorrect, PTL DEF Spec

\* A producer that can never begin a transaction again has kafka_connected
\* FALSE from the end of the call that left it so.
THEOREM WedgeIsReportedCorrect == Spec => []WedgeIsReported
<1>1. Init => WedgeIsReported
  BY DEF Init, WedgeIsReported
<1>2. IInv /\ WedgeIsReported /\ [Next]_vars => WedgeIsReported'
  <2> SUFFICES ASSUME IInv, WedgeIsReported, [Next]_vars
               PROVE  WedgeIsReported'
    OBVIOUS
  <2> USE DEF WedgeIsReported, processVars, callVars
  <2>1. CASE Start \/ BeginOk \/ SendOk \/ SendErr
    <3>1. pc' # "Idle"
      BY <2>1 DEF Start, BeginOk, SendOk, SendErr
    <3> QED
      BY <3>1
  <2>2. CASE BeginErr \/ AbortErr \/ CommitErr
    <3>1. kafkaConnected' = (IF Len(call) = 1 THEN FALSE ELSE kafkaConnected)
          /\ call' = call
      BY <2>2 DEF BeginErr, AbortErr, CommitErr, Return
    <3> QED
      BY <3>1
  <2>3. CASE AbortOk \/ CommitOk \/ NewProducer
    <3>1. client' = "Ready"
      BY <2>3 DEF AbortOk, CommitOk, NewProducer
    <3> QED
      BY <3>1
  <2>4. CASE LateCommit \/ TransactionTimeout
    BY <2>4 DEF LateCommit, TransactionTimeout
  <2>5. CASE Crash
    BY <2>5 DEF Crash
  <2>6. CASE UNCHANGED vars
    BY <2>6 DEF vars
  <2> QED
    BY <2>1, <2>2, <2>3, <2>4, <2>5, <2>6 DEF Next, PublishStep, Stopped
<1> QED
  BY <1>1, <1>2, IInvCorrect, PTL DEF Spec

-----------------------------------------------------------------------------
(* The refinement of Publisher, one action at a time.                       *)

\* The first launch maps to the empty log of Publisher.
LEMMA AbstractInit == Init => Abstract!Init
  BY DEF Init, Abstract!Init

\* Handing over the next messages is the start of an abstract call.
LEMMA StartRefines == IInv /\ Start => Abstract!Start
<1> SUFFICES ASSUME IInv, Start
             PROVE  Abstract!Start
  OBVIOUS
<1> USE DEF Start, brokerVars
<1>1. PICK n \in 1..MaxBatch : /\ fed + n <= MaxMessages
                               /\ call' = NextMessages(fed, n)
                               /\ fed' = fed + n
  OBVIOUS
<1>2. call' = Abstract!NextMessages(fed, n)
  BY <1>1 DEF NextMessages, Abstract!NextMessages
<1> QED
  BY <1>1, <1>2 DEF Abstract!Start

\* The steps before the last of a call are steps of no abstract call: nothing
\* is unsure while a transaction of this client is open.
LEMMA InnerStepsStutter ==
  IInv /\ (BeginOk \/ SendOk \/ SendErr) => UNCHANGED Abstract!vars
<1> SUFFICES ASSUME IInv, BeginOk \/ SendOk \/ SendErr
             PROVE  UNCHANGED Abstract!vars
  OBVIOUS
<1>1. /\ pc # "Idle" /\ pc' # "Idle" /\ UNCHANGED <<fed, call, inflight, log, okSet>>
      /\ ~inflight
  BY DEF BeginOk, SendOk, SendErr, callVars, brokerVars, IInv, ClientInv
<1> QED
  BY <1>1 DEF Abstract!vars

\* A call that commits is an abstract success: it appends its own messages.
LEMMA CommitRefines == IInv /\ CommitOk => Abstract!Succeed
<1> SUFFICES ASSUME IInv, CommitOk
             PROVE  Abstract!Succeed
  OBVIOUS
<1>1. open = call /\ call # <<>> /\ ~inflight
  BY CommitsTheCall DEF CommitOk
<1>2. /\ pc = "Commit" /\ pc' = "Idle" /\ inflight' = inflight
      /\ log' = log \o open /\ okSet' = okSet \cup Range(call) /\ fed' = fed
  BY DEF CommitOk, Return, callVars
<1>3. Range(call) = Abstract!Range(call)
  BY DEF Range, Abstract!Range
<1> QED
  BY <1>1, <1>2, <1>3 DEF Abstract!Succeed

\* A call that returns an error is an abstract failure, which leaves its
\* messages unsure only when its commit may still land.
LEMMA ErrorRefines ==
  IInv /\ (BeginErr \/ AbortOk \/ AbortErr \/ CommitErr) => Abstract!Fail
<1> SUFFICES ASSUME IInv, BeginErr \/ AbortOk \/ AbortErr \/ CommitErr
             PROVE  Abstract!Fail
  OBVIOUS
<1>1. /\ pc # "Idle" /\ pc' = "Idle" /\ call # <<>>
      /\ UNCHANGED <<fed, log, okSet>>
  BY DEF BeginErr, AbortOk, AbortErr, CommitErr, Return, callVars, brokerVars,
         IInv, CallInv
<1>2. CASE BeginErr \/ AbortErr
  <2>1. UNCHANGED <<inflight, open>>
    BY <1>2 DEF BeginErr, AbortErr, brokerVars
  <2> QED
    BY <1>1, <2>1 DEF Abstract!Fail
<1>3. CASE AbortOk
  <2>1. ~inflight /\ ~inflight'
    BY <1>3 DEF AbortOk, IInv, ClientInv
  <2> QED
    BY <1>1, <2>1 DEF Abstract!Fail
<1>4. CASE CommitErr
  <2>1. ~inflight /\ open' = open
    BY <1>4 DEF CommitErr, IInv, ClientInv
  <2>2. inflight' => ~fenced
    BY <1>4, <2>1 DEF CommitErr, IInv, TypeOK
  <2>3. inflight' => open = call
    BY <1>4, <2>2, CommitsTheCall DEF CommitErr
  <2> QED
    BY <1>1, <2>1, <2>3 DEF Abstract!Fail
<1> QED
  BY <1>2, <1>3, <1>4

\* A late commit lands what was unsure; the coordinator's timeout loses it.
LEMMA CoordinatorRefines ==
  /\ IInv /\ LateCommit => Abstract!Land
  /\ IInv /\ TransactionTimeout => Abstract!Lose \/ UNCHANGED Abstract!vars
<1>1. ASSUME IInv, LateCommit
      PROVE  Abstract!Land
  <2>1. open # <<>>
    BY <1>1 DEF LateCommit, IInv, ClientInv
  <2> QED
    BY <1>1, <2>1 DEF LateCommit, Abstract!Land, callVars
<1>2. ASSUME IInv, TransactionTimeout
      PROVE  Abstract!Lose \/ UNCHANGED Abstract!vars
  BY <1>2 DEF TransactionTimeout, Abstract!Lose, Abstract!vars, callVars
<1> QED
  BY <1>1, <1>2

\* A death fails the call in progress, whose commit may be on the wire.
LEMMA CrashRefines == IInv /\ Crash => Abstract!Fail \/ UNCHANGED Abstract!vars
<1> SUFFICES ASSUME IInv, Crash
             PROVE  Abstract!Fail \/ UNCHANGED Abstract!vars
  OBVIOUS
<1>1. pc' = "Idle" /\ UNCHANGED <<fed, call, open, log, okSet>>
  BY DEF Crash, callVars
<1>2. \/ inflight' = inflight
      \/ inflight' = TRUE /\ pc = "Commit" /\ ~fenced
  BY DEF Crash
<1>3. CASE pc = "Idle"
  BY <1>1, <1>2, <1>3 DEF Abstract!vars
<1>4. CASE pc # "Idle" /\ inflight' = inflight
  <2>1. call # <<>>
    BY <1>4 DEF IInv, CallInv
  <2> QED
    BY <1>1, <1>4, <2>1 DEF Abstract!Fail
<1>5. CASE inflight' = TRUE /\ pc = "Commit" /\ ~fenced
  <2>1. open = call /\ call # <<>> /\ ~inflight
    BY <1>5, CommitsTheCall
  <2> QED
    BY <1>1, <1>5, <2>1 DEF Abstract!Fail
<1> QED
  BY <1>2, <1>3, <1>4, <1>5

\* init_transactions of the next producer settles what was unsure.
LEMMA NewProducerRefines ==
  IInv /\ NewProducer => Abstract!Land \/ Abstract!Lose \/ UNCHANGED Abstract!vars
<1> SUFFICES ASSUME IInv, NewProducer
             PROVE  Abstract!Land \/ Abstract!Lose \/ UNCHANGED Abstract!vars
  OBVIOUS
<1>1. /\ pc = "Idle" /\ pc' = "Idle" /\ inflight' = FALSE /\ UNCHANGED <<fed, okSet>>
      /\ log' = log \/ (inflight /\ log' = log \o open)
      /\ inflight => open # <<>>
  BY DEF NewProducer, callVars, IInv, ClientInv
<1>2. CASE ~inflight
  BY <1>1, <1>2 DEF Abstract!vars
<1>3. CASE inflight /\ log' = log
  BY <1>1, <1>3 DEF Abstract!Lose
<1>4. CASE inflight /\ log' = log \o open
  BY <1>1, <1>4 DEF Abstract!Land
<1> QED
  BY <1>1, <1>2, <1>3, <1>4

\* Every step maps to a step of Publisher, or to none.
LEMMA StepRefines == IInv /\ [Next]_vars => [Abstract!Next]_(Abstract!vars)
<1> SUFFICES ASSUME IInv, [Next]_vars
             PROVE  Abstract!Next \/ UNCHANGED Abstract!vars
  OBVIOUS
<1>1. CASE UNCHANGED vars
  BY <1>1 DEF vars, callVars, brokerVars, Abstract!vars
<1>2. CASE Next
  BY <1>1, <1>2, StartRefines, InnerStepsStutter, CommitRefines, ErrorRefines,
     CoordinatorRefines, CrashRefines, NewProducerRefines
  DEF Next, PublishStep, Stopped, Abstract!Next
<1> QED
  BY <1>1, <1>2

\* LaunchpadProducer implements the ordered, at-most-once log of Publisher:
\* every call of publish or publish_batch ends with its messages appended
\* together, dropped, or unsure, and what is unsure lands, or is lost, before
\* a later call can succeed.
THEOREM ImplementsPublisherCorrect == Spec => ImplementsPublisher
<1>1. Spec => Abstract!Init /\ [][Abstract!Next]_(Abstract!vars)
  BY AbstractInit, StepRefines, IInvCorrect, PTL DEF Spec
<1> QED
  BY <1>1 DEF ImplementsPublisher, Abstract!Spec

=============================================================================
