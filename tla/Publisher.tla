------------------------------ MODULE Publisher ------------------------------
(***************************************************************************)
(* What LaunchpadProducer promises: an ordered, at-most-once log.  A call  *)
(* hands over the next messages of the feed.  It ends with Ok, and they    *)
(* are in the log together, or with an error.  The outcome of at most one  *)
(* failed call is unknown at a time: its messages may land later, together *)
(* or not at all, but never after those of a later call.                   *)
(***************************************************************************)
EXTENDS Integers, Sequences, Functions

CONSTANTS
  MaxMessages,  \* bound: messages of the feed
  MaxBatch      \* bound: messages of one call

VARIABLES
  fed,      \* messages handed over so far: 1..fed
  current,  \* messages of the call in progress, <<>> when there is none
  unsure,   \* messages of a failed call that may still land
  log,      \* what a read_committed consumer reads
  okSet     \* messages of the calls that ended with Ok

vars == <<fed, current, unsure, log, okSet>>

\* The next n messages after the first m.
NextMessages(m, n) == [i \in 1..n |-> m + i]

Init ==
  /\ fed = 0
  /\ current = <<>>
  /\ unsure = <<>>
  /\ log = <<>>
  /\ okSet = {}

Start ==
  /\ current = <<>>
  /\ \E n \in 1..MaxBatch :
       /\ fed + n <= MaxMessages
       /\ current' = NextMessages(fed, n)
       /\ fed' = fed + n
  /\ UNCHANGED <<unsure, log, okSet>>

Succeed ==
  /\ current # <<>>
  /\ unsure = <<>>
  /\ log' = log \o current
  /\ okSet' = okSet \cup Range(current)
  /\ current' = <<>>
  /\ UNCHANGED <<fed, unsure>>

\* The call failed, or the process died during it.
Fail ==
  /\ current # <<>>
  /\ \/ UNCHANGED unsure
     \/ unsure = <<>> /\ unsure' = current
  /\ current' = <<>>
  /\ UNCHANGED <<fed, log, okSet>>

Land ==
  /\ unsure # <<>>
  /\ log' = log \o unsure
  /\ unsure' = <<>>
  /\ UNCHANGED <<fed, current, okSet>>

Lose ==
  /\ unsure # <<>>
  /\ unsure' = <<>>
  /\ UNCHANGED <<fed, current, log, okSet>>

Next == Start \/ Succeed \/ Fail \/ Land \/ Lose

Spec == Init /\ [][Next]_vars

=============================================================================
