--------------------------- MODULE BackfillProofs ---------------------------
(***************************************************************************)
(* A backfill with regular arguments prints every deploy of its inclusive  *)
(* range exactly once, for every width of block numbers, range, page size  *)
(* and chain.                                                              *)
(***************************************************************************)
EXTENDS Backfill, TLAPS

\* Reducing a number that is already a block number changes nothing: the
\* wrapping of the release profile is not seen where no sum leaves u64.
LEMMA ModSmall == \A a \in Blocks : a % Limit = a
  BY BackfillAssumption DEF Blocks

\* Reducing any integer gives a block number.
LEMMA ModInBlocks == \A a \in Int : a % Limit \in Blocks
  BY BackfillAssumption DEF Blocks

\* A page keeps the types: wrapped sums included, `start` stays a u64.
LEMMA TypeNext == TypeOK /\ [Next]_vars => TypeOK'
<1> SUFFICES ASSUME TypeOK, [Next]_vars PROVE TypeOK'
  OBVIOUS
<1> USE DEF TypeOK
<1>1. CASE LatestError \/ CheckRange
  BY <1>1 DEF LatestError, CheckRange, args
<1>2. CASE Page
  <2>1. start + pageSize - 1 \in Int /\ to \in Int
    BY BackfillAssumption DEF Blocks
  <2>2. PageEnd + 1 \in Int
    BY <2>1, ModInBlocks DEF PageEnd, LeastOf, Blocks
  <2>3. NextStart \in Blocks
    BY <2>2, ModInBlocks DEF NextStart
  <2>4. printed' \in [Blocks -> 0..2]
    BY <1>2 DEF Page, LeastOf
  <2> QED
    BY <1>2, <2>3, <2>4 DEF Page, args
<1>3. CASE PageOverflow
  BY <1>3 DEF PageOverflow, args
<1>4. CASE PageError
  BY <1>4 DEF PageError, args
<1>5. CASE Complete
  BY <1>5 DEF Complete, args
<1>6. CASE Ended \/ UNCHANGED vars
  BY <1>6 DEF Ended, vars, args
<1> QED
  BY <1>1, <1>2, <1>3, <1>4, <1>5, <1>6 DEF Next

\* Every variable keeps its type, whatever the arguments and the profile.
THEOREM TypeCorrect == Spec => []TypeOK
<1>1. Init => TypeOK
  BY DEF Init, TypeOK
<1> QED
  BY <1>1, TypeNext, PTL DEF Spec

-----------------------------------------------------------------------------
\* The loop's invariant for regular arguments: `start` lies in the range or
\* one past its end, which is where it is when the loop is left.
LoopInv ==
  Regular =>
    /\ pc = "Check" => start = from /\ \A b \in Blocks : printed[b] = 0
    /\ pc \in {"Page", "Done"} => from <= to
    /\ from <= to => from <= start /\ start <= to + 1
    /\ pc = "Done" => start > to
    /\ pc # "Panicked"

IInv == TypeOK /\ LoopInv /\ PrefixPrinted

\* The invariant holds before the first page.
LEMMA InitIInv == Init => IInv
<1> SUFFICES ASSUME Init PROVE IInv
  OBVIOUS
<1>1. TypeOK
  BY DEF Init, TypeOK
<1>2. LoopInv
  BY BackfillAssumption DEF Init, LoopInv, Blocks
<1>3. PrefixPrinted
  BY DEF Init, PrefixPrinted
<1> QED
  BY <1>1, <1>2, <1>3 DEF IInv

\* With regular arguments a page ends where it should, without wrapping.
LEMMA RegularPage ==
  ASSUME TypeOK, LoopInv, Regular, pc = "Page", start <= to
  PROVE  /\ start \in Nat /\ to \in Nat
         /\ start <= PageEnd /\ PageEnd <= to
         /\ NextStart = PageEnd + 1
         /\ PageEnd \in Blocks /\ PageEnd + 1 \in Blocks
         /\ ~PageOverflows /\ ~NextOverflows
<1>1. /\ start \in Nat /\ to \in Nat /\ pageSize \in Nat
      /\ Limit \in Nat /\ pageSize >= 1 /\ to + pageSize < Limit
  BY BackfillAssumption DEF TypeOK, Blocks, Regular
<1>2. start + pageSize \in Blocks /\ start + pageSize - 1 \in Blocks
  BY <1>1 DEF Blocks
<1>3. (start + pageSize - 1) % Limit = start + pageSize - 1
  BY <1>2, ModSmall
<1>4. PageEnd = LeastOf(start + pageSize - 1, to)
  BY <1>3 DEF PageEnd
<1>5. PageEnd \in Nat /\ start <= PageEnd /\ PageEnd <= to
  BY <1>1, <1>4 DEF LeastOf
<1>6. PageEnd \in Blocks /\ PageEnd + 1 \in Blocks
  BY <1>1, <1>5 DEF Blocks
<1>7. NextStart = PageEnd + 1
  BY <1>6, ModSmall DEF NextStart
<1> QED
  BY <1>1, <1>2, <1>5, <1>6, <1>7 DEF PageOverflows, NextOverflows

\* Every step preserves the loop's invariant; only Page and Complete disturb
\* it.
LEMMA NextIInv == IInv /\ [Next]_vars => IInv'
<1> SUFFICES ASSUME IInv, [Next]_vars PROVE IInv'
  OBVIOUS
<1>1. TypeOK /\ LoopInv /\ PrefixPrinted /\ TypeOK'
  BY TypeNext DEF IInv
<1>2. from \in Int /\ to \in Int /\ start \in Int
  BY <1>1, BackfillAssumption DEF TypeOK, Blocks
<1>3. CASE ~Regular
  <2>1. ~Regular'
    BY <1>3 DEF Regular, Next, LatestError, CheckRange, Page, PageOverflow, PageError,
                Complete, Ended, args, vars
  <2> QED
    BY <1>1, <2>1 DEF IInv, LoopInv, PrefixPrinted
<1>4. CASE Regular /\ (LatestError \/ CheckRange)
  <2>1. LoopInv'
    BY <1>1, <1>2, <1>4 DEF LoopInv, LatestError, CheckRange, Regular, args
  <2>2. PrefixPrinted'
    BY <1>1, <1>2, <1>4 DEF PrefixPrinted, LoopInv, LatestError, CheckRange, Regular, args
  <2> QED
    BY <1>1, <2>1, <2>2 DEF IInv
<1>5. CASE Regular /\ Page
  <2>1. /\ from <= start /\ start \in Nat /\ to \in Nat /\ from <= to
        /\ start <= PageEnd /\ PageEnd <= to
        /\ start' = PageEnd + 1 /\ pc' = "Page"
        /\ PageEnd \in Blocks
    BY <1>1, <1>5, RegularPage DEF Page, LoopInv
  <2>2. UNCHANGED args
    BY <1>5 DEF Page
  <2>3. PageEnd \in Int
    BY <2>1, BackfillAssumption DEF Blocks
  <2>4. LoopInv'
    BY <1>2, <2>1, <2>2, <2>3 DEF LoopInv, Regular, args
  <2>5. PrefixPrinted'
    <3>1. \A b \in Blocks :
            printed[b] = IF b \in Chain \cap (from..(start - 1)) THEN 1 ELSE 0
      BY <1>1, <1>5, <2>1 DEF PrefixPrinted, Page
    <3>2. SUFFICES ASSUME NEW b \in Blocks
                   PROVE  printed'[b] = IF b \in Chain \cap (from..PageEnd) THEN 1 ELSE 0
      BY <2>1, <2>2, <2>3 DEF PrefixPrinted, args
    <3>3. printed'[b] = IF b \in Chain \cap (start..PageEnd)
                          THEN LeastOf(printed[b] + 1, 2) ELSE printed[b]
      BY <1>5 DEF Page
    <3>4. b \in Int
      BY BackfillAssumption DEF Blocks
    <3> QED
      BY <1>2, <2>1, <2>3, <3>1, <3>3, <3>4 DEF LeastOf
  <2> QED
    BY <1>1, <2>4, <2>5 DEF IInv
<1>6. CASE Regular /\ PageOverflow
  BY <1>1, <1>6, RegularPage DEF PageOverflow
<1>7. CASE Regular /\ (PageError \/ Complete)
  <2>1. UNCHANGED <<args, start, printed>> /\ pc' \in {"Failed", "Done"} /\ pc = "Page"
        /\ (pc' = "Done" => start > to)
    BY <1>7 DEF PageError, Complete
  <2>2. LoopInv'
    BY <1>1, <1>2, <1>7, <2>1 DEF LoopInv, Regular, args
  <2>3. PrefixPrinted'
    BY <1>1, <1>7, <2>1 DEF PrefixPrinted, Regular, args
  <2> QED
    BY <1>1, <2>2, <2>3 DEF IInv
<1>8. CASE Ended \/ UNCHANGED vars
  BY <1>1, <1>8 DEF IInv, LoopInv, PrefixPrinted, Regular, Ended, vars, args
<1> QED
  BY <1>3, <1>4, <1>5, <1>6, <1>7, <1>8 DEF Next

\* The printed deploys are always those of a contiguous prefix of the range.
THEOREM PrefixPrintedCorrect == Spec => []PrefixPrinted
  BY InitIInv, NextIInv, PTL DEF Spec, IInv

\* A completed backfill printed the inclusive range exactly once.
THEOREM ExactlyOnceCorrect == Spec => []ExactlyOnce
<1>1. IInv => ExactlyOnce
  <2> SUFFICES ASSUME IInv, Regular, pc = "Done",
                      NEW b \in Blocks
               PROVE  printed[b] = IF b \in Chain \cap (from..to) THEN 1 ELSE 0
    BY DEF ExactlyOnce
  <2>1. from \in Int /\ to \in Int /\ start \in Int
    BY BackfillAssumption DEF IInv, TypeOK, Blocks
  <2>2. from <= to /\ start = to + 1
    BY <2>1 DEF IInv, LoopInv
  <2>3. printed[b] = IF b \in Chain \cap (from..(start - 1)) THEN 1 ELSE 0
    BY <2>2 DEF IInv, PrefixPrinted
  <2> QED
    BY <2>1, <2>2, <2>3
<1> QED
  BY <1>1, InitIInv, NextIInv, PTL DEF Spec

\* Regular arguments never end in a panic.
THEOREM RegularNeverPanicsCorrect == Spec => []RegularNeverPanics
<1>1. IInv => RegularNeverPanics
  BY DEF IInv, LoopInv, RegularNeverPanics
<1> QED
  BY <1>1, InitIInv, NextIInv, PTL DEF Spec

=============================================================================
