-------------------------- MODULE AlgorithmProofs --------------------------
(***************************************************************************)
(* Proofs about the bytecode scan, the Bloom filter and the holder fold,   *)
(* for every set of codes, selectors, items and accounts, files and logs   *)
(* of any number and words of any width.                                   *)
(***************************************************************************)
EXTENDS MCAlgorithms, RegistryProofs, SequenceTheorems, FiniteSetTheorems, TLAPS

-----------------------------------------------------------------------------
(* Bytecode: the inductive invariant.                                       *)

\* The i-th signature is the last one read with its selector.
LastRead(i) == \A j \in (i + 1)..read : file[j].selector # file[i].selector

Entry(i) == [flag |-> file[i].flag, name |-> file[i].name]

\* The map holds, for each selector read, the last signature with it.
LoadedInv ==
  /\ DOMAIN bySelector = {file[i].selector : i \in 1..read}
  /\ \A i \in 1..read : LastRead(i) => bySelector[file[i].selector] = Entry(i)
  /\ \A s \in DOMAIN bySelector : \E i \in 1..read : LastRead(i) /\ file[i].selector = s
  /\ scan \in {"Idle", "Scanning", "Scanned"} => read = Len(file)

\* The flags that a set of selectors of the map raises.
RaisedBy(selectors) ==
  {flag \in Flags :
     \E s \in selectors :
       /\ bySelector[s].name # TransferName /\ flag \in bySelector[s].flag
       /\ ContainsSubseq(code, s)}

\* The search of transfer that a set of selectors of the map makes.
TransferIn(selectors) ==
  /\ \E s \in selectors : bySelector[s].name = TransferName
  /\ ContainsSubseq(code, TransferSelector)

\* What a scan has found so far is what the selectors it has seen raise.
ScanInv ==
  /\ scan = "Scanning" =>
       /\ mask = RaisedBy(DOMAIN bySelector \ unseen)
       /\ transferSeen <=> TransferIn(DOMAIN bySelector \ unseen)
  /\ scan = "Scanned" =>
       mask = RaisedBy(DOMAIN bySelector)
              \cup (IF ~TransferIn(DOMAIN bySelector) /\ Erc20Surface THEN {"honeypot"} ELSE {})

BytecodeInv == BytecodeTypeOK /\ LoadedInv /\ ScanInv

-----------------------------------------------------------------------------

\* The invariant holds before a file is read.
LEMMA BytecodeInitInv == BytecodeInit => BytecodeInv
<1> SUFFICES ASSUME BytecodeInit
             PROVE  BytecodeInv
  OBVIOUS
<1>1. file \in Seq(KnownSignatures)
  BY SeqDef, BytecodeAssumption DEF BytecodeInit
<1>2. Len(file) \in Nat
  BY <1>1
<1>3. BytecodeTypeOK
  <2>1. StartsReading
    BY DEF BytecodeInit
  <2>2. /\ read = 0 /\ scan = "Loading" /\ unseen = {} /\ mask = {} /\ transferSeen = FALSE
        /\ DOMAIN bySelector = {}
    BY <2>1 DEF StartsReading
  <2>3. code \in Codes \cup {<<>>}
    BY <2>1, Zenon DEF StartsReading
  <2>4. read \in 0..Len(file)
    BY <1>2, <2>2
  <2>5. /\ DOMAIN bySelector \subseteq Selectors
        /\ \A s \in DOMAIN bySelector :
             bySelector[s] \in [flag : SUBSET Flags, name : {TransferName, "another"}]
        /\ unseen \subseteq DOMAIN bySelector /\ mask \subseteq Flags
    BY <2>2
  <2>6. transferSeen \in BOOLEAN
    BY <2>2
  <2> QED  BY <1>1, <2>2, <2>3, <2>4, <2>5, <2>6 DEF BytecodeTypeOK
<1>4. LoadedInv
  BY DEF BytecodeInit, StartsReading, LoadedInv
<1>5. ScanInv
  BY DEF BytecodeInit, StartsReading, ScanInv
<1> QED  BY <1>3, <1>4, <1>5 DEF BytecodeInv

\* Reading a signature and visiting one keep the types.
LEMMA BytecodeTypeStep ==
  BytecodeTypeOK /\ [BytecodeNext]_bytecodeVars => BytecodeTypeOK'
<1> SUFFICES ASSUME BytecodeTypeOK, [BytecodeNext]_bytecodeVars
             PROVE  BytecodeTypeOK'
  OBVIOUS
<1> USE DEF scanned, bytecodeVars
<1>1. CASE LoadSignature
  <2>1. file[read + 1] \in KnownSignatures /\ read + 1 \in 0..Len(file)
    BY <1>1 DEF LoadSignature, BytecodeTypeOK
  <2>2. /\ DOMAIN bySelector' \subseteq Selectors
        /\ \A s \in DOMAIN bySelector' :
             bySelector'[s] \in [flag : SUBSET Flags, name : {TransferName, "another"}]
    BY <1>1, <2>1 DEF LoadSignature, BytecodeTypeOK, KnownSignatures
  <2>3. unseen' \subseteq DOMAIN bySelector'
    BY <1>1 DEF LoadSignature, BytecodeTypeOK
  <2> QED  BY <1>1, <2>1, <2>2, <2>3 DEF LoadSignature, BytecodeTypeOK
<1>2. CASE RejectSignature
  BY <1>2 DEF RejectSignature, BytecodeTypeOK
<1>3. CASE FinishReading
  BY <1>3 DEF FinishReading, BytecodeTypeOK
<1>4. CASE FetchNoCode
  BY <1>4 DEF FetchNoCode, BytecodeTypeOK
<1>5. CASE StartScan
  BY <1>5 DEF StartScan, BytecodeTypeOK
<1>6. CASE VisitSignature
  <2>1. PICK s \in unseen :
          /\ unseen' = unseen \ {s}
          /\ transferSeen' \in {transferSeen, ContainsSubseq(code, TransferSelector)}
          /\ mask' \in {mask, mask \cup bySelector[s].flag}
    BY <1>6 DEF VisitSignature
  <2>2. bySelector[s].flag \subseteq Flags
    BY <2>1 DEF BytecodeTypeOK
  <2>3. transferSeen' \in BOOLEAN
    BY <2>1 DEF BytecodeTypeOK, ContainsSubseq
  <2> QED  BY <1>6, <2>1, <2>2, <2>3 DEF VisitSignature, BytecodeTypeOK
<1>7. CASE FinishScan
  BY <1>7, BytecodeAssumption DEF FinishScan, BytecodeTypeOK
<1>8. CASE UNCHANGED bytecodeVars
  BY <1>8 DEF BytecodeTypeOK
<1> QED
  BY <1>1, <1>2, <1>3, <1>4, <1>5, <1>6, <1>7, <1>8 DEF BytecodeNext, BytecodeEnded

\* A signature read replaces the entry of its selector and no other.
LEMMA LoadedStep ==
  BytecodeTypeOK /\ LoadedInv /\ [BytecodeNext]_bytecodeVars => LoadedInv'
<1> SUFFICES ASSUME BytecodeTypeOK, LoadedInv, [BytecodeNext]_bytecodeVars
             PROVE  LoadedInv'
  OBVIOUS
<1>1. CASE LoadSignature
  <2>0. read \in Nat /\ Len(file) \in Nat
    BY DEF BytecodeTypeOK
  <2> PICK n \in Nat : n = read + 1
    BY <2>0
  <2>1. /\ read' = n /\ file' = file /\ scan' = scan /\ scan = "Loading"
        /\ DOMAIN bySelector' = DOMAIN bySelector \cup {file[n].selector}
        /\ bySelector'[file[n].selector] = Entry(n)
        /\ \A s \in DOMAIN bySelector \ {file[n].selector} : bySelector'[s] = bySelector[s]
    BY <1>1 DEF LoadSignature, Entry
  <2>2. 1..read' = 1..read \cup {n}
    BY <2>0, <2>1
  <2>3. \A i \in 1..read : LastRead(i)' <=> LastRead(i) /\ file[i].selector # file[n].selector
    <3>1. \A i \in 1..read : (i + 1)..read' = (i + 1)..read \cup {n}
      BY <2>0, <2>1
    <3> QED  BY <2>1, <3>1 DEF LastRead
  <2>4. LastRead(n)'
    <3>1. (n + 1)..read' = {}
      BY <2>0, <2>1
    <3> QED  BY <3>1 DEF LastRead
  <2>5. DOMAIN bySelector' = {file'[i].selector : i \in 1..read'}
    BY <2>1, <2>2 DEF LoadedInv
  <2>6. ASSUME NEW i \in 1..read', LastRead(i)'
        PROVE  bySelector'[file'[i].selector] = Entry(i)'
    <3>1. CASE i = n
      BY <3>1, <2>1 DEF Entry
    <3>2. CASE i \in 1..read
      <4>1. LastRead(i) /\ file[i].selector # file[n].selector
        BY <3>2, <2>3, <2>6
      <4>2. file[i].selector \in DOMAIN bySelector /\ bySelector[file[i].selector] = Entry(i)
        BY <3>2, <4>1 DEF LoadedInv
      <4> QED  BY <4>1, <4>2, <2>1 DEF Entry
    <3> QED  BY <3>1, <3>2, <2>2
  <2>7. ASSUME NEW s \in DOMAIN bySelector'
        PROVE  \E i \in 1..read' : LastRead(i)' /\ file'[i].selector = s
    <3>1. CASE s = file[n].selector
      BY <3>1, <2>1, <2>2, <2>4
    <3>2. CASE s # file[n].selector
      <4>1. PICK i \in 1..read : LastRead(i) /\ file[i].selector = s
        BY <3>2, <2>1 DEF LoadedInv
      <4> QED  BY <3>2, <4>1, <2>1, <2>2, <2>3
    <3> QED  BY <3>1, <3>2
  <2> QED  BY <2>1, <2>5, <2>6, <2>7 DEF LoadedInv
<1>2. CASE UNCHANGED <<file, read, bySelector>> /\ ~FinishReading
  <2>1. scan' \in {"Idle", "Scanning", "Scanned"} => scan \in {"Idle", "Scanning", "Scanned"}
    BY <1>2 DEF BytecodeNext, LoadSignature, RejectSignature, FetchNoCode, StartScan,
                VisitSignature, FinishScan, BytecodeEnded, bytecodeVars, scanned
  <2> QED  BY <1>2, <2>1 DEF LoadedInv, LastRead, Entry
<1>3. CASE FinishReading
  <2>1. UNCHANGED <<file, read, bySelector>> /\ read = Len(file)
    BY <1>3 DEF FinishReading
  <2>2. \A i \in 1..read : (LastRead(i)' <=> LastRead(i)) /\ Entry(i)' = Entry(i)
    BY <2>1 DEF LastRead, Entry
  <2>3. DOMAIN bySelector' = {file'[i].selector : i \in 1..read'}
    BY <2>1 DEF LoadedInv
  <2>4. \A i \in 1..read' : LastRead(i)' => bySelector'[file'[i].selector] = Entry(i)'
    BY <2>1, <2>2 DEF LoadedInv
  <2>5. \A s \in DOMAIN bySelector' :
          \E i \in 1..read' : LastRead(i)' /\ file'[i].selector = s
    BY <2>1, <2>2 DEF LoadedInv
  <2> QED  BY <2>1, <2>3, <2>4, <2>5 DEF LoadedInv
<1> QED
  BY <1>1, <1>2, <1>3
  DEF BytecodeNext, RejectSignature, FetchNoCode, StartScan, VisitSignature, FinishScan,
      BytecodeEnded, bytecodeVars, scanned

\* A signature visited raises its flags whichever were visited before it.
LEMMA ScanStep ==
  BytecodeTypeOK /\ ScanInv /\ [BytecodeNext]_bytecodeVars => ScanInv'
<1> SUFFICES ASSUME BytecodeTypeOK, ScanInv, [BytecodeNext]_bytecodeVars
             PROVE  ScanInv'
  OBVIOUS
<1>1. CASE scan' \notin {"Scanning", "Scanned"}
  BY <1>1 DEF ScanInv
<1>2. CASE StartScan
  <2>1. DOMAIN bySelector \ unseen' = {}
    BY <1>2 DEF StartScan
  <2> QED  BY <1>2, <2>1 DEF StartScan, ScanInv, RaisedBy, TransferIn
<1>3. CASE VisitSignature
  <2>1. PICK s \in unseen :
          /\ unseen' = unseen \ {s}
          /\ IF bySelector[s].name = TransferName
               THEN /\ transferSeen' = ContainsSubseq(code, TransferSelector)
                    /\ UNCHANGED mask
               ELSE /\ mask' = IF ContainsSubseq(code, s)
                                 THEN mask \cup bySelector[s].flag ELSE mask
                    /\ UNCHANGED transferSeen
    BY <1>3 DEF VisitSignature
  <2> DEFINE seen == DOMAIN bySelector \ unseen
  <2>2. /\ UNCHANGED <<bySelector, code>> /\ scan = "Scanning" /\ scan' = "Scanning"
        /\ mask = RaisedBy(seen) /\ (transferSeen <=> TransferIn(seen))
    BY <1>3 DEF VisitSignature, ScanInv
  <2>3. seen' = seen \cup {s} /\ s \in DOMAIN bySelector /\ bySelector[s].flag \subseteq Flags
    BY <2>1, <2>2 DEF BytecodeTypeOK
  <2>4. mask' = RaisedBy(seen)'
    BY <2>1, <2>2, <2>3 DEF RaisedBy
  <2>5. transferSeen' <=> TransferIn(seen)'
    BY <2>1, <2>2, <2>3 DEF TransferIn
  <2> QED  BY <2>2, <2>4, <2>5 DEF ScanInv
<1>4. CASE FinishScan
  <2>1. DOMAIN bySelector \ unseen = DOMAIN bySelector
    BY <1>4 DEF FinishScan
  <2>2. /\ mask = RaisedBy(DOMAIN bySelector)
        /\ transferSeen <=> TransferIn(DOMAIN bySelector)
    BY <1>4, <2>1 DEF FinishScan, ScanInv
  <2>3. mask' = RaisedBy(DOMAIN bySelector)
                \cup (IF ~TransferIn(DOMAIN bySelector) /\ Erc20Surface THEN {"honeypot"} ELSE {})
    BY <1>4, <2>2 DEF FinishScan
  <2> QED  BY <1>4, <2>3 DEF FinishScan, ScanInv, RaisedBy, TransferIn, Erc20Surface
<1>5. CASE UNCHANGED bytecodeVars
  BY <1>5 DEF bytecodeVars, scanned, ScanInv, RaisedBy, TransferIn, Erc20Surface
<1> QED
  BY <1>1, <1>2, <1>3, <1>4, <1>5
  DEF BytecodeNext, LoadSignature, RejectSignature, FinishReading, FetchNoCode, BytecodeEnded

\* Once the file is read, its signatures that count are those of the map.
LEMMA ExactWhenLoaded == BytecodeInv => ScanIsExact
<1> SUFFICES ASSUME BytecodeInv, scan = "Scanned"
             PROVE  mask = RaisedBySignatures \cup RaisedByHeuristic
  BY DEF ScanIsExact
<1>1. read = Len(file)
  BY DEF BytecodeInv, LoadedInv
<1>2. \A i \in 1..Len(file) : Counts(i) <=> LastRead(i)
  BY <1>1 DEF Counts, LastRead
<1>3. \A i \in 1..Len(file) : Counts(i) =>
        /\ file[i].selector \in DOMAIN bySelector
        /\ bySelector[file[i].selector] = Entry(i)
  BY <1>1, <1>2 DEF BytecodeInv, LoadedInv
<1>4. \A s \in DOMAIN bySelector : \E i \in 1..Len(file) : Counts(i) /\ file[i].selector = s
  BY <1>1, <1>2 DEF BytecodeInv, LoadedInv
<1>5. \A i \in 1..Len(file) : Counts(i) =>
        /\ bySelector[file[i].selector].name = file[i].name
        /\ bySelector[file[i].selector].flag = file[i].flag
  <2> TAKE i \in 1..Len(file)
  <2> HAVE Counts(i)
  <2>1. bySelector[file[i].selector] = Entry(i)
    BY <1>3
  <2> QED  BY <2>1 DEF Entry
<1>6. RaisedBy(DOMAIN bySelector) = RaisedBySignatures
  <2>1. ASSUME NEW flag \in RaisedBy(DOMAIN bySelector)
        PROVE  flag \in RaisedBySignatures
    <3>1. PICK s \in DOMAIN bySelector :
            /\ bySelector[s].name # TransferName /\ flag \in bySelector[s].flag
            /\ ContainsSubseq(code, s)
      BY <2>1 DEF RaisedBy
    <3>2. PICK i \in 1..Len(file) : Counts(i) /\ file[i].selector = s
      BY <1>4
    <3> QED  BY <2>1, <3>1, <3>2, <1>5 DEF RaisedBy, RaisedBySignatures
  <2>2. ASSUME NEW flag \in RaisedBySignatures
        PROVE  flag \in RaisedBy(DOMAIN bySelector)
    <3>1. PICK i \in 1..Len(file) :
            /\ Counts(i)
            /\ file[i].name # TransferName /\ flag \in file[i].flag
            /\ ContainsSubseq(code, file[i].selector)
      BY <2>2 DEF RaisedBySignatures
    <3> QED  BY <2>2, <3>1, <1>3, <1>5 DEF RaisedBy, RaisedBySignatures
  <2> QED  BY <2>1, <2>2
<1>7. (\E s \in DOMAIN bySelector : bySelector[s].name = TransferName) <=> TransferListed
  <2>1. ASSUME NEW s \in DOMAIN bySelector, bySelector[s].name = TransferName
        PROVE  TransferListed
    <3>1. PICK i \in 1..Len(file) : Counts(i) /\ file[i].selector = s
      BY <1>4
    <3> QED  BY <2>1, <3>1, <1>5 DEF TransferListed
  <2>2. ASSUME TransferListed
        PROVE  \E s \in DOMAIN bySelector : bySelector[s].name = TransferName
    BY <2>2, <1>3, <1>5 DEF TransferListed
  <2> QED  BY <2>1, <2>2
<1>8. TransferIn(DOMAIN bySelector) <=>
        TransferListed /\ ContainsSubseq(code, TransferSelector)
  BY <1>7 DEF TransferIn
<1> QED  BY <1>6, <1>8 DEF BytecodeInv, ScanInv, RaisedByHeuristic

\* The three parts together are an invariant.
LEMMA BytecodeInvariant == BytecodeSpec => []BytecodeInv
<1>1. BytecodeInv /\ [BytecodeNext]_bytecodeVars => BytecodeInv'
  BY BytecodeTypeStep, LoadedStep, ScanStep DEF BytecodeInv
<1> QED  BY <1>1, BytecodeInitInv, PTL DEF BytecodeSpec

\* Every variable of the scan keeps its type.
THEOREM BytecodeTypeCorrect == BytecodeSpec => []BytecodeTypeOK
<1>1. BytecodeInv => BytecodeTypeOK
  BY DEF BytecodeInv
<1> QED  BY <1>1, BytecodeInvariant, PTL

\* The flags of a token are a function of the file and of its code.
THEOREM ScanIsExactCorrect == BytecodeSpec => []ScanIsExact
BY ExactWhenLoaded, BytecodeInvariant, PTL

-----------------------------------------------------------------------------
(* The Bloom filter.                                                        *)

\* A word index below the ceiling of m over w.
LEMMA WordInRange ==
  ASSUME NEW m \in Nat, NEW w \in Nat \ {0}, NEW bit \in 0..(m - 1)
  PROVE  bit \div w \in 0..(((m + w - 1) \div w) - 1)
<1> DEFINE p == bit \div w
           q == (m + w - 1) \div w
<1>1. /\ p \in Nat /\ w * p <= bit
      /\ q \in Int /\ m + w - 1 < w * q + w
  OBVIOUS
<1> HIDE DEF p, q
<1>2. w * p < w * q
  BY <1>1
<1>3. p < q
  BY <1>1, <1>2
<1> QED  BY <1>1, <1>3 DEF p, q

BloomInv ==
  /\ BloomTypeOK
  /\ bloom # "Ready" => bits = {} /\ members = {}
  /\ bloom = "Ready" => mBits = SizeOf(request) /\ k = request.k
  /\ NoFalseNegatives

\* The invariant holds of an empty filter.
LEMMA BloomInitInv == BloomInit => BloomInv
BY BloomAssumption DEF BloomInit, Unmade, BloomInv, BloomTypeOK, NoFalseNegatives

\* The size of a filter is a number of bits.
LEMMA SizeType ==
  ASSUME request \in Requests
  PROVE  SizeOf(request) \in Nat
<1>1. request.m \in 0..MaxBits
  BY DEF Requests
<1>2. NextPowerOfTwo(request.m) \in PowersOfTwo
  BY <1>1, PowersOfTwoAssumption DEF NextPowerOfTwo
<1>3. NextPowerOfTwo(request.m) \in Nat
  BY <1>2, PowersOfTwoAssumption
<1>4. request.m \in Nat /\ WordBits \in Nat
  BY <1>1, BloomAssumption
<1> QED  BY <1>3, <1>4 DEF SizeOf

\* The bits of an item lie in the vector.
LEMMA ProbesInRange ==
  ASSUME BloomTypeOK, bloom = "Ready", NEW x \in Items
  PROVE  Probes(x) \subseteq (0..(WordCount - 1)) \X (0..(WordBits - 1))
<1>1. /\ digest[x][1] \in Nat /\ digest[x][2] \in Nat
      /\ mBits \in Nat \ {0} /\ k \in Nat
      /\ WordBits \in Nat \ {0} /\ Modulus \in Nat \ {0}
  BY BloomAssumption DEF BloomTypeOK, U64
<1> SUFFICES ASSUME NEW i \in 0..(k - 1)
             PROVE  Slot(Combine(x, i)) \in (0..(WordCount - 1)) \X (0..(WordBits - 1))
  BY DEF Probes
<1>2. Odd(digest[x][2]) \in Nat
  BY <1>1 DEF Odd
<1>3. i * Odd(digest[x][2]) \in Nat
  BY <1>1, <1>2
<1> DEFINE h == (digest[x][1] + ((i * Odd(digest[x][2])) % Modulus)) % Modulus
<1>4. h \in Nat
  <2> DEFINE p == i * Odd(digest[x][2])
  <2>1. p \in Nat
    BY <1>3
  <2> HIDE DEF p
  <2>2. p % Modulus \in Nat
    BY <2>1, <1>1
  <2> QED  BY <2>2, <1>1 DEF p
<1>5. Combine(x, i) = h % mBits
  BY DEF Combine
<1> HIDE DEF h
<1>6. Combine(x, i) \in 0..(mBits - 1)
  BY <1>1, <1>4, <1>5
<1>7. Combine(x, i) \div WordBits \in 0..(WordCount - 1)
  BY <1>1, <1>6, WordInRange DEF WordCount
<1>8. Combine(x, i) % WordBits \in 0..(WordBits - 1)
  BY <1>1, <1>6
<1> QED  BY <1>7, <1>8 DEF Slot

\* Inserting adds bits inside the vector, and removes none.
LEMMA BloomStep == BloomInv /\ [BloomNext]_bloomVars => BloomInv'
<1> SUFFICES ASSUME BloomInv, [BloomNext]_bloomVars
             PROVE  BloomInv'
  OBVIOUS
<1>1. CASE MakeBloom
  <2>1. BloomTypeOK'
    <3>1. mBits' \in Nat /\ mBits' >= WordBits
      BY <1>1, SizeType DEF MakeBloom, BloomInv, BloomTypeOK
    <3>2. k' \in Nat /\ k' >= 1
      BY <1>1 DEF MakeBloom, BloomInv, BloomTypeOK, Requests
    <3>3. bits' = {}
      BY <1>1 DEF MakeBloom, BloomInv
    <3> QED  BY <1>1, <3>1, <3>2, <3>3 DEF MakeBloom, BloomInv, BloomTypeOK
  <2>2. bits' = {} /\ members' = {} /\ bloom' = "Ready"
    BY <1>1 DEF MakeBloom, BloomInv
  <2>3. request' = request /\ mBits' = SizeOf(request) /\ k' = request.k
    BY <1>1 DEF MakeBloom
  <2>4. mBits' = SizeOf(request') /\ k' = request'.k
    BY <2>3
  <2> QED  BY <2>1, <2>2, <2>4 DEF BloomInv, NoFalseNegatives, SizeOf
<1>2. CASE RefuseBloom
  BY <1>2 DEF RefuseBloom, BloomInv, BloomTypeOK, NoFalseNegatives, WordCount
<1>3. CASE InsertItem
  <2>1. PICK x \in Items : bits' = bits \cup Probes(x) /\ members' = members \cup {x}
    BY <1>3 DEF InsertItem
  <2>2. /\ UNCHANGED <<bloom, request, mBits, k, digest>> /\ bloom = "Ready"
        /\ nInserted' \in 0..MaxInserts
    BY <1>3, BloomAssumption DEF InsertItem, BloomInv, BloomTypeOK
  <2>3. Probes(x) \subseteq (0..(WordCount - 1)) \X (0..(WordBits - 1))
    BY <2>2, ProbesInRange DEF BloomInv
  <2>4. BloomTypeOK'
    BY <2>1, <2>2, <2>3 DEF BloomInv, BloomTypeOK, WordCount
  <2>5. \A y \in Items : Probes(y)' = Probes(y)
    BY <2>2 DEF Probes, Combine
  <2>6. NoFalseNegatives'
    <3>1. \A y \in members' : Probes(y) \subseteq bits'
      BY <2>1 DEF BloomInv, NoFalseNegatives, Contains
    <3>2. members' \subseteq Items
      BY <2>1 DEF BloomInv, BloomTypeOK
    <3> QED  BY <3>1, <3>2, <2>5 DEF NoFalseNegatives, Contains
  <2> QED  BY <2>2, <2>4, <2>6 DEF BloomInv
<1>4. CASE UNCHANGED bloomVars
  BY <1>4 DEF bloomVars, BloomInv, BloomTypeOK, NoFalseNegatives, Contains, Probes, Combine,
              WordCount
<1> QED
  BY <1>1, <1>2, <1>3, <1>4 DEF BloomNext, BloomEnded

\* The invariant holds in every state of a filter.
LEMMA BloomInvariant == BloomSpec => []BloomInv
BY BloomInitInv, BloomStep, PTL DEF BloomSpec

\* No bit of the filter lies outside its vector.
THEOREM BloomTypeCorrect == BloomSpec => []BloomTypeOK
<1>1. BloomInv => BloomTypeOK
  BY DEF BloomInv
<1> QED  BY <1>1, BloomInvariant, PTL

\* An item that was inserted is contained.
THEOREM NoFalseNegativesCorrect == BloomSpec => []NoFalseNegatives
<1>1. BloomInv => NoFalseNegatives
  BY DEF BloomInv
<1> QED  BY <1>1, BloomInvariant, PTL

-----------------------------------------------------------------------------
(* The probes of an item.                                                   *)

\* A multiple of p within p of 0 is 0.
LEMMA SmallMultiple ==
  ASSUME NEW p \in Nat \ {0}, NEW e \in Int, p * e < p, -p < p * e
  PROVE  e = 0
<1>1. CASE e >= 1
  <2>1. p * e >= p
    BY <1>1
  <2> QED BY <2>1
<1>2. CASE e <= -1
  <2>1. p * e <= -p
    BY <1>2
  <2> QED BY <2>1
<1> QED BY <1>1, <1>2

\* The remainder of a sum of a multiple of p and a number below p.
LEMMA ModIs ==
  ASSUME NEW p \in Nat \ {0}, NEW q \in Int, NEW s \in 0..(p - 1)
  PROVE  (p * q + s) % p = s
<1> DEFINE x == p * q + s
           d == x \div p
           r == x % p
<1>1. x \in Int /\ d \in Int /\ r \in 0..(p-1) /\ x = p * d + r
  <2>1. x \in Int OBVIOUS
  <2> HIDE DEF x
  <2> QED BY <2>1
<1>2. p * (q - d) = r - s
  <2>1. p * (q - d) = p * q - p * d
    <3> HIDE DEF d
    <3> QED BY <1>1
  <2>2. p*q \in Int /\ p * d \in Int
    <3> HIDE DEF d, x, r
    <3> QED BY <1>1
  <2> HIDE DEF d, r
  <2> QED BY <1>1, <2>1, <2>2
<1> HIDE DEF x, d, r
<1>3. q - d = 0
  BY <1>1, <1>2, SmallMultiple
<1>4. r = s
  BY <1>1, <1>2, <1>3
<1> QED BY <1>4 DEF r, x

\* Taking the remainder by a multiple of p first changes nothing.
LEMMA ModMod ==
  ASSUME NEW p \in Nat \ {0}, NEW t \in Nat \ {0}, NEW x \in Int
  PROVE  (x % (p * t)) % p = x % p
<1> DEFINE M == p * t
           q == x \div M
           r == x % M
           u == r \div p
           s == r % p
<1>1. M \in Nat \ {0}
  OBVIOUS
<1>2. q \in Int /\ r \in Int /\ x = M * q + r
  <2> HIDE DEF M
  <2> QED BY <1>1
<1>3. u \in Int /\ s \in 0..(p - 1) /\ r = p * u + s
  <2> HIDE DEF M, q, r
  <2> QED BY <1>2
<1> HIDE DEF q, r, u, s
<1>4. x = p * (t * q + u) + s /\ t * q + u \in Int
  BY <1>2, <1>3
<1>5. x % p = s
  BY <1>3, <1>4, ModIs
<1> QED BY <1>5 DEF s, r, M

\* A set of numbers has a least element.
LEMMA LeastNat == \A T \in SUBSET Nat : T # {} => \E x \in T : \A y \in T : x <= y
<1> SUFFICES ASSUME NEW T \in SUBSET Nat, T # {}
             PROVE  \E x \in T : \A y \in T : x <= y
  OBVIOUS
<1> DEFINE R == OpToRel(<, Nat)
<1>1. IsWellFoundedOn(R, Nat)
  BY NatLessThanWellFounded
<1>2. \A x, y \in Nat : x < y => <<x, y>> \in R
  BY DEF OpToRel
<1> HIDE DEF R
<1>3. PICK x \in T : \A y \in T : ~ (<<y, x>> \in R)
  BY <1>1, WFMin
<1>4. \A y \in T : ~ (y < x)
  BY <1>2, <1>3
<1> QED BY <1>4

\* A number whose product with an odd number is even is even.
LEMMA EvenFactor ==
  \A d, w, v \in Nat : w % 2 = 1 /\ d * w = 2 * v => \E h \in Nat : d = 2 * h
<1> SUFFICES ASSUME NEW d \in Nat, NEW w \in Nat, NEW v \in Nat, w % 2 = 1, d * w = 2 * v
             PROVE  \E h \in Nat : d = 2 * h
  OBVIOUS
<1>1. PICK h \in Nat : d = 2 * h \/ d = 2 * h + 1
  <2>1. d \div 2 \in Nat /\ (d = 2 * (d \div 2) \/ d = 2 * (d \div 2) + 1)
    OBVIOUS
  <2> QED BY <2>1
<1>2. PICK b \in Nat : w = 2 * b + 1
  <2>1. w \div 2 \in Nat /\ w = 2 * (w \div 2) + 1
    OBVIOUS
  <2> QED BY <2>1
<1>3. CASE d = 2 * h + 1
  <2>1. (2 * h + 1) * (2 * b + 1) = 2 * (2 * (h * b) + h + b) + 1
    OBVIOUS
  <2>2. 2 * (h * b) + h + b \in Nat
    OBVIOUS
  <2> QED BY <1>2, <1>3, <2>1, <2>2
<1> QED BY <1>1, <1>3

\* A power of two that divides the product of d with an odd number divides d:
\* the least power of two that does not would halve to a smaller one.
LEMMA OddCancels ==
  ASSUME NEW w \in Nat, w % 2 = 1
  PROVE  \A p \in PowersOfTwo : \A d, c \in Nat :
           d * w = p * c => \E e \in Nat : d = p * e
<1>0. \A d, x \in Nat : d * w = 2 * x => \E h \in Nat : d = 2 * h
  BY EvenFactor
<1> DEFINE Fails(p) == \E d, c \in Nat : d * w = p * c /\ \A e \in Nat : d # p * e
           Bad == {p \in PowersOfTwo : Fails(p)}
<1> SUFFICES ASSUME Bad # {}
             PROVE  FALSE
  OBVIOUS
<1>1. PICK p \in Bad : \A q \in Bad : p <= q
  BY LeastNat, PowersOfTwoAssumption
<1>2. p \in PowersOfTwo /\ p \in Nat \ {0}
  BY PowersOfTwoAssumption
<1>3. PICK d \in Nat, c \in Nat : d * w = p * c /\ \A e \in Nat : d # p * e
  OBVIOUS
<1>4. p # 1
  BY <1>3
<1>5. PICK q \in PowersOfTwo : p = 2 * q
  BY <1>2, <1>4, PowersOfTwoAssumption
<1>6. q \in Nat /\ q < p /\ q \notin Bad
  <2>1. q \in Nat /\ q < p
    BY <1>2, <1>5, PowersOfTwoAssumption
  <2> HIDE DEF Bad
  <2> QED BY <1>1, <1>2, <2>1
<1>7. q * c \in Nat /\ p * c = 2 * (q * c)
  BY <1>5, <1>6
<1>8. PICK h \in Nat : d = 2 * h
  <2> DEFINE v == q * c
  <2>1. v \in Nat /\ d * w = 2 * v
    BY <1>3, <1>7
  <2> HIDE DEF v, Bad, Fails
  <2> QED BY <1>0, <2>1
<1>9. h * w = q * c
  <2>1. (2 * h) * w = 2 * (h * w) /\ h * w \in Nat
    OBVIOUS
  <2> QED BY <1>3, <1>7, <1>8, <2>1
<1>10. PICK e \in Nat : h = q * e
  BY <1>6, <1>9
<1>11. d = p * e
  BY <1>5, <1>6, <1>8, <1>10
<1> QED BY <1>3, <1>11

\* Wrapping products and sums are the exact ones modulo a divisor of 2^64.
LEMMA Unwrapped ==
  ASSUME NEW p \in Nat \ {0}, NEW t \in Nat \ {0}, Modulus = p * t,
         NEW a \in Nat, NEW x \in Nat
  PROVE  ((a + (x % Modulus)) % Modulus) % p = (a + x) % p
<1>1. Modulus \in Nat \ {0}
  BY BloomAssumption
<1> DEFINE q == x \div Modulus
           r == x % Modulus
           s == (a + r) % p
           u == (a + r) \div p
<1>2. q \in Int /\ r \in Nat /\ x = Modulus * q + r
  <2> DEFINE m == Modulus
  <2>1. m \in Nat \ {0}
    BY <1>1
  <2> HIDE DEF m
  <2>2. x \div m \in Int /\ x % m \in Nat /\ x = m * (x \div m) + (x % m)
    BY <2>1
  <2> QED  BY <2>2 DEF m
<1>3. u \in Int /\ s \in 0..(p - 1) /\ a + r = p * u + s
  <2> HIDE DEF q, r
  <2> QED  BY <1>2
<1>4. ((a + r) % Modulus) % p = s
  <2> HIDE DEF q, r, u
  <2> DEFINE y == a + r
  <2>1. y \in Int
    BY <1>2
  <2> HIDE DEF y
  <2>2. (y % (p * t)) % p = y % p
    BY <2>1, ModMod
  <2> QED  BY <2>2 DEF y
<1> HIDE DEF q, r, u, s
<1>5. a + x = p * (t * q + u) + s /\ t * q + u \in Int
  BY <1>2, <1>3
<1>6. (a + x) % p = s
  BY <1>3, <1>5, ModIs
<1> QED  BY <1>4, <1>6 DEF r

\* Numbers with the same remainder differ by a multiple.
LEMMA SameRemainder ==
  ASSUME NEW p \in Nat \ {0}, NEW x \in Nat, NEW y \in Nat, x % p = y % p
  PROVE  \E c \in Int : x - y = p * c
<1> DEFINE c == x \div p
           d == y \div p
<1>1. c \in Int /\ d \in Int /\ x = p * c + (x % p) /\ y = p * d + (y % p)
  OBVIOUS
<1> HIDE DEF c, d
<1>2. x % p \in Int
  OBVIOUS
<1>3. x - y = p * (c - d) /\ c - d \in Int
  BY <1>1, <1>2
<1> QED  BY <1>3

\* Two hashes of an item, less than m apart, are two bits.
LEMMA ProbesApart ==
  ASSUME NEW p \in PowersOfTwo, NEW a \in Nat, NEW w \in Nat, w % 2 = 1,
         NEW j \in Nat, NEW d \in 1..(p - 1)
  PROVE  (a + (j + d) * w) % p # (a + j * w) % p
<1>1. p \in Nat \ {0} /\ d \in Nat
  BY PowersOfTwoAssumption
<1> SUFFICES ASSUME (a + (j + d) * w) % p = (a + j * w) % p
             PROVE  FALSE
  OBVIOUS
<1>2. PICK c \in Int : d * w = p * c
  <2> DEFINE x == a + (j + d) * w
             y == a + j * w
  <2>1. x \in Nat /\ y \in Nat /\ x - y = d * w
    BY <1>1
  <2>2. x % p = y % p
    OBVIOUS
  <2> HIDE DEF x, y
  <2>3. \E c \in Int : x - y = p * c
    BY <1>1, <2>1, <2>2, SameRemainder
  <2> QED  BY <2>1, <2>3
<1>3. c \in Nat
  <2>1. d * w \in Nat
    BY <1>1
  <2>2. CASE c <= -1
    <3>1. p * c <= -p
      BY <1>1, <2>2
    <3> QED  BY <1>1, <1>2, <2>1, <3>1
  <2> QED  BY <2>2
<1>4. PICK e \in Nat : d = p * e
  <2>1. \A f, g \in Nat : f * w = p * g => \E e \in Nat : f = p * e
    BY OddCancels
  <2> QED  BY <1>1, <1>2, <1>3, <2>1
<1>5. e = 0
  BY <1>1, <1>4, SmallMultiple
<1> QED  BY <1>1, <1>4, <1>5

\* A filter of with_capacity has a power of two of bits, and at most that many
\* hashes.
LEMMA CapacitySize ==
  ASSUME request \in Requests, request.by = "with_capacity"
  PROVE  SizeOf(request) \in PowersOfTwo /\ request.k <= SizeOf(request)
<1>1. request.m \in 0..MaxBits /\ request.k \in Nat /\ request.k <= request.m
  BY DEF Requests
<1>2. NextPowerOfTwo(request.m) \in PowersOfTwo /\ NextPowerOfTwo(request.m) >= request.m
  BY <1>1, PowersOfTwoAssumption DEF NextPowerOfTwo
<1>3. NextPowerOfTwo(request.m) \in Nat /\ WordBits \in Nat /\ WordBits \in PowersOfTwo
  BY <1>2, PowersOfTwoAssumption, WidthsAssumption
<1> QED  BY <1>1, <1>2, <1>3, BloomAssumption DEF SizeOf

\* Of two hashes of an item, the later one is another bit.
LEMMA DistinctProbes ==
  ASSUME BloomInv, bloom = "Ready", request.by = "with_capacity", NEW x \in Items,
         NEW i \in 0..(k - 1), NEW j \in 0..(k - 1), j < i
  PROVE  Combine(x, i) # Combine(x, j)
<1>1. mBits \in PowersOfTwo /\ k <= mBits
  BY CapacitySize DEF BloomInv, BloomTypeOK
<1>2. mBits \in Nat \ {0} /\ k \in Nat /\ Modulus \in Nat \ {0}
  BY <1>1, PowersOfTwoAssumption, BloomAssumption DEF BloomInv, BloomTypeOK
<1>3. PICK t \in Nat \ {0} : Modulus = mBits * t
  <2>1. Modulus % mBits = 0
    BY <1>1, WidthsAssumption
  <2>2. /\ Modulus \div mBits \in Nat
        /\ Modulus = mBits * (Modulus \div mBits) + (Modulus % mBits)
    BY <1>2
  <2>3. Modulus = mBits * (Modulus \div mBits)
    BY <1>2, <2>1, <2>2
  <2> QED  BY <1>2, <2>2, <2>3
<1> DEFINE a == digest[x][1]
           w == Odd(digest[x][2])
<1>4. a \in Nat /\ w \in Nat /\ w % 2 = 1
  <2>1. digest[x][1] \in Nat /\ digest[x][2] \in Nat
    BY BloomAssumption DEF BloomInv, BloomTypeOK, U64
  <2> QED  BY <2>1 DEF Odd
<1>5. \A n \in Nat : Combine(x, n) = (a + n * w) % mBits
  <2> TAKE n \in Nat
  <2> HIDE DEF a, w
  <2> DEFINE y == n * w
  <2>1. y \in Nat
    BY <1>4
  <2> HIDE DEF y
  <2>2. ((a + (y % Modulus)) % Modulus) % mBits = (a + y) % mBits
    BY <1>2, <1>3, <1>4, <2>1, Unwrapped
  <2> QED  BY <2>2 DEF Combine, a, w, y
<1> HIDE DEF a, w
<1> DEFINE d == i - j
<1>6. d \in 1..(mBits - 1) /\ i = j + d /\ i \in Nat /\ j \in Nat
  BY <1>1, <1>2
<1> HIDE DEF d
<1>7. (a + (j + d) * w) % mBits # (a + j * w) % mBits
  BY <1>1, <1>4, <1>6, ProbesApart
<1> QED  BY <1>5, <1>6, <1>7

\* The odd b of double_hash, and a power of two of bits, make the k hashes of
\* an item k different bits, however the u64 products wrap.
THEOREM ProbesDistinctCorrect == BloomSpec => []ProbesDistinct
<1>1. BloomInv => ProbesDistinct
  <2> SUFFICES ASSUME BloomInv, bloom = "Ready", request.by = "with_capacity",
                      NEW x \in members, NEW i \in 0..(k - 1), NEW j \in 0..(k - 1), i # j
               PROVE  Combine(x, i) # Combine(x, j)
    BY DEF ProbesDistinct
  <2>1. x \in Items
    BY DEF BloomInv, BloomTypeOK
  <2>2. i < j \/ j < i
    OBVIOUS
  <2> QED  BY <2>1, <2>2, DistinctProbes
<1> QED  BY <1>1, BloomInvariant, PTL

-----------------------------------------------------------------------------
(* Holders: sums over sets of accounts.  MapThenSumSet is recursive; what   *)
(* holds of it for every set is proved on a least set without it, which     *)
(* exists because inclusion of finite sets is well-founded.                 *)

\* A set of finite sets has a least one.
LEMMA LeastSet ==
  \A F \in SUBSET (SUBSET Accounts) : F # {} =>
    \E S \in F : \A T \in F : ~(T \subseteq S /\ T # S)
<1> SUFFICES ASSUME NEW F \in SUBSET (SUBSET Accounts), F # {}
             PROVE  \E S \in F : \A T \in F : ~(T \subseteq S /\ T # S)
  OBVIOUS
<1> DEFINE R == StrictSubsetOrdering(Accounts)
           U == FiniteSubsetsOf(Accounts)
<1>1. IsWellFoundedOn(R, U)
  BY FS_StrictSubsetOrderingWellFounded
<1>2. U = SUBSET Accounts
  BY HoldersAssumption, FS_Subset DEF FiniteSubsetsOf
<1>3. \A T, S \in SUBSET Accounts : T \subseteq S /\ T # S => <<T, S>> \in R
  BY DEF StrictSubsetOrdering
<1> HIDE DEF R, U
<1>4. F \subseteq U
  BY <1>2
<1>5. PICK S \in F : \A T \in F : ~(<<T, S>> \in R)
  BY <1>1, <1>4, WFMin
<1> QED  BY <1>3, <1>5

\* The recursive function behind SumOf, for the balances b.
First(s) == CHOOSE x \in s : TRUE

\* g is that function on the subsets of S.
IsSum(b, S, g) ==
  g = [s \in SUBSET S |-> IF s = {} THEN 0 ELSE b[First(s)] + g[s \ {First(s)}]]

Sum(b, S) == (CHOOSE g : IsSum(b, S, g))[S]

\* The sum of the model is Sum of the balances.
LEMMA SumOfIs == \A S : SumOf(S) = Sum(balances, S)
  BY DEF SumOf, MapThenSumSet, MapThenFoldSet, Sum, IsSum, First

\* The sums of the next state are those of this one if the balances are.
LEMMA SumOfStays ==
  ASSUME UNCHANGED balances
  PROVE  \A S : SumOf(S)' = SumOf(S)
<1>1. \A S : SumOf(S)' = Sum(balances', S)
  BY DEF SumOf, MapThenSumSet, MapThenFoldSet, Sum, IsSum, First
<1> QED  BY <1>1, SumOfIs

\* The element taken first is one.
LEMMA FirstMember == \A s : s # {} => First(s) \in s
  BY DEF First

\* Two such functions agree where both are defined.
LEMMA SumUnique ==
  ASSUME NEW b, NEW S \in SUBSET Accounts, NEW T \in SUBSET Accounts,
         NEW g, NEW h, IsSum(b, S, g), IsSum(b, T, h)
  PROVE  \A v \in SUBSET (S \cap T) : g[v] = h[v]
<1> DEFINE Bad == {v \in SUBSET (S \cap T) : g[v] # h[v]}
<1> SUFFICES ASSUME Bad # {} PROVE FALSE
  OBVIOUS
<1>1. PICK v \in Bad : \A w \in Bad : ~(w \subseteq v /\ w # v)
  <2>1. Bad \in SUBSET (SUBSET Accounts)
    OBVIOUS
  <2> HIDE DEF Bad
  <2> QED  BY <2>1, LeastSet
<1>2. v \in SUBSET S /\ v \in SUBSET T /\ g[v] # h[v]
  OBVIOUS
<1>3. v # {}
  BY <1>2 DEF IsSum
<1> DEFINE c == First(v)
           u == v \ {c}
<1>4. c \in v
  BY <1>3, FirstMember
<1> HIDE DEF c
<1>5. u \in SUBSET (S \cap T) /\ u \notin Bad
  BY <1>1, <1>2, <1>4
<1>6. g[u] = h[u]
  BY <1>5
<1>7. g[v] = b[c] + g[u] /\ h[v] = b[c] + h[u]
  BY <1>2, <1>3 DEF IsSum, c
<1> QED  BY <1>2, <1>6, <1>7

\* There is one for each set: the least set without one would have one made of
\* those of its subsets.
LEMMA SumExists ==
  ASSUME NEW b
  PROVE  \A S \in SUBSET Accounts : \E g : IsSum(b, S, g)
<1> DEFINE Bad == {S \in SUBSET Accounts : ~ \E g : IsSum(b, S, g)}
<1> SUFFICES ASSUME Bad # {} PROVE FALSE
  OBVIOUS
<1>1. PICK S \in Bad : \A T \in Bad : ~(T \subseteq S /\ T # S)
  <2>1. Bad \in SUBSET (SUBSET Accounts)
    OBVIOUS
  <2> HIDE DEF Bad
  <2> QED  BY <2>1, LeastSet
<1>2. S \in SUBSET Accounts /\ ~ \E g : IsSum(b, S, g)
  OBVIOUS
<1> DEFINE G(T) == CHOOSE g : IsSum(b, T, g)
<1>3. \A T \in SUBSET S : T # S => IsSum(b, T, G(T))
  <2> TAKE T \in SUBSET S
  <2> HAVE T # S
  <2>1. \E g : IsSum(b, T, g)
    BY <1>1, <1>2
  <2> QED  BY <2>1
<1> HIDE DEF G, Bad
<1> DEFINE h == [s \in SUBSET S |->
                   IF s = {} THEN 0
                   ELSE b[First(s)] + G(s \ {First(s)})[s \ {First(s)}]]
<1>4. ASSUME NEW u \in SUBSET S, u # S
      PROVE  h[u] = G(u)[u]
  <2>1. IsSum(b, u, G(u))
    BY <1>3, <1>4
  <2>2. CASE u = {}
    <3>1. G(u)[u] = 0
      BY <2>1, <2>2 DEF IsSum
    <3> QED  BY <2>2, <3>1
  <2>3. CASE u # {}
    <3> DEFINE c == First(u)
               w == u \ {c}
    <3>1. c \in u
      BY <2>3, FirstMember
    <3>2. h[u] = b[c] + G(w)[w]
      BY <2>3
    <3>3. G(u)[u] = b[c] + G(u)[w]
      BY <2>1, <2>3 DEF IsSum
    <3> HIDE DEF c
    <3>4. w \in SUBSET S /\ w # S /\ w \in SUBSET (u \cap w)
      BY <3>1, <1>4
    <3>5. IsSum(b, w, G(w))
      BY <1>3, <3>4
    <3>6. u \in SUBSET Accounts /\ w \in SUBSET Accounts
      BY <1>2
    <3>7. G(u)[w] = G(w)[w]
      <4> HIDE DEF w
      <4> QED  BY <2>1, <3>4, <3>5, <3>6, SumUnique
    <3> QED  BY <3>2, <3>3, <3>7
  <2> QED  BY <2>2, <2>3
<1>5. IsSum(b, S, h)
  <2>1. ASSUME NEW s \in SUBSET S, s # {}
        PROVE  h[s \ {First(s)}] = G(s \ {First(s)})[s \ {First(s)}]
    <3>1. First(s) \in s
      BY <2>1, FirstMember
    <3> HIDE DEF h
    <3> QED  BY <1>4, <3>1
  <2>2. h = [s \in SUBSET S |-> IF s = {} THEN 0 ELSE b[First(s)] + h[s \ {First(s)}]]
    BY <2>1
  <2> HIDE DEF h
  <2> QED  BY <2>2 DEF IsSum
<1> QED  BY <1>2, <1>5

\* SumOf takes its elements one by one.
LEMMA SumFirst ==
  ASSUME NEW b
  PROVE  /\ Sum(b, {}) = 0
         /\ \A S \in SUBSET Accounts : S # {} =>
              Sum(b, S) = b[First(S)] + Sum(b, S \ {First(S)})
<1> DEFINE G(T) == CHOOSE g : IsSum(b, T, g)
<1>1. \A T \in SUBSET Accounts : IsSum(b, T, G(T)) /\ Sum(b, T) = G(T)[T]
  <2> TAKE T \in SUBSET Accounts
  <2>1. \E g : IsSum(b, T, g)
    BY SumExists
  <2> QED  BY <2>1 DEF Sum
<1> HIDE DEF G
<1>2. Sum(b, {}) = 0
  BY <1>1 DEF IsSum
<1>3. ASSUME NEW S \in SUBSET Accounts, S # {}
      PROVE  Sum(b, S) = b[First(S)] + Sum(b, S \ {First(S)})
  <2> DEFINE u == S \ {First(S)}
  <2>1. u \in SUBSET Accounts /\ u \in SUBSET (S \cap u)
    OBVIOUS
  <2>2. G(S)[S] = b[First(S)] + G(S)[u]
    BY <1>1, <1>3 DEF IsSum
  <2> HIDE DEF u
  <2>3. G(S)[u] = G(u)[u]
    BY <1>1, <2>1, SumUnique
  <2> QED  BY <1>1, <2>1, <2>2, <2>3 DEF u
<1> QED  BY <1>2, <1>3

\* The sum of integers is one.
LEMMA SumType ==
  ASSUME NEW b \in [Accounts -> Int]
  PROVE  \A S \in SUBSET Accounts : Sum(b, S) \in Int
<1> DEFINE Bad == {S \in SUBSET Accounts : Sum(b, S) \notin Int}
<1> SUFFICES ASSUME Bad # {} PROVE FALSE
  OBVIOUS
<1>1. PICK S \in Bad : \A T \in Bad : ~(T \subseteq S /\ T # S)
  <2>1. Bad \in SUBSET (SUBSET Accounts)
    OBVIOUS
  <2> HIDE DEF Bad
  <2> QED  BY <2>1, LeastSet
<1>2. S \in SUBSET Accounts /\ Sum(b, S) \notin Int
  OBVIOUS
<1>3. S # {}
  <2>1. Sum(b, {}) = 0
    BY SumFirst
  <2> QED  BY <1>2, <2>1
<1> DEFINE c == First(S)
           u == S \ {c}
<1>4. c \in S
  BY <1>3, FirstMember
<1>5. Sum(b, S) = b[c] + Sum(b, u)
  BY <1>2, <1>3, SumFirst
<1> HIDE DEF c
<1>6. Sum(b, u) \in Int
  BY <1>1, <1>2, <1>4
<1> QED  BY <1>2, <1>4, <1>5, <1>6

\* Any element may be taken.
LEMMA SumRemove ==
  ASSUME NEW b \in [Accounts -> Int]
  PROVE  \A S \in SUBSET Accounts : \A x \in S : Sum(b, S) = b[x] + Sum(b, S \ {x})
<1> DEFINE Bad == {S \in SUBSET Accounts :
                     \E x \in S : Sum(b, S) # b[x] + Sum(b, S \ {x})}
<1> SUFFICES ASSUME Bad # {} PROVE FALSE
  OBVIOUS
<1>1. PICK S \in Bad : \A T \in Bad : ~(T \subseteq S /\ T # S)
  <2>1. Bad \in SUBSET (SUBSET Accounts)
    OBVIOUS
  <2> HIDE DEF Bad
  <2> QED  BY <2>1, LeastSet
<1>2. S \in SUBSET Accounts
  OBVIOUS
<1>3. PICK x \in S : Sum(b, S) # b[x] + Sum(b, S \ {x})
  OBVIOUS
<1> DEFINE c == First(S)
<1>4. c \in S /\ Sum(b, S) = b[c] + Sum(b, S \ {c})
  BY <1>2, <1>3, SumFirst, FirstMember
<1> HIDE DEF c
<1>5. x # c
  BY <1>3, <1>4
<1> DEFINE u == (S \ {c}) \ {x}
<1>6. Sum(b, S \ {c}) = b[x] + Sum(b, u)
  <2>1. S \ {c} \in SUBSET Accounts /\ S \ {c} \notin Bad /\ x \in S \ {c}
    BY <1>1, <1>2, <1>4, <1>5
  <2> QED  BY <2>1
<1>7. Sum(b, S \ {x}) = b[c] + Sum(b, u)
  <2>1. S \ {x} \in SUBSET Accounts /\ S \ {x} \notin Bad /\ c \in S \ {x}
    BY <1>1, <1>2, <1>4, <1>5
  <2>2. (S \ {x}) \ {c} = u
    OBVIOUS
  <2>3. Sum(b, S \ {x}) = b[c] + Sum(b, (S \ {x}) \ {c})
    BY <2>1
  <2> QED  BY <2>2, <2>3
<1>8. b[x] \in Int /\ b[c] \in Int /\ Sum(b, u) \in Int
  <2>1. u \in SUBSET Accounts /\ x \in Accounts /\ c \in Accounts
    BY <1>2, <1>3, <1>4
  <2> HIDE DEF u
  <2> QED  BY <2>1, SumType
<1> HIDE DEF u, Bad
<1> QED  BY <1>3, <1>4, <1>6, <1>7, <1>8

\* The sum is of what b is on the set.
LEMMA SumSame ==
  ASSUME NEW b \in [Accounts -> Int], NEW d \in [Accounts -> Int]
  PROVE  \A S \in SUBSET Accounts : (\A x \in S : b[x] = d[x]) => Sum(b, S) = Sum(d, S)
<1> DEFINE Bad == {S \in SUBSET Accounts :
                     (\A x \in S : b[x] = d[x]) /\ Sum(b, S) # Sum(d, S)}
<1> SUFFICES ASSUME Bad # {} PROVE FALSE
  OBVIOUS
<1>1. PICK S \in Bad : \A T \in Bad : ~(T \subseteq S /\ T # S)
  <2>1. Bad \in SUBSET (SUBSET Accounts)
    OBVIOUS
  <2> HIDE DEF Bad
  <2> QED  BY <2>1, LeastSet
<1>2. S \in SUBSET Accounts /\ (\A x \in S : b[x] = d[x]) /\ Sum(b, S) # Sum(d, S)
  OBVIOUS
<1>3. PICK x \in S : TRUE
  <2>1. S # {}
    BY <1>2, SumFirst
  <2> QED  BY <2>1
<1> DEFINE u == S \ {x}
<1>4. u \in SUBSET Accounts /\ u \notin Bad
  BY <1>1, <1>2, <1>3
<1>5. Sum(b, u) = Sum(d, u)
  BY <1>2, <1>4
<1>6. Sum(b, S) = b[x] + Sum(b, u) /\ Sum(d, S) = d[x] + Sum(d, u)
  BY <1>2, <1>3, SumRemove
<1> HIDE DEF u, Bad
<1> QED  BY <1>2, <1>3, <1>5, <1>6

\* Changing the balance of one account changes the sum by as much.
LEMMA SumUpdate ==
  ASSUME NEW b \in [Accounts -> Int], NEW x \in Accounts, NEW n \in Int
  PROVE  Sum([b EXCEPT ![x] = n], Accounts) = Sum(b, Accounts) - b[x] + n
<1> DEFINE d == [b EXCEPT ![x] = n]
           u == Accounts \ {x}
<1>1. d \in [Accounts -> Int] /\ d[x] = n /\ \A y \in u : b[y] = d[y]
  OBVIOUS
<1> HIDE DEF d
<1>2. Sum(b, Accounts) = b[x] + Sum(b, u)
  BY SumRemove
<1>3. Sum(d, Accounts) = n + Sum(d, u)
  BY <1>1, SumRemove
<1>4. Sum(b, u) = Sum(d, u) /\ Sum(b, u) \in Int
  <2>1. u \in SUBSET Accounts
    OBVIOUS
  <2> HIDE DEF u
  <2> QED  BY <1>1, <2>1, SumSame, SumType
<1> HIDE DEF u
<1>5. Sum(b, Accounts) - b[x] + n = Sum(d, Accounts)
  BY <1>2, <1>3, <1>4
<1> QED  BY <1>5 DEF d

\* A set is no poorer than a set with no more members, each of them no richer.
LEMMA SumDominates ==
  ASSUME NEW b \in [Accounts -> Int]
  PROVE  \A A, B \in SUBSET Accounts :
           /\ Cardinality(A) <= Cardinality(B)
           /\ \A y \in B : b[y] >= 0
           /\ \A x \in A, y \in B : b[x] <= b[y]
           => Sum(b, A) <= Sum(b, B)
<1> DEFINE Bad == {B \in SUBSET Accounts :
                     \E A \in SUBSET Accounts :
                       /\ Cardinality(A) <= Cardinality(B)
                       /\ \A y \in B : b[y] >= 0
                       /\ \A x \in A, y \in B : b[x] <= b[y]
                       /\ ~(Sum(b, A) <= Sum(b, B))}
<1> SUFFICES ASSUME Bad # {} PROVE FALSE
  OBVIOUS
<1>1. PICK B \in Bad : \A T \in Bad : ~(T \subseteq B /\ T # B)
  <2>1. Bad \in SUBSET (SUBSET Accounts)
    OBVIOUS
  <2> HIDE DEF Bad
  <2> QED  BY <2>1, LeastSet
<1>2. B \in SUBSET Accounts
  OBVIOUS
<1>3. PICK A \in SUBSET Accounts :
        /\ Cardinality(A) <= Cardinality(B)
        /\ \A y \in B : b[y] >= 0
        /\ \A x \in A, y \in B : b[x] <= b[y]
        /\ ~(Sum(b, A) <= Sum(b, B))
  OBVIOUS
<1>4. \A T \in SUBSET Accounts : T \subseteq B /\ T # B =>
        \A S \in SUBSET Accounts :
          /\ Cardinality(S) <= Cardinality(T)
          /\ \A y \in T : b[y] >= 0
          /\ \A x \in S, y \in T : b[x] <= b[y]
          => Sum(b, S) <= Sum(b, T)
  BY <1>1
<1> HIDE DEF Bad
<1>5. IsFiniteSet(A) /\ IsFiniteSet(B)
  BY <1>2, HoldersAssumption, FS_Subset
<1>6. Cardinality(A) \in Nat /\ Cardinality(B) \in Nat
  BY <1>5, FS_CardinalityType
<1>7. B # {}
  <2> SUFFICES ASSUME B = {} PROVE FALSE
    OBVIOUS
  <2>1. Cardinality(A) = 0
    BY <1>3, <1>6, FS_EmptySet
  <2>2. A = {}
    BY <1>5, <2>1, FS_EmptySet
  <2> QED  BY <1>3, <2>2, SumFirst
<1>8. PICK y \in B : TRUE
  BY <1>7
<1> DEFINE T == B \ {y}
<1>9. T \in SUBSET Accounts /\ T \subseteq B /\ T # B /\ Cardinality(T) = Cardinality(B) - 1
  BY <1>2, <1>5, <1>8, FS_RemoveElement
<1>10. Sum(b, B) = b[y] + Sum(b, T) /\ Sum(b, T) \in Int /\ b[y] \in Int /\ b[y] >= 0
  BY <1>2, <1>3, <1>8, <1>9, SumRemove, SumType
<1>11. CASE A = {}
  <2>1. Cardinality({}) <= Cardinality(T)
    BY <1>6, <1>9, <1>5, FS_EmptySet, FS_RemoveElement, FS_CardinalityType
  <2>2. Sum(b, {}) <= Sum(b, T)
    <3> HIDE DEF T
    <3> QED  BY <1>3, <1>4, <1>9, <2>1
  <2> QED  BY <1>3, <1>10, <1>11, <2>2, SumFirst
<1>12. CASE A # {}
  <2>1. PICK x \in A : TRUE
    BY <1>12
  <2> DEFINE S == A \ {x}
  <2>2. S \in SUBSET Accounts /\ Cardinality(S) = Cardinality(A) - 1
    BY <1>5, FS_RemoveElement
  <2>3. Sum(b, A) = b[x] + Sum(b, S) /\ Sum(b, S) \in Int /\ b[x] \in Int
    BY <2>2, SumRemove, SumType
  <2>4. Sum(b, S) <= Sum(b, T)
    <3>1. Cardinality(S) <= Cardinality(T)
      BY <1>3, <1>6, <1>9, <2>2
    <3>2. /\ \A z \in T : b[z] >= 0
          /\ \A w \in S, z \in T : b[w] <= b[z]
      BY <1>3
    <3> HIDE DEF S, T
    <3> QED  BY <1>4, <1>9, <2>2, <3>1, <3>2
  <2>5. b[x] <= b[y]
    BY <1>3, <1>8
  <2> HIDE DEF S, T
  <2> QED  BY <1>3, <1>10, <2>3, <2>4, <2>5
<1> QED  BY <1>11, <1>12

\* Of balances that are not negative, a part sums up to no more than the whole,
\* and to less if the rest is positive.
LEMMA SumPart ==
  ASSUME NEW b \in [Accounts -> Int]
  PROVE  \A S \in SUBSET Accounts : \A T \in SUBSET S :
           (\A x \in S \ T : b[x] >= 0) =>
             /\ Sum(b, T) <= Sum(b, S)
             /\ (\A x \in S \ T : b[x] > 0) /\ T # S => Sum(b, T) < Sum(b, S)
             /\ (\A x \in S \ T : b[x] = 0) => Sum(b, T) = Sum(b, S)
<1> DEFINE P(T, S) == (\A x \in S \ T : b[x] >= 0) =>
             /\ Sum(b, T) <= Sum(b, S)
             /\ (\A x \in S \ T : b[x] > 0) /\ T # S => Sum(b, T) < Sum(b, S)
             /\ (\A x \in S \ T : b[x] = 0) => Sum(b, T) = Sum(b, S)
           Bad == {S \in SUBSET Accounts : \E T \in SUBSET S : ~P(T, S)}
<1> SUFFICES ASSUME Bad # {} PROVE FALSE
  OBVIOUS
<1>1. PICK S \in Bad : \A U \in Bad : ~(U \subseteq S /\ U # S)
  <2>1. Bad \in SUBSET (SUBSET Accounts)
    OBVIOUS
  <2> HIDE DEF Bad
  <2> QED  BY <2>1, LeastSet
<1>2. PICK T \in SUBSET S : ~P(T, S)
  OBVIOUS
<1>3. S \in SUBSET Accounts
  OBVIOUS
<1>4. \A U \in SUBSET S : U # S /\ T \in SUBSET U => P(T, U)
  BY <1>1, <1>3
<1> HIDE DEF Bad
<1>5. Sum(b, S) \in Int /\ Sum(b, T) \in Int
  BY <1>3, SumType
<1>6. T # S
  <2> SUFFICES ASSUME T = S PROVE FALSE
    OBVIOUS
  <2>1. P(S, S)
    BY <1>5
  <2> HIDE DEF P
  <2> QED  BY <1>2, <2>1
<1>7. PICK x \in S \ T : TRUE
  BY <1>6
<1> DEFINE U == S \ {x}
<1>8. U \in SUBSET S /\ U # S /\ T \in SUBSET U /\ U \in SUBSET Accounts
  BY <1>3, <1>7
<1>9. P(T, U)
  <2> HIDE DEF P, U
  <2> QED  BY <1>4, <1>8
<1>10. Sum(b, S) = b[x] + Sum(b, U) /\ Sum(b, U) \in Int /\ b[x] \in Int
  BY <1>3, <1>7, <1>8, SumRemove, SumType
<1>11. (\A y \in S \ T : b[y] >= 0) => (\A y \in U \ T : b[y] >= 0) /\ b[x] >= 0
  BY <1>7
<1>12. (\A y \in S \ T : b[y] > 0) => (\A y \in U \ T : b[y] > 0) /\ b[x] > 0
  BY <1>7
<1>13. (\A y \in S \ T : b[y] = 0) => (\A y \in U \ T : b[y] = 0) /\ b[x] = 0
  BY <1>7
<1>14. T = U => Sum(b, T) = Sum(b, U)
  OBVIOUS
<1> HIDE DEF U
<1>15. P(T, S)
  BY <1>5, <1>9, <1>10, <1>11, <1>12, <1>13, <1>14
<1> QED  BY <1>2, <1>15

-----------------------------------------------------------------------------
(* Holders: 128-bit arithmetic.                                             *)

\* Wrapping yields an i128, and leaves an i128 alone.
LEMMA WrappedType == \A n \in Int : Wrapped(n) \in I128 /\ (n \in I128 => Wrapped(n) = n)
<1> SUFFICES ASSUME NEW n \in Int
             PROVE  Wrapped(n) \in I128 /\ (n \in I128 => Wrapped(n) = n)
  OBVIOUS
<1> DEFINE m == 2 * Half
           y == n + Half
<1>1. m \in Nat \ {0} /\ Half \in Nat \ {0} /\ y \in Int
  BY HoldersAssumption
<1>2. y % m \in 0..(m - 1)
  <2> HIDE DEF m, y
  <2> QED  BY <1>1
<1>3. ASSUME n \in I128 PROVE y % m = y
  <2>1. y \in 0..(m - 1)
    BY <1>1, <1>3 DEF I128
  <2> HIDE DEF m, y
  <2> QED  BY <1>1, <2>1
<1> QED  BY <1>1, <1>2, <1>3 DEF Wrapped, I128

\* An amount is cast to an i128, to itself if it is below 2^127.
LEMMA SignedType ==
  ASSUME NEW t \in Transfers
  PROVE  /\ t.amount \in Nat /\ Signed(t) \in I128
         /\ t.amount < Half => Signed(t) = t.amount
<1>1. t.amount \in Nat /\ Half \in Nat \ {0}
  BY HoldersAssumption DEF Transfers
<1>2. /\ Saturated(t.amount) \in 0..(2 * Half - 1)
      /\ t.amount < Half => Saturated(t.amount) = t.amount
  BY <1>1 DEF Saturated, LeastOf2
<1> QED  BY <1>1, <1>2 DEF Signed, AsI128, I128

\* Balances stay i128 through a transfer.
LEMMA TransferType ==
  ASSUME balances \in [Accounts -> I128], NEW t \in Transfers
  PROVE  /\ Debited(t) \in [Accounts -> I128]
         /\ Credited(t, Debited(t)) \in [Accounts -> I128]
<1>1. I128 \subseteq Int
  BY DEF I128
<1>2. Signed(t) \in Int
  BY <1>1, SignedType
<1>3. ASSUME NEW b \in [Accounts -> I128], NEW a \in Accounts
      PROVE  /\ Wrapped(b[a] - Signed(t)) \in I128
             /\ Wrapped(b[a] + Signed(t)) \in I128
  <2>1. b[a] - Signed(t) \in Int /\ b[a] + Signed(t) \in Int
    <3>1. b[a] \in I128
      OBVIOUS
    <3>2. b[a] \in Int
      BY <1>1, <3>1
    <3> QED  BY <1>2, <3>2
  <2> QED  BY <2>1, WrappedType
<1>4. Debited(t) \in [Accounts -> I128]
  BY <1>3 DEF Debited, Transfers
<1> QED  BY <1>3, <1>4 DEF Credited, Transfers

-----------------------------------------------------------------------------
(* Holders: a token that conserves.                                         *)

\* The exact balances of an honest token sum up to its supply; those of a
\* token that conserves are the folded ones.
ConserveInv ==
  /\ honest => Sum(exact, Accounts) = supply /\ supply <= peak
  /\ conserving => fold # "Panicked" /\ balances = exact

\* No exact balance exceeds the sum of all.
LEMMA SumOfParts ==
  ASSUME NEW b \in [Accounts -> Nat]
  PROVE  Sum(b, Accounts) \in Nat /\ \A a \in Accounts : b[a] <= Sum(b, Accounts)
<1>1. b \in [Accounts -> Int] /\ Sum(b, {}) = 0 /\ Sum(b, Accounts) \in Int
  BY SumFirst, SumType
<1>2. Sum(b, Accounts) >= 0
  BY <1>1, SumPart
<1>3. ASSUME NEW a \in Accounts PROVE b[a] <= Sum(b, Accounts)
  <2>1. {a} \in SUBSET Accounts /\ {a} \ {a} = {}
    OBVIOUS
  <2>2. Sum(b, {a}) = b[a] + Sum(b, {a} \ {a})
    BY <1>1, <2>1, SumRemove
  <2>3. Sum(b, {a}) <= Sum(b, Accounts)
    BY <1>1, <2>1, SumPart
  <2> QED  BY <1>1, <2>1, <2>2, <2>3
<1> QED  BY <1>1, <1>2, <1>3

\* An honest transfer moves the exact balances and the supply alike.
LEMMA ExactMoves ==
  ASSUME HoldersTypeOK, ConserveInv, NEW t \in Transfers, Honest(t)
  PROVE  /\ ExactAfter(t) \in [Accounts -> Nat]
         /\ Sum(ExactAfter(t), Accounts) = SupplyAfter(t)
         /\ SupplyAfter(t) \in Nat
<1> DEFINE n == t.amount
<1>1. /\ n \in Nat /\ supply \in Nat /\ exact \in [Accounts -> Nat]
      /\ Sum(exact, Accounts) = supply
      /\ t.from \in Accounts \cup {ZeroAddress} /\ t.to \in Accounts \cup {ZeroAddress}
      /\ ZeroAddress \notin Accounts
  BY SignedType, HoldersAssumption DEF HoldersTypeOK, ConserveInv, Honest, Transfers
<1> HIDE DEF n
<1> DEFINE spent == IF t.from = ZeroAddress THEN exact
                    ELSE [exact EXCEPT ![t.from] = @ - n]
<1>2. /\ spent \in [Accounts -> Nat]
      /\ Sum(spent, Accounts) = supply - (IF t.from = ZeroAddress THEN 0 ELSE n)
  <2>1. CASE t.from = ZeroAddress
    BY <1>1, <2>1
  <2>2. CASE t.from # ZeroAddress
    <3>1. /\ exact[t.from] \in Nat /\ exact[t.from] - n \in Nat /\ t.from \in Accounts
      BY <1>1, <2>2 DEF Honest, n
    <3>2. spent \in [Accounts -> Nat]
      BY <1>1, <2>2, <3>1
    <3>3. Sum(spent, Accounts) = supply - exact[t.from] + (exact[t.from] - n)
      <4>1. exact \in [Accounts -> Int] /\ exact[t.from] - n \in Int
        BY <1>1, <3>1
      <4> QED  BY <1>1, <2>2, <3>1, <4>1, SumUpdate
    <3>4. Sum(spent, Accounts) = supply - n
      BY <1>1, <3>1, <3>3
    <3> HIDE DEF spent
    <3> QED  BY <2>2, <3>2, <3>4
  <2> QED  BY <2>1, <2>2
<1>3. ExactAfter(t) = IF t.to = ZeroAddress THEN spent ELSE [spent EXCEPT ![t.to] = @ + n]
  BY DEF ExactAfter, n
<1> HIDE DEF spent
<1>4. /\ ExactAfter(t) \in [Accounts -> Nat]
      /\ Sum(ExactAfter(t), Accounts) = SupplyAfter(t)
  <2>1. CASE t.to = ZeroAddress
    <3>1. SupplyAfter(t) = Sum(spent, Accounts)
      BY <1>1, <1>2, <2>1 DEF SupplyAfter, n
    <3> QED  BY <1>2, <1>3, <2>1, <3>1
  <2>2. CASE t.to # ZeroAddress
    <3>1. t.to \in Accounts /\ spent[t.to] \in Nat /\ spent[t.to] + n \in Nat
          /\ Sum(spent, Accounts) \in Nat
      BY <1>1, <1>2, <2>2, SumOfParts
    <3>2. ExactAfter(t) \in [Accounts -> Nat]
      BY <1>2, <1>3, <2>2, <3>1
    <3>3. Sum(ExactAfter(t), Accounts) = Sum(spent, Accounts) - spent[t.to] + (spent[t.to] + n)
      <4>1. spent \in [Accounts -> Int] /\ spent[t.to] + n \in Int
        BY <1>2, <3>1
      <4>2. Sum([spent EXCEPT ![t.to] = spent[t.to] + n], Accounts)
              = Sum(spent, Accounts) - spent[t.to] + (spent[t.to] + n)
        BY <3>1, <4>1, SumUpdate
      <4> QED  BY <1>3, <2>2, <4>2
    <3>4. Sum(ExactAfter(t), Accounts) = Sum(spent, Accounts) + n
      BY <1>1, <3>1, <3>3
    <3>5. SupplyAfter(t) = Sum(spent, Accounts) + n
      BY <1>1, <1>2, <2>2 DEF SupplyAfter, n
    <3> QED  BY <3>2, <3>4, <3>5
  <2> QED  BY <2>1, <2>2
<1> QED  BY <1>4, SumOfParts

\* An honest transfer of a supply below 2^127, before and after it, overflows
\* nowhere, and the folded balances stay the exact ones.
LEMMA TransferConserves ==
  ASSUME HoldersTypeOK, ConserveInv, NEW t \in Transfers, Honest(t), conserving,
         SupplyAfter(t) < Half
  PROVE  ~Overflows(t) /\ Credited(t, Debited(t)) = ExactAfter(t)
<1> DEFINE n == t.amount
<1>1. /\ n \in Nat /\ Half \in Nat /\ supply \in Nat /\ supply < Half
      /\ exact \in [Accounts -> Nat] /\ balances = exact
      /\ t.from \in Accounts \cup {ZeroAddress} /\ t.to \in Accounts \cup {ZeroAddress}
      /\ ZeroAddress \notin Accounts
  BY SignedType, HoldersAssumption DEF HoldersTypeOK, ConserveInv, conserving, Transfers
<1>2. \A m \in Nat : m < Half => m \in I128 /\ Wrapped(m) = m
  BY <1>1, WrappedType DEF I128
<1>3. /\ ExactAfter(t) \in [Accounts -> Nat]
      /\ \A a \in Accounts : exact[a] < Half /\ ExactAfter(t)[a] < Half
  <2>1. Sum(exact, Accounts) = supply
    BY DEF ConserveInv, conserving
  <2>2. \A a \in Accounts : exact[a] <= supply /\ exact[a] \in Nat
    BY <1>1, <2>1, SumOfParts
  <2>3. /\ ExactAfter(t) \in [Accounts -> Nat] /\ SupplyAfter(t) \in Nat
        /\ \A a \in Accounts : ExactAfter(t)[a] <= SupplyAfter(t)
    BY ExactMoves, SumOfParts
  <2> QED  BY <1>1, <2>2, <2>3
<1>4. CASE t.from = ZeroAddress /\ t.to = ZeroAddress
  BY <1>1, <1>4 DEF Overflows, Debited, Credited, ExactAfter
<1>5. CASE ~(t.from = ZeroAddress /\ t.to = ZeroAddress)
  <2>1. n < Half
    <3>1. CASE t.from = ZeroAddress
      BY <1>1, <1>5, <3>1 DEF SupplyAfter, n
    <3>2. CASE t.from # ZeroAddress
      <4>1. n <= exact[t.from] /\ exact[t.from] < Half /\ exact[t.from] \in Nat
        BY <1>1, <1>3, <3>2 DEF Honest, n
      <4> QED  BY <1>1, <4>1
    <3> QED  BY <3>1, <3>2
  <2>2. Signed(t) = n
    BY <2>1, SignedType
  <2> HIDE DEF n
  <2> DEFINE spent == IF t.from = ZeroAddress THEN exact
                      ELSE [exact EXCEPT ![t.from] = @ - n]
  <2>3. /\ spent \in [Accounts -> Nat] /\ Debited(t) = spent
        /\ t.from # ZeroAddress => balances[t.from] - Signed(t) \in I128
    <3>1. CASE t.from = ZeroAddress
      BY <1>1, <3>1 DEF Debited
    <3>2. CASE t.from # ZeroAddress
      <4>1. /\ t.from \in Accounts /\ exact[t.from] \in Nat /\ exact[t.from] < Half
            /\ exact[t.from] - n \in Nat
        BY <1>1, <1>3, <3>2 DEF Honest, n
      <4>2. exact[t.from] - n < Half
        BY <1>1, <4>1
      <4>3. exact[t.from] - n \in I128 /\ Wrapped(exact[t.from] - n) = exact[t.from] - n
        BY <1>2, <4>1, <4>2
      <4>4. spent \in [Accounts -> Nat]
        BY <1>1, <3>2, <4>1
      <4> QED  BY <1>1, <2>2, <3>2, <4>1, <4>3, <4>4 DEF Debited
    <3> QED  BY <3>1, <3>2
  <2>4. ExactAfter(t) = IF t.to = ZeroAddress THEN spent ELSE [spent EXCEPT ![t.to] = @ + n]
    BY DEF ExactAfter, n
  <2> HIDE DEF spent
  <2>5. CASE t.to = ZeroAddress
    BY <2>3, <2>4, <2>5 DEF Overflows, Credited
  <2>6. CASE t.to # ZeroAddress
    <3>1. /\ t.to \in Accounts /\ spent[t.to] + n \in Nat /\ spent[t.to] + n < Half
      BY <1>1, <1>3, <2>3, <2>4, <2>6
    <3>2. spent[t.to] + n \in I128 /\ Wrapped(spent[t.to] + n) = spent[t.to] + n
      BY <1>2, <3>1
    <3> QED  BY <2>2, <2>3, <2>4, <2>6, <3>1, <3>2 DEF Overflows, Credited
  <2> QED  BY <2>5, <2>6
<1> QED  BY <1>4, <1>5

-----------------------------------------------------------------------------
(* Holders: the inductive invariant.                                        *)

\* Nothing is listed before the fold ends, the list is of the richest, and the
\* sums of a conserving token are exact.
ListInv ==
  /\ fold = "Folding" => top = {}
  /\ fold = "Folding" /\ transfers = 0 => balances = [a \in Accounts |-> 0]
  /\ fold \in {"Listed", "Measured"} => IsTop(top, Positive, TopK)
  /\ fold = "Measured" /\ conserving =>
       /\ total = SumOf(top)
       /\ \E set \in SUBSET top : IsTop(set, top, TopN) /\ topSum = SumOf(set)

HoldersInv == HoldersTypeOK /\ ConserveInv /\ ListInv

\* Zeros sum up to zero.
LEMMA ZeroSum ==
  ASSUME NEW b \in [Accounts -> Int], \A a \in Accounts : b[a] = 0
  PROVE  Sum(b, Accounts) = 0
<1>1. Sum(b, {}) = 0
  BY SumFirst
<1>2. {} \in SUBSET Accounts /\ Accounts \in SUBSET Accounts
  OBVIOUS
<1> QED  BY <1>1, <1>2, SumPart

\* It holds before the first log.
LEMMA HoldersInitInv == HoldersInit => HoldersInv
<1> SUFFICES ASSUME HoldersInit PROVE HoldersInv
  OBVIOUS
<1>1. balances \in [Accounts -> I128] /\ Half \in Nat \ {0} /\ MaxTransfers \in Nat
  BY HoldersAssumption DEF HoldersInit, I128
<1>2. HoldersTypeOK
  BY <1>1, HoldersAssumption DEF HoldersInit, HoldersTypeOK
<1>3. ConserveInv
  <2>1. exact \in [Accounts -> Int] /\ \A a \in Accounts : exact[a] = 0
    BY DEF HoldersInit
  <2>2. Sum(exact, Accounts) = 0
    BY <2>1, ZeroSum
  <2> QED  BY <1>1, <2>2 DEF HoldersInit, ConserveInv
<1>4. ListInv
  BY DEF HoldersInit, ListInv
<1> QED  BY <1>2, <1>3, <1>4 DEF HoldersInv

\* What is remembered of a transfer.
LEMMA Remembered ==
  ASSUME HoldersTypeOK, ConserveInv, NEW t \in Transfers, Remember(t)
  PROVE  /\ honest' \in BOOLEAN /\ exact' \in [Accounts -> Nat]
         /\ supply' \in Nat /\ peak' \in Nat
         /\ honest' => Sum(exact', Accounts) = supply' /\ supply' <= peak'
         /\ conserving' => /\ conserving /\ ~Overflows(t)
                           /\ exact' = Credited(t, Debited(t))
<1>1. CASE Honest(t)
  <2>1. /\ exact' = ExactAfter(t) /\ supply' = SupplyAfter(t) /\ honest' = honest
        /\ peak' = LargerOf(peak, SupplyAfter(t))
    BY <1>1 DEF Remember
  <2>2. /\ SupplyAfter(t) \in Nat /\ peak \in Nat /\ honest
    BY <1>1, ExactMoves DEF HoldersTypeOK, Honest
  <2>3. peak' \in Nat /\ supply' <= peak' /\ peak <= peak'
    BY <2>1, <2>2 DEF LargerOf
  <2>4. ASSUME conserving'
        PROVE  conserving /\ ~Overflows(t) /\ exact' = Credited(t, Debited(t))
    <3>1. conserving /\ SupplyAfter(t) < Half
      BY <2>1, <2>2, <2>3, <2>4, HoldersAssumption DEF conserving
    <3> QED  BY <1>1, <2>1, <3>1, TransferConserves
  <2> QED  BY <1>1, <2>1, <2>2, <2>3, <2>4, ExactMoves
<1>2. CASE ~Honest(t)
  <2>1. honest' = FALSE /\ exact' = [a \in Accounts |-> 0] /\ supply' = 0 /\ peak' = 0
    BY <1>2 DEF Remember
  <2> QED  BY <2>1 DEF conserving
<1> QED  BY <1>1, <1>2

\* The sum of the balances of a conserving token is within its supply.
LEMMA SumInSupply ==
  ASSUME HoldersTypeOK, ConserveInv, conserving
  PROVE  \A S \in SUBSET Accounts :
           /\ SumOf(S) \in Nat /\ SumOf(S) <= supply /\ SumOf(S) < 2 * Half
           /\ SumOf(S) % (2 * Half) = SumOf(S)
<1> TAKE S \in SUBSET Accounts
<1>1. /\ balances \in [Accounts -> Int] /\ \A a \in Accounts : balances[a] >= 0
      /\ Sum(balances, Accounts) = supply /\ supply < Half /\ supply \in Nat
      /\ Half \in Nat \ {0}
  BY HoldersAssumption DEF HoldersTypeOK, ConserveInv, conserving
<1>2. Sum(balances, S) <= Sum(balances, Accounts) /\ Sum(balances, S) \in Int
  BY <1>1, SumPart, SumType
<1>3. Sum(balances, S) >= 0
  <2>1. Sum(balances, {}) = 0 /\ {} \in SUBSET S
    BY SumFirst
  <2> QED  BY <1>1, <2>1, SumPart
<1> DEFINE n == SumOf(S)
           m == 2 * Half
<1>4. n \in Nat /\ n <= supply /\ m \in Nat \ {0} /\ n < m
  BY <1>1, <1>2, <1>3, SumOfIs
<1> HIDE DEF n, m
<1>5. n % m = n
  BY <1>4
<1> QED  BY <1>4, <1>5 DEF n, m

\* Every step preserves the types: the casts, the wraps and the sums end in
\* their widths.
LEMMA HoldersTypeStep ==
  HoldersInv /\ [HoldersNext]_holdersVars => HoldersTypeOK'
<1> SUFFICES ASSUME HoldersTypeOK, ConserveInv, ListInv, [HoldersNext]_holdersVars
             PROVE  HoldersTypeOK'
  BY DEF HoldersInv
<1> USE DEF measured, history
<1>0. Half \in Nat \ {0} /\ MaxTransfers \in Nat
  BY HoldersAssumption
<1>1. CASE FoldTransfer
  <2>1. PICK t \in Transfers : balances' = Credited(t, Debited(t)) /\ Remember(t)
    BY <1>1 DEF FoldTransfer
  <2>2. balances' \in [Accounts -> I128]
    BY <2>1, TransferType DEF HoldersTypeOK
  <2>3. honest' \in BOOLEAN /\ exact' \in [Accounts -> Nat] /\ supply' \in Nat /\ peak' \in Nat
    BY <2>1, Remembered
  <2>4. top' = {} /\ transfers' \in 0..MaxTransfers
    BY <1>0, <1>1 DEF FoldTransfer, ListInv, HoldersTypeOK
  <2> QED  BY <1>1, <2>2, <2>3, <2>4 DEF FoldTransfer, HoldersTypeOK
<1>2. CASE FoldOverflow
  <2>1. PICK t \in Transfers : Remember(t)
    BY <1>2 DEF FoldOverflow
  <2>2. honest' \in BOOLEAN /\ exact' \in [Accounts -> Nat] /\ supply' \in Nat /\ peak' \in Nat
    BY <2>1, Remembered
  <2> QED  BY <1>2, <2>2 DEF FoldOverflow, HoldersTypeOK, Positive
<1>3. CASE SkipLog
  BY <1>0, <1>3 DEF SkipLog, HoldersTypeOK, Positive
<1>4. CASE ListTop \/ ListNothing
  <2>1. top' \subseteq Positive
    BY <1>4 DEF ListTop, ListNothing
  <2> QED  BY <1>4, <2>1 DEF ListTop, ListNothing, HoldersTypeOK, Positive
<1>5. CASE MeasureShares
  <2>1. \A n \in Int : n % (2 * Half) \in 0..(2 * Half - 1)
    <3> DEFINE m == 2 * Half
    <3>1. m \in Nat \ {0}
      BY <1>0
    <3> HIDE DEF m
    <3>2. \A n \in Int : n % m \in 0..(m - 1)
      BY <3>1
    <3> QED  BY <3>2 DEF m
  <2>2. \A S \in SUBSET Accounts : SumOf(S) \in Int
    <3>1. balances \in [Accounts -> Int]
      BY DEF HoldersTypeOK, I128
    <3> QED  BY <3>1, SumOfIs, SumType
  <2>3. top \in SUBSET Accounts
    BY DEF HoldersTypeOK, Positive
  <2>4. total' \in 0..(2 * Half - 1)
    BY <1>5, <2>1, <2>2, <2>3 DEF MeasureShares
  <2>5. topSum' \in 0..(2 * Half - 1)
    <3>1. PICK set \in SUBSET top :
            topSum' = IF total' = 0 THEN 0 ELSE SumOf(set) % (2 * Half)
      BY <1>5 DEF MeasureShares
    <3>2. set \in SUBSET Accounts
      BY <2>3
    <3> QED  BY <1>0, <2>1, <2>2, <3>1, <3>2
  <2> QED  BY <1>5, <2>4, <2>5 DEF MeasureShares, HoldersTypeOK, Positive
<1>6. CASE SumOverflow
  BY <1>6 DEF SumOverflow, HoldersTypeOK, Positive
<1>7. CASE UNCHANGED holdersVars
  BY <1>7 DEF holdersVars, HoldersTypeOK, Positive
<1> QED
  BY <1>1, <1>2, <1>3, <1>4, <1>5, <1>6, <1>7 DEF HoldersNext, HoldersEnded

\* Every step preserves ConserveInv: only FoldTransfer moves balances, and a
\* conserving token gives neither of the panics a cause.
LEMMA ConserveStep ==
  HoldersInv /\ [HoldersNext]_holdersVars => ConserveInv'
<1> SUFFICES ASSUME HoldersTypeOK, ConserveInv, [HoldersNext]_holdersVars
             PROVE  ConserveInv'
  BY DEF HoldersInv
<1> USE DEF measured, history
<1>1. CASE FoldTransfer
  <2>1. PICK t \in Transfers : balances' = Credited(t, Debited(t)) /\ Remember(t)
    BY <1>1 DEF FoldTransfer
  <2> QED  BY <1>1, <2>1, Remembered DEF FoldTransfer, ConserveInv
<1>2. CASE FoldOverflow
  <2>1. PICK t \in Transfers : Overflows(t) /\ Remember(t)
    BY <1>2 DEF FoldOverflow
  <2>2. ~conserving'
    BY <2>1, Remembered
  <2> QED  BY <2>1, <2>2, Remembered DEF ConserveInv
<1>3. CASE SkipLog \/ ListTop \/ ListNothing \/ MeasureShares
  BY <1>3 DEF SkipLog, ListTop, ListNothing, MeasureShares, ConserveInv, conserving
<1>4. CASE SumOverflow
  <2>1. top \in SUBSET Accounts
    BY DEF HoldersTypeOK, Positive
  <2>2. conserving => SumOf(top) < 2 * Half
    BY <2>1, SumInSupply
  <2>3. conserving => SumOf(top) \in Nat
    BY <2>1, SumInSupply
  <2>4. ~conserving
    BY <1>4, <2>2, <2>3, HoldersAssumption DEF SumOverflow
  <2> QED  BY <1>4, <2>4 DEF SumOverflow, ConserveInv, conserving
<1>5. CASE UNCHANGED holdersVars
  BY <1>5 DEF holdersVars, ConserveInv, conserving
<1> QED
  BY <1>1, <1>2, <1>3, <1>4, <1>5 DEF HoldersNext, HoldersEnded

\* Every step preserves ListInv: the balances rest once they are listed.
LEMMA ListStep ==
  HoldersInv /\ [HoldersNext]_holdersVars => ListInv'
<1> SUFFICES ASSUME HoldersTypeOK, ConserveInv, ListInv, [HoldersNext]_holdersVars
             PROVE  ListInv'
  BY DEF HoldersInv
<1> USE DEF measured, history
<1>0. TopK \in Nat /\ TopN \in Nat /\ transfers \in Nat
  BY HoldersAssumption DEF HoldersTypeOK
<1>1. CASE FoldTransfer \/ FoldOverflow \/ SkipLog
  <2>1. CASE FoldTransfer
    BY <1>0, <2>1 DEF FoldTransfer, ListInv
  <2>2. CASE FoldOverflow
    BY <2>2 DEF FoldOverflow, ListInv
  <2>3. CASE SkipLog
    BY <1>0, <2>3 DEF SkipLog, ListInv
  <2> QED  BY <1>1, <2>1, <2>2, <2>3
<1>2. CASE ListTop
  BY <1>2 DEF ListTop, ListInv, IsTop, Positive
<1>3. CASE ListNothing
  <2>1. Positive = {} /\ Positive' = {}
    BY <1>3 DEF ListNothing, ListInv, Positive
  <2>2. Cardinality({}) = 0 /\ LeastOf2(TopK, 0) = 0
    BY <1>0, FS_EmptySet DEF LeastOf2
  <2>3. IsTop(top, Positive, TopK)'
    BY <1>3, <2>1, <2>2 DEF ListNothing, IsTop
  <2> QED  BY <1>3, <2>3 DEF ListNothing, ListInv
<1>4. CASE MeasureShares
  <2>1. IsTop(top, Positive, TopK)'
    BY <1>4 DEF MeasureShares, ListInv, IsTop, Positive
  <2>2. ASSUME conserving
        PROVE  /\ total' = SumOf(top)'
               /\ \E set \in SUBSET top : IsTop(set, top, TopN)' /\ topSum' = SumOf(set)'
    <3>1. /\ balances' = balances /\ top' = top
          /\ \A S : SumOf(S)' = SumOf(S) /\ IsTop(S, top, TopN)' = IsTop(S, top, TopN)
      <4>1. balances' = balances /\ top' = top
        BY <1>4 DEF MeasureShares
      <4>2. \A S : IsTop(S, top, TopN)' = IsTop(S, top, TopN)
        BY <4>1 DEF IsTop
      <4> QED  BY <4>1, <4>2, SumOfStays
    <3>2. top \in SUBSET Accounts
      BY DEF HoldersTypeOK, Positive
    <3>3. total' = SumOf(top)
      BY <1>4, <2>2, <3>2, SumInSupply DEF MeasureShares
    <3>4. PICK set \in SUBSET top :
            /\ IsTop(set, top, TopN)
            /\ topSum' = IF total' = 0 THEN 0 ELSE SumOf(set) % (2 * Half)
      BY <1>4 DEF MeasureShares
    <3>5. SumOf(set) % (2 * Half) = SumOf(set) /\ SumOf(set) \in Nat
      BY <2>2, <3>2, SumInSupply
    <3>6. SumOf(set) <= SumOf(top)
      <4>1. balances \in [Accounts -> Int] /\ \A a \in top \ set : balances[a] >= 0
        BY DEF HoldersTypeOK, I128, Positive
      <4>2. Sum(balances, set) <= Sum(balances, top)
        BY <3>2, <4>1, SumPart
      <4> QED  BY <4>2, SumOfIs
    <3>7. topSum' = SumOf(set)
      BY <3>3, <3>4, <3>5, <3>6
    <3> QED  BY <3>1, <3>3, <3>4, <3>7
  <2>3. conserving' = conserving /\ fold' = "Measured" /\ top' = top
    BY <1>4 DEF MeasureShares, conserving
  <2> QED  BY <2>1, <2>2, <2>3 DEF ListInv
<1>5. CASE SumOverflow
  BY <1>5 DEF SumOverflow, ListInv
<1>6. CASE UNCHANGED holdersVars
  <2>1. \A S : SumOf(S)' = SumOf(S)
    BY <1>6, SumOfStays DEF holdersVars
  <2> QED  BY <1>6, <2>1 DEF holdersVars, ListInv, IsTop, Positive, conserving
<1> QED
  BY <1>1, <1>2, <1>3, <1>4, <1>5, <1>6 DEF HoldersNext, HoldersEnded

\* The three together are an invariant.
LEMMA HoldersInvariant == HoldersSpec => []HoldersInv
<1>1. HoldersInv /\ [HoldersNext]_holdersVars => HoldersInv'
  BY HoldersTypeStep, ConserveStep, ListStep DEF HoldersInv
<1> QED  BY <1>1, HoldersInitInv, PTL DEF HoldersSpec

\* Folding, listing and measuring keep balances in i128 and sums in u128.
THEOREM HoldersTypeCorrect == HoldersSpec => []HoldersTypeOK
<1>1. HoldersInv => HoldersTypeOK
  BY DEF HoldersInv
<1> QED  BY <1>1, HoldersInvariant, PTL

\* fetch_holder_balances: the balances of a conserving token are those of the
\* token itself, and nothing of it panics in the dev profile.
THEOREM BalancesExactCorrect == HoldersSpec => []BalancesExact
<1>1. HoldersInv => BalancesExact
  BY DEF HoldersInv, ConserveInv, BalancesExact
<1> QED  BY <1>1, HoldersInvariant, PTL

-----------------------------------------------------------------------------
(* Holders: the shares.                                                     *)

\* Of two finite sets with as many common members, the smaller has no more of
\* its own.
LEMMA DifferenceCardinality ==
  ASSUME NEW A \in SUBSET Accounts, NEW B \in SUBSET Accounts,
         Cardinality(A) <= Cardinality(B)
  PROVE  Cardinality(A \ B) <= Cardinality(B \ A)
<1>1. IsFiniteSet(A) /\ IsFiniteSet(B) /\ IsFiniteSet(A \cap B)
      /\ IsFiniteSet(A \ B) /\ IsFiniteSet(B \ A)
  <2>1. \A S \in SUBSET Accounts : IsFiniteSet(S)
    BY HoldersAssumption, FS_Subset
  <2> QED  BY <2>1
<1>2. /\ Cardinality(A) \in Nat /\ Cardinality(B) \in Nat /\ Cardinality(A \cap B) \in Nat
      /\ Cardinality(A \ B) \in Nat /\ Cardinality(B \ A) \in Nat
  BY <1>1, FS_CardinalityType
<1>3. Cardinality(A \ B) = Cardinality(A) - Cardinality(A \cap B)
  BY <1>1, FS_Difference
<1>4. Cardinality(B \ A) = Cardinality(B) - Cardinality(B \cap A)
  BY <1>1, FS_Difference
<1>5. B \cap A = A \cap B
  OBVIOUS
<1> QED  BY <1>1, <1>2, <1>3, <1>4, <1>5

\* A set sums up to its part in another set and its part out of it.
LEMMA SumSplit ==
  ASSUME NEW b \in [Accounts -> Int]
  PROVE  \A S \in SUBSET Accounts : \A T \in SUBSET S :
           Sum(b, S) = Sum(b, T) + Sum(b, S \ T)
<1> DEFINE Bad == {S \in SUBSET Accounts :
                     \E T \in SUBSET S : Sum(b, S) # Sum(b, T) + Sum(b, S \ T)}
<1> SUFFICES ASSUME Bad # {} PROVE FALSE
  OBVIOUS
<1>1. PICK S \in Bad : \A U \in Bad : ~(U \subseteq S /\ U # S)
  <2>1. Bad \in SUBSET (SUBSET Accounts)
    OBVIOUS
  <2> HIDE DEF Bad
  <2> QED  BY <2>1, LeastSet
<1>2. S \in SUBSET Accounts
  OBVIOUS
<1>3. PICK T \in SUBSET S : Sum(b, S) # Sum(b, T) + Sum(b, S \ T)
  OBVIOUS
<1>4. \A U \in SUBSET S : U # S /\ T \in SUBSET U => Sum(b, U) = Sum(b, T) + Sum(b, U \ T)
  BY <1>1, <1>2
<1> HIDE DEF Bad
<1>5. T # S
  <2> SUFFICES ASSUME T = S PROVE FALSE
    OBVIOUS
  <2>1. S \ T = {} /\ Sum(b, {}) = 0 /\ Sum(b, S) \in Int
    BY <1>2, SumFirst, SumType
  <2> QED  BY <1>3, <2>1
<1>6. PICK x \in S \ T : TRUE
  BY <1>5
<1> DEFINE U == S \ {x}
           V == S \ T
           W == U \ T
<1>7. /\ U \in SUBSET S /\ U # S /\ T \in SUBSET U /\ U \in SUBSET Accounts
      /\ W = V \ {x} /\ x \in V /\ V \in SUBSET Accounts /\ W \in SUBSET Accounts
      /\ T \in SUBSET Accounts
  BY <1>2, <1>6
<1>8. Sum(b, S) = b[x] + Sum(b, U)
  BY <1>2, <1>6, SumRemove
<1>9. Sum(b, U) = Sum(b, T) + Sum(b, W)
  <2> HIDE DEF U
  <2> QED  BY <1>4, <1>7
<1> HIDE DEF U, V, W
<1>10. Sum(b, V) = b[x] + Sum(b, W)
  BY <1>7, SumRemove
<1>11. Sum(b, T) \in Int /\ Sum(b, W) \in Int /\ b[x] \in Int
  BY <1>2, <1>6, <1>7, SumType
<1> QED  BY <1>3, <1>8, <1>9, <1>10, <1>11 DEF V

\* No accounts, as many as are counted, hold more than those that are.
LEMMA RichestListed ==
  ASSUME HoldersTypeOK, \A a \in Accounts : balances[a] >= 0,
         IsTop(top, Positive, TopK),
         NEW set \in SUBSET top, IsTop(set, top, TopN),
         NEW richest \in SUBSET Accounts,
         Cardinality(richest) <= LeastOf2(TopN, TopK)
  PROVE  SumOf(richest) <= SumOf(set)
<1> DEFINE rich == richest \cap Positive
           A == rich \ set
           B == set \ rich
<1>1. /\ balances \in [Accounts -> Int] /\ Positive \in SUBSET Accounts
      /\ top \in SUBSET Positive /\ set \in SUBSET Accounts /\ rich \in SUBSET Accounts
      /\ A \in SUBSET Accounts /\ B \in SUBSET Accounts
      /\ TopK \in Nat /\ TopN \in Nat
  BY HoldersAssumption DEF HoldersTypeOK, I128, Positive
<1>2. \A S \in SUBSET Accounts : IsFiniteSet(S) /\ Cardinality(S) \in Nat
  BY HoldersAssumption, FS_Subset, FS_CardinalityType
<1>3. Sum(balances, richest) = Sum(balances, rich)
  <2>1. \A x \in richest \ rich : balances[x] = 0
    <3>1. \A x \in richest \ rich : balances[x] \in Int /\ balances[x] >= 0 /\ ~(balances[x] > 0)
      BY <1>1 DEF Positive
    <3> QED  BY <3>1
  <2>2. rich \in SUBSET richest /\ \A x \in richest \ rich : balances[x] >= 0
    OBVIOUS
  <2> HIDE DEF rich
  <2> QED  BY <1>1, <2>1, <2>2, SumPart
<1>4. Cardinality(rich) <= Cardinality(set)
  <2>1. /\ Cardinality(rich) <= Cardinality(richest)
        /\ Cardinality(rich) <= Cardinality(Positive)
    <3>1. rich \in SUBSET richest /\ rich \in SUBSET Positive
      OBVIOUS
    <3> HIDE DEF rich
    <3> QED  BY <1>1, <1>2, <3>1, FS_Subset
  <2>2. /\ Cardinality(top) = LeastOf2(TopK, Cardinality(Positive))
        /\ Cardinality(set) = LeastOf2(TopN, Cardinality(top))
    BY DEF IsTop
  <2>3. /\ Cardinality(rich) \in Nat /\ Cardinality(richest) \in Nat
        /\ Cardinality(Positive) \in Nat
    BY <1>1, <1>2
  <2> HIDE DEF rich
  <2> QED  BY <1>1, <2>1, <2>2, <2>3 DEF LeastOf2
<1>5. Cardinality(A) <= Cardinality(B)
  <2> HIDE DEF rich
  <2> QED  BY <1>1, <1>4, DifferenceCardinality
<1>6. \A x \in A, y \in B : balances[x] <= balances[y]
  <2> TAKE x \in A, y \in B
  <2>1. balances[x] \in Int /\ balances[y] \in Int /\ y \in set /\ y \in top
    BY <1>1
  <2>2. CASE x \in top
    <3>1. balances[y] >= balances[x]
      BY <2>1, <2>2 DEF IsTop
    <3> QED  BY <2>1, <3>1
  <2>3. CASE x \notin top
    <3>1. balances[y] >= balances[x]
      BY <2>1, <2>3 DEF IsTop
    <3> QED  BY <2>1, <3>1
  <2> QED  BY <2>2, <2>3
<1>7. \A y \in B : balances[y] >= 0
  BY <1>1
<1>8. Sum(balances, A) <= Sum(balances, B)
  <2> HIDE DEF A, B
  <2> QED  BY <1>1, <1>5, <1>6, <1>7, SumDominates
<1>9. /\ Sum(balances, rich) = Sum(balances, rich \cap set) + Sum(balances, A)
      /\ Sum(balances, set) = Sum(balances, rich \cap set) + Sum(balances, B)
  <2> DEFINE both == rich \cap set
  <2>1. both \in SUBSET rich /\ both \in SUBSET set /\ rich \ both = A /\ set \ both = B
    OBVIOUS
  <2> HIDE DEF both, rich, A, B
  <2>2. Sum(balances, rich) = Sum(balances, both) + Sum(balances, rich \ both)
    BY <1>1, <2>1, SumSplit
  <2>3. Sum(balances, set) = Sum(balances, both) + Sum(balances, set \ both)
    BY <1>1, <2>1, SumSplit
  <2> QED  BY <2>1, <2>2, <2>3 DEF both
<1>10. /\ Sum(balances, A) \in Int /\ Sum(balances, B) \in Int
       /\ Sum(balances, rich \cap set) \in Int
  <2>1. rich \cap set \in SUBSET Accounts
    BY <1>1
  <2> HIDE DEF A, B, rich
  <2> QED  BY <1>1, <2>1, SumType
<1> HIDE DEF A, B, rich
<1> QED  BY <1>3, <1>8, <1>9, <1>10, SumOfIs

\* from_snapshot and top_n_share: no accounts, as many as the share is of, hold
\* more than its numerator, and its denominator is the supply exactly when no
\* holder was cut off.
THEOREM SharesOfSupplyCorrect == HoldersSpec => []SharesOfSupply
<1>1. HoldersInv => SharesOfSupply
  <2> SUFFICES ASSUME HoldersTypeOK, ConserveInv, ListInv, fold = "Measured", conserving
               PROVE  /\ topSum <= total
                      /\ \A richest \in SUBSET Accounts :
                           Cardinality(richest) <= LeastOf2(TopN, TopK)
                             => SumOf(richest) <= topSum
                      /\ IF Cardinality(Positive) <= TopK
                           THEN total = supply ELSE total < supply
    BY DEF HoldersInv, SharesOfSupply
  <2>1. PICK set \in SUBSET top : IsTop(set, top, TopN) /\ topSum = SumOf(set)
    BY DEF ListInv
  <2>2. IsTop(top, Positive, TopK) /\ total = SumOf(top)
    BY DEF ListInv
  <2>3. /\ balances \in [Accounts -> Int] /\ \A a \in Accounts : balances[a] >= 0
        /\ Sum(balances, Accounts) = supply
        /\ top \in SUBSET Positive /\ Positive \in SUBSET Accounts
        /\ TopK \in Nat
    BY HoldersAssumption DEF HoldersTypeOK, ConserveInv, conserving, I128, Positive
  <2>4. SumOf(set) <= SumOf(top)
    <3>1. top \in SUBSET Accounts /\ \A x \in top \ set : balances[x] >= 0
      BY <2>3
    <3>2. Sum(balances, set) <= Sum(balances, top)
      BY <2>3, <3>1, SumPart
    <3> QED  BY <3>2, SumOfIs
  <2>5. ASSUME NEW richest \in SUBSET Accounts,
               Cardinality(richest) <= LeastOf2(TopN, TopK)
        PROVE  SumOf(richest) <= SumOf(set)
    BY <2>1, <2>2, <2>3, <2>5, RichestListed
  <2>6. Sum(balances, Positive) = supply
    <3>1. \A x \in Accounts \ Positive : balances[x] \in Int /\ balances[x] >= 0 /\ ~(balances[x] > 0)
      BY <2>3 DEF Positive
    <3>2. \A x \in Accounts \ Positive : balances[x] = 0 /\ balances[x] >= 0
      BY <3>1
    <3> QED  BY <2>3, <3>2, SumPart
  <2>7. /\ IsFiniteSet(Positive) /\ Cardinality(Positive) \in Nat
        /\ Cardinality(top) = LeastOf2(TopK, Cardinality(Positive))
    <3>1. IsFiniteSet(Positive)
      BY <2>3, HoldersAssumption, FS_Subset
    <3> QED  BY <2>2, <3>1, FS_CardinalityType DEF IsTop
  <2>8. CASE Cardinality(Positive) <= TopK
    <3>1. Cardinality(top) = Cardinality(Positive)
      BY <2>3, <2>7, <2>8 DEF LeastOf2
    <3>2. top = Positive
      BY <2>3, <2>7, <3>1, FS_Subset
    <3>3. total = supply
      BY <2>2, <2>6, <3>2, SumOfIs
    <3> QED  BY <2>1, <2>2, <2>4, <2>5, <2>8, <3>3
  <2>9. CASE ~(Cardinality(Positive) <= TopK)
    <3>1. top # Positive
      BY <2>3, <2>7, <2>9 DEF LeastOf2
    <3>2. \A x \in Positive \ top : balances[x] >= 0 /\ balances[x] > 0
      BY <2>3 DEF Positive
    <3>3. Sum(balances, top) < Sum(balances, Positive)
      BY <2>3, <3>1, <3>2, SumPart
    <3>4. total < supply
      BY <2>2, <2>6, <3>3, SumOfIs
    <3> QED  BY <2>1, <2>2, <2>4, <2>5, <2>9, <3>4
  <2> QED  BY <2>8, <2>9
<1> QED  BY <1>1, HoldersInvariant, PTL

-----------------------------------------------------------------------------
(* The four side by side.                                                   *)

\* A component that rests is in one of its initial states.
LEMMA RestsAreInitial ==
  /\ RegistryRests => RegistryInit
  /\ BytecodeRests => BytecodeInit
  /\ BloomRests => BloomInit
<1>1. RegistryRests => RegistryInit
  BY DEF RegistryRests, RegistryInit
<1>2. BytecodeRests => BytecodeInit
  <2>1. <<>> \in [1..0 -> KnownSignatures] /\ 0 \in 0..MaxSignatures
    BY BytecodeAssumption
  <2> QED  BY <2>1 DEF BytecodeRests, BytecodeInit
<1>3. BloomRests => BloomInit
  <2>1. [by |-> "new", m |-> 0, k |-> 0] \in Requests
    BY BloomAssumption DEF Requests
  <2>2. (CHOOSE r \in Requests : TRUE) \in Requests
    BY <2>1
  <2>3. (CHOOSE d \in Digests : TRUE) \in Digests
    BY BloomAssumption
  <2> QED  BY <2>2, <2>3 DEF BloomRests, BloomInit
<1> QED  BY <1>1, <1>2, <1>3

\* A behaviour of the four together is one of each: what a run finds of a
\* component in MCAlgorithms, its own specification allows.
THEOREM EachAlgorithmRuns ==
  MCSpec => RegistrySpec /\ BytecodeSpec /\ BloomSpec /\ HoldersSpec
<1>1. MCInit => RegistryInit /\ BytecodeInit /\ BloomInit /\ HoldersInit
  BY RestsAreInitial DEF MCInit
<1>2. [MCNext]_vars => [RegistryNext]_registryVars
  BY DEF MCNext, vars
<1>3. [MCNext]_vars => [BytecodeNext]_bytecodeVars
  BY DEF MCNext, vars
<1>4. [MCNext]_vars => [BloomNext]_bloomVars
  BY DEF MCNext, vars
<1>5. [MCNext]_vars => [HoldersNext]_holdersVars
  BY DEF MCNext, vars
<1> QED
  BY <1>1, <1>2, <1>3, <1>4, <1>5, PTL
  DEF MCSpec, RegistrySpec, BytecodeSpec, BloomSpec, HoldersSpec

\* The registry, the scan, the filter and the fold keep their types, and the
\* filter finds what was inserted, also side by side.
THEOREM AlgorithmsTypeCorrect == MCSpec => []AlgorithmsTypeOK
<1>1. MCSpec => [](RegistryTypeOK /\ BytecodeTypeOK /\ BloomTypeOK /\ HoldersTypeOK
                   /\ NoFalseNegatives)
  BY EachAlgorithmRuns, RegistryTypeCorrect, BytecodeTypeCorrect, BloomTypeCorrect,
     HoldersTypeCorrect, NoFalseNegativesCorrect, PTL
<1> QED  BY <1>1, PTL DEF AlgorithmsTypeOK

=============================================================================
