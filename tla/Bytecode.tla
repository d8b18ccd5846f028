------------------------------ MODULE Bytecode ------------------------------
(***************************************************************************)
(* SignatureSet and scan_bytecode, as fetch_bytecode_flags uses them: a    *)
(* file of signatures is loaded once into a HashMap, and the code of each  *)
(* token is searched for every selector of the map, in the order the map   *)
(* happens to have.                                                        *)
(*                                                                         *)
(* A flag is the set of its bits.                                          *)
(***************************************************************************)
EXTENDS Integers, Sequences

CONSTANTS
  Codes,          \* runtime codes: sequences of bytes
  Selectors,      \* selectors of signature files: sequences of bytes
  Flags,          \* bits a signature may raise
  BadHex,         \* a selector that is not hexadecimal
  MaxSignatures,  \* bound: signatures of a file
  TransferSelector, BalanceOfSelector, TotalSupplySelector

ASSUME BytecodeAssumption ==
  /\ "honeypot" \in Flags
  /\ BadHex \notin Selectors
  /\ MaxSignatures \in Nat

TransferName == "transfer(address,uint256)"

\* KnownSignature: of the names, the scan tells only one from the others.
KnownSignatures ==
  [selector : Selectors \cup {BadHex}, flag : SUBSET Flags,
   name : {TransferName, "another"}]

VARIABLES
  file,          \* the signatures of the file, in its order
  read,          \* signatures read so far
  bySelector,    \* SignatureSet.by_selector
  scan,          \* "Loading", "Failed", "Idle", "Scanning" or "Scanned"
  code,          \* the code being scanned
  unseen,        \* selectors the iteration has not come to
  mask,          \* the flags raised
  transferSeen

scanned      == <<code, unseen, mask, transferSeen>>
bytecodeVars == <<file, read, bySelector, scan, scanned>>

\* A file before it is read.
StartsReading ==
  /\ read = 0 /\ bySelector = [x \in {} |-> {}]
  /\ scan = "Loading"
  /\ code = <<>> /\ unseen = {} /\ mask = {} /\ transferSeen = FALSE

BytecodeInit ==
  /\ \E n \in 0..MaxSignatures : file \in [1..n -> KnownSignatures]
  /\ StartsReading

\* contains_subseq: an empty needle is found nowhere.
ContainsSubseq(haystack, needle) ==
  /\ needle # <<>>
  /\ \E i \in 0..(Len(haystack) - Len(needle)) :
       \A j \in 1..Len(needle) : haystack[i + j] = needle[j]

-----------------------------------------------------------------------------
(* A plausible slip; no specification uses it.                              *)

\* The scan stops at the first signature that fires.
VisitSignature_Stops ==
  /\ scan = "Scanning"
  /\ \E selector \in unseen :
       LET fires == /\ bySelector[selector].flag # {}
                    /\ ContainsSubseq(code, selector)
       IN  IF bySelector[selector].name = TransferName
             THEN /\ transferSeen' = ContainsSubseq(code, TransferSelector)
                  /\ unseen' = unseen \ {selector}
                  /\ UNCHANGED mask
             ELSE /\ mask' = IF fires THEN mask \cup bySelector[selector].flag ELSE mask
                  /\ unseen' = IF fires THEN {} ELSE unseen \ {selector}
                  /\ UNCHANGED transferSeen
  /\ UNCHANGED <<file, read, bySelector, scan, code>>

-----------------------------------------------------------------------------
(* SignatureSet::try_from_iter.                                             *)

\* by_selector.insert: the last signature of a selector replaces the others.
LoadSignature ==
  /\ scan = "Loading" /\ read < Len(file)
  /\ LET s == file[read + 1]
     IN  /\ s.selector # BadHex
         /\ bySelector' = [x \in DOMAIN bySelector \cup {s.selector} |->
                             IF x = s.selector THEN [flag |-> s.flag, name |-> s.name]
                                               ELSE bySelector[x]]
  /\ read' = read + 1
  /\ UNCHANGED <<file, scan, scanned>>

\* SignatureError::Hex: serve does not start.
RejectSignature ==
  /\ scan = "Loading" /\ read < Len(file)
  /\ file[read + 1].selector = BadHex
  /\ scan' = "Failed"
  /\ UNCHANGED <<file, read, bySelector, scanned>>

FinishReading ==
  /\ scan = "Loading" /\ read = Len(file)
  /\ scan' = "Idle"
  /\ UNCHANGED <<file, read, bySelector, scanned>>

-----------------------------------------------------------------------------
(* fetch_bytecode_flags and scan_bytecode.                                  *)

\* get_code_at fails, or the token has no code: the flags are 0.
FetchNoCode ==
  /\ scan \in {"Idle", "Scanned"}
  /\ scan' = "Idle"
  /\ code' = <<>> /\ unseen' = {} /\ mask' = {} /\ transferSeen' = FALSE
  /\ UNCHANGED <<file, read, bySelector>>

StartScan ==
  /\ scan \in {"Idle", "Scanned"}
  /\ scan' = "Scanning"
  /\ code' \in Codes \ {<<>>}
  /\ unseen' = DOMAIN bySelector
  /\ mask' = {} /\ transferSeen' = FALSE
  /\ UNCHANGED <<file, read, bySelector>>

\* The iteration comes to a selector: the entry named transfer stands for the
\* search of the transfer selector, whatever its own selector.
VisitSignature ==
  /\ scan = "Scanning"
  /\ \E selector \in unseen :
       /\ unseen' = unseen \ {selector}
       /\ IF bySelector[selector].name = TransferName
            THEN /\ transferSeen' = ContainsSubseq(code, TransferSelector)
                 /\ UNCHANGED mask
            ELSE /\ mask' = IF ContainsSubseq(code, selector)
                              THEN mask \cup bySelector[selector].flag ELSE mask
                 /\ UNCHANGED transferSeen
  /\ UNCHANGED <<file, read, bySelector, scan, code>>

\* The code looks like an ERC-20: balanceOf or totalSupply.
Erc20Surface ==
  \/ ContainsSubseq(code, BalanceOfSelector)
  \/ ContainsSubseq(code, TotalSupplySelector)

\* The honeypot heuristic, after the loop.
FinishScan ==
  /\ scan = "Scanning" /\ unseen = {}
  /\ mask' = IF ~transferSeen /\ Erc20Surface THEN mask \cup {"honeypot"} ELSE mask
  /\ scan' = "Scanned"
  /\ UNCHANGED <<file, read, bySelector, code, unseen, transferSeen>>

\* Without signatures, serve ends.
BytecodeEnded ==
  /\ scan = "Failed"
  /\ UNCHANGED bytecodeVars

BytecodeNext ==
  LoadSignature \/ RejectSignature \/ FinishReading \/ FetchNoCode \/ StartScan
  \/ VisitSignature \/ FinishScan \/ BytecodeEnded

BytecodeSpec == BytecodeInit /\ [][BytecodeNext]_bytecodeVars

-----------------------------------------------------------------------------
(* Properties.                                                              *)

\* Every variable has its type.
BytecodeTypeOK ==
  /\ file \in Seq(KnownSignatures)
  /\ read \in 0..Len(file)
  /\ DOMAIN bySelector \subseteq Selectors
  /\ \A s \in DOMAIN bySelector :
       bySelector[s] \in [flag : SUBSET Flags, name : {TransferName, "another"}]
  /\ scan \in {"Loading", "Failed", "Idle", "Scanning", "Scanned"}
  /\ code \in Codes \cup {<<>>}
  /\ unseen \subseteq DOMAIN bySelector
  /\ mask \subseteq Flags
  /\ transferSeen \in BOOLEAN

\* The i-th signature counts: no later one of the file has its selector.
Counts(i) == \A j \in (i + 1)..Len(file) : file[j].selector # file[i].selector

\* The flags of the signatures that count, are not transfer's and occur.
RaisedBySignatures ==
  {flag \in Flags :
     \E i \in 1..Len(file) :
       /\ Counts(i)
       /\ file[i].name # TransferName /\ flag \in file[i].flag
       /\ ContainsSubseq(code, file[i].selector)}

\* transfer is looked for only if a signature that counts has its name: without
\* one, a code that has the selector is taken to lack it.
TransferListed == \E i \in 1..Len(file) : Counts(i) /\ file[i].name = TransferName

RaisedByHeuristic ==
  IF ~(TransferListed /\ ContainsSubseq(code, TransferSelector)) /\ Erc20Surface
    THEN {"honeypot"} ELSE {}

\* The flags of a token are a function of the file and of its code: the order
\* of the HashMap, the tokens scanned before it and the signatures that a
\* later one replaced have no part in it.
ScanIsExact == scan = "Scanned" => mask = RaisedBySignatures \cup RaisedByHeuristic

=============================================================================
