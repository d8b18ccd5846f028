-------------------------------- MODULE Bloom --------------------------------
(***************************************************************************)
(* The Bloom filter over selectors: k bits for each item, found by double  *)
(* hashing in u64 arithmetic, in a vector of words.  An item is known by   *)
(* the two halves of its digest.                                           *)
(***************************************************************************)
EXTENDS Integers

CONSTANTS
  Modulus,    \* 2^64
  WordBits,   \* 64
  Items,
  Digests,    \* the digests an item may have: pairs of u64
  PowersOfTwo,
  MaxBits,    \* bound: the m asked for
  MaxHashes,  \* bound: the k asked for
  MaxInserts  \* bound: calls of insert

U64 == 0..(Modulus - 1)

ASSUME BloomAssumption ==
  /\ Modulus \in Nat \ {0}
  /\ WordBits \in Nat \ {0}
  /\ Digests \subseteq U64 \X U64 /\ Digests # {}
  /\ MaxBits \in Nat /\ MaxHashes \in Nat /\ MaxInserts \in Nat

\* Halving leads from each of them to 1, and they go far enough.
ASSUME PowersOfTwoAssumption ==
  /\ PowersOfTwo \subseteq Nat \ {0}
  /\ \A p \in PowersOfTwo : p = 1 \/ \E q \in PowersOfTwo : p = 2 * q
  /\ \A n \in 0..MaxBits : \E p \in PowersOfTwo :
       p >= n /\ \A q \in PowersOfTwo : q >= n => p <= q

\* 64 is one of them, and all of them divide 2^64.
ASSUME WidthsAssumption ==
  /\ WordBits \in PowersOfTwo
  /\ \A p \in PowersOfTwo : Modulus % p = 0

\* new(m, k), or with_capacity, whose formulas ask for m > 0 bits and one to m
\* hashes; no bit and no hash stand for an n or a p that it refuses.
Requests ==
  {r \in [by : {"new", "with_capacity"}, m : 0..MaxBits, k : 0..MaxHashes] :
     r.by = "with_capacity" => r.k <= r.m /\ (r.k = 0 <=> r.m = 0)}

VARIABLES
  bloom,      \* "New", "Ready" or "Panicked"
  request,    \* the constructor's arguments
  mBits, k,
  digest,     \* the digest of each item
  bits,       \* the bits set: <<word, bit of the word>>
  members,    \* history: the items inserted
  nInserted

bloomVars == <<bloom, request, mBits, k, digest, bits, members, nInserted>>

\* A filter before it is made.
Unmade ==
  /\ bloom = "New" /\ mBits = 0 /\ k = 0
  /\ bits = {} /\ members = {} /\ nInserted = 0

BloomInit ==
  /\ request \in Requests
  /\ digest \in [Items -> Digests]
  /\ Unmade

-----------------------------------------------------------------------------
(* A plausible slip; no specification uses it.                              *)

\* double_hash answers b as it is.
Odd_Forgotten(b) == b

-----------------------------------------------------------------------------
(* new and with_capacity.                                                   *)

NextPowerOfTwo(m) ==
  CHOOSE p \in PowersOfTwo : p >= m /\ \A q \in PowersOfTwo : q >= m => p <= q

\* m.next_power_of_two().max(64) of with_capacity.
SizeOf(r) ==
  IF r.by = "new" THEN r.m
  ELSE IF NextPowerOfTwo(r.m) < WordBits THEN WordBits ELSE NextPowerOfTwo(r.m)

MakeBloom ==
  /\ bloom = "New"
  /\ SizeOf(request) >= WordBits /\ request.k >= 1
  /\ bloom' = "Ready"
  /\ mBits' = SizeOf(request) /\ k' = request.k
  /\ UNCHANGED <<request, digest, bits, members, nInserted>>

\* The assertions of new.
RefuseBloom ==
  /\ bloom = "New"
  /\ SizeOf(request) < WordBits \/ request.k < 1
  /\ bloom' = "Panicked"
  /\ UNCHANGED <<request, mBits, k, digest, bits, members, nInserted>>

-----------------------------------------------------------------------------
(* insert and contains.                                                     *)

\* b | 1
Odd(b) == IF b % 2 = 0 THEN b + 1 ELSE b

\* combine: a.wrapping_add(i.wrapping_mul(b)) % m_bits, of double_hash(x).
Combine(x, i) ==
  ((digest[x][1] + ((i * Odd(digest[x][2])) % Modulus)) % Modulus) % mBits

\* The word of a bit, and its place there.
Slot(bit) == <<bit \div WordBits, bit % WordBits>>

Probes(x) == {Slot(Combine(x, i)) : i \in 0..(k - 1)}

\* bits.len(): m_bits.div_ceil(64)
WordCount == (mBits + WordBits - 1) \div WordBits

\* A plausible slip, which no specification uses: set_bit assigns the word
\* instead of or-ing the bit into it.
InsertItem_Assigns ==
  /\ bloom = "Ready" /\ nInserted < MaxInserts
  /\ \E x \in Items :
       /\ bits' = Probes(x) \cup {b \in bits : \A p \in Probes(x) : p[1] # b[1]}
       /\ members' = members \cup {x}
  /\ nInserted' = nInserted + 1
  /\ UNCHANGED <<bloom, request, mBits, k, digest>>

InsertItem ==
  /\ bloom = "Ready" /\ nInserted < MaxInserts
  /\ \E x \in Items :
       /\ bits' = bits \cup Probes(x)
       /\ members' = members \cup {x}
  /\ nInserted' = nInserted + 1
  /\ UNCHANGED <<bloom, request, mBits, k, digest>>

Contains(x) == Probes(x) \subseteq bits

\* No more inserts, or no filter.
BloomEnded ==
  /\ bloom = "Panicked" \/ nInserted = MaxInserts
  /\ UNCHANGED bloomVars

BloomNext == MakeBloom \/ RefuseBloom \/ InsertItem \/ BloomEnded

BloomSpec == BloomInit /\ [][BloomNext]_bloomVars

-----------------------------------------------------------------------------
(* Properties.                                                              *)

\* Every variable has its type, and no bit lies outside the vector, where
\* set_bit would panic.
BloomTypeOK ==
  /\ bloom \in {"New", "Ready", "Panicked"}
  /\ request \in Requests
  /\ mBits \in Nat /\ k \in Nat
  /\ bloom = "Ready" => mBits >= WordBits /\ k >= 1
  /\ digest \in [Items -> Digests]
  /\ bits \subseteq (0..(WordCount - 1)) \X (0..(WordBits - 1))
  /\ members \subseteq Items
  /\ nInserted \in 0..MaxInserts

\* lib.rs: "False positives are possible; false negatives are not".
NoFalseNegatives == \A x \in members : Contains(x)

\* What double_hash makes b odd for: in a filter of with_capacity, whose size
\* is a power of two, the k hashes of an item are k different bits, however
\* the u64 products wrap.
ProbesDistinct ==
  bloom = "Ready" /\ request.by = "with_capacity" =>
    \A x \in members : \A i, j \in 0..(k - 1) :
      i # j => Combine(x, i) # Combine(x, j)

=============================================================================
