------------------------ MODULE PairingBlocksProofs ------------------------
(***************************************************************************)
(* Facts about the pairing table's searches, for the proofs about the      *)
(* modules that use the table.                                             *)
(***************************************************************************)
EXTENDS PairingBlocks, WellFoundedInduction, TLAPS

(* A search from block 0 upwards finds a block if there is one to find     *)
(* (the loops of find_empty_block and find_pairing).                       *)
LEMMA FirstExists ==
  ASSUME NEW S, S \subseteq Slot, S # {}
  PROVE  \E i \in S : FirstOf(S, i)
<1> DEFINE R == OpToRel(<, Nat)
<1>1. S \subseteq Nat
  BY MaxPairingsAssumption DEF Slot
<1>2. \E x \in S : \A y \in S : ~ (<<y, x>> \in R)
  <2>1. IsWellFoundedOn(R, Nat)
    BY NatLessThanWellFounded DEF R
  <2> HIDE DEF R
  <2> QED BY <2>1, <1>1, WFMin
<1>3. PICK x \in S : \A y \in S : ~ (<<y, x>> \in R)
  BY <1>2
<1>4. \A y \in S : x <= y
  <2> SUFFICES ASSUME NEW y \in S, y < x PROVE FALSE
    BY <1>1
  <2>1. <<y, x>> \in R
    BY <1>1 DEF R, OpToRel
  <2> QED BY <2>1, <1>3
<1> QED BY <1>4 DEF FirstOf

(* Two searches over the same blocks find the same one.                    *)
LEMMA FirstUnique ==
  ASSUME NEW S, S \subseteq Slot, NEW i, NEW j, FirstOf(S, i), FirstOf(S, j)
  PROVE  i = j
<1>1. i \in Int /\ j \in Int
  BY DEF FirstOf, Slot
<1> QED BY <1>1 DEF FirstOf

(* find_pairing, when some record has the device's id, returns the first   *)
(* of those records.                                                       *)
LEMMA IndexIsFirst ==
  ASSUME NEW b, NEW d, Found(b, d)
  PROVE  Index(b, d) \in Holding(b, d) /\ FirstOf(Holding(b, d), Index(b, d))
<1>1. Holding(b, d) \subseteq Slot
  BY DEF Holding
<1>2. \E i \in Slot : FirstOf(Holding(b, d), i)
  BY <1>1, FirstExists DEF Found
<1>3. FirstOf(Holding(b, d), Index(b, d))
  BY <1>2 DEF Index
<1> QED BY <1>3 DEF FirstOf

(* find_empty_block, when some block is erased, returns the first of them. *)
LEMMA FirstEmptyExists ==
  ASSUME NEW b, EmptyBlocks(b) # {}
  PROVE  \E i \in Slot : FirstEmpty(b, i)
<1>1. EmptyBlocks(b) \subseteq Slot
  BY DEF EmptyBlocks
<1> QED BY <1>1, FirstExists DEF FirstEmpty

(* An erased, a zeroed and a written block are blocks.                     *)
LEMMA BlockTypes ==
  /\ ErasedBlock \in Block /\ ZeroedBlock \in Block
  /\ \A d \in Device \cup {NoDevice}, a \in BOOLEAN : Record(d, a) \in Block
BY DEF Block, ErasedBlock, ZeroedBlock, Record
-----------------------------------------------------------------------------
(* Writing a block.                                                        *)

(* A record written in the first erased block keeps the records in front   *)
(* of the erased blocks.                                                   *)
LEMMA FilledPlace ==
  ASSUME NEW b \in [Slot -> Block], Filled(b), NEW i, FirstEmpty(b, i),
         NEW r \in Block, r.magic = "HAP"
  PROVE  Filled([b EXCEPT ![i] = r])
<1> DEFINE c == [b EXCEPT ![i] = r]
<1>1. i \in Slot /\ b[i].magic = "erased"
  BY DEF FirstEmpty, FirstOf, EmptyBlocks
<1>2. \A j \in Slot : b[j].magic = "erased" => i <= j
  BY DEF FirstEmpty, FirstOf, EmptyBlocks
<1>3. SUFFICES ASSUME NEW k \in Slot, NEW j \in Slot,
                      Valid(c, k), c[j].magic = "erased"
               PROVE  k < j
  BY DEF Filled
<1>4. j # i /\ b[j].magic = "erased"
  BY <1>1, <1>3
<1>5. CASE k = i
  BY <1>1, <1>2, <1>4, <1>5 DEF Slot
<1>6. CASE k # i
  BY <1>1, <1>3, <1>4, <1>6 DEF Valid, Filled
<1> QED BY <1>5, <1>6

(* So does zeroing a block.                                                *)
LEMMA FilledZero ==
  ASSUME NEW b \in [Slot -> Block], Filled(b), NEW i \in Slot
  PROVE  Filled([b EXCEPT ![i] = ZeroedBlock])
BY DEF Filled, Valid, ZeroedBlock

(* What a lookup returns is decided by the first record of the device.     *)
LEMMA ViewOfFirst ==
  ASSUME NEW b, NEW d, NEW i, FirstOf(Holding(b, d), i)
  PROVE  Index(b, d) = i /\ View(b, d) = Perm(b[i].admin)
<1>1. Found(b, d) /\ Holding(b, d) \subseteq Slot
  BY DEF Found, FirstOf, Holding
<1>2. Index(b, d) = i
  BY <1>1, IndexIsFirst, FirstUnique
<1> QED BY <1>1, <1>2 DEF View

(* A lookup does not see a write to blocks of other devices.               *)
LEMMA ViewSame ==
  ASSUME NEW b, NEW c, NEW d, Holding(b, d) = Holding(c, d),
         \A i \in Holding(b, d) : b[i].admin = c[i].admin
  PROVE  View(b, d) = View(c, d)
<1>1. CASE Holding(b, d) = {}
  BY <1>1 DEF View, Found
<1>2. CASE Holding(b, d) # {}
  <2>1. PICK i \in Holding(b, d) : FirstOf(Holding(b, d), i)
    BY <1>2, IndexIsFirst DEF Found
  <2>2. View(b, d) = Perm(b[i].admin) /\ View(c, d) = Perm(c[i].admin)
    BY <2>1, ViewOfFirst
  <2> QED BY <2>1, <2>2
<1> QED BY <1>1, <1>2
=============================================================================
