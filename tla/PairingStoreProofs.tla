------------------------- MODULE PairingStoreProofs -------------------------
(***************************************************************************)
(* Proofs about PairingStore, for every number of blocks, controllers,     *)
(* resets and failing flash operations: its types, the order of the table, *)
(* what a lookup returns, and that it implements PairingList.              *)
(***************************************************************************)
EXTENDS PairingStore, PairingBlocksProofs, Induction, SequenceTheorems

USE DEF Goto, Return, MayBecome, Becomes

(* A format leaves the function or goes on with one of its later steps.    *)
LEMMA AfterFormatTyped ==
  ASSUME NEW ok \in BOOLEAN, AfterFormat(ok), fn \in Functions, fn # "none",
         TypeOK
  PROVE  /\ fn' \in Functions /\ pc' \in Steps
         /\ dev' \in Device \cup {NoDevice} /\ admin' \in BOOLEAN /\ at' \in Slot
<1>1. 0 \in Slot
  BY MaxPairingsAssumption DEF Slot
<1>2. CASE fn = "init"
  BY <1>2 DEF AfterFormat, TypeOK, Functions, Steps
<1>3. CASE fn = "bootreset"
  BY <1>3 DEF AfterFormat, TypeOK, Functions, Steps
<1>4. CASE fn = "reset"
  BY <1>1, <1>4 DEF AfterFormat, TypeOK, Functions, Steps
<1>5. CASE fn \in {"add", "update"}
  BY <1>5 DEF AfterFormat, TypeOK, Functions, Steps
<1> QED BY <1>2, <1>3, <1>4, <1>5 DEF Functions

LEMMA PermTyped == \A a \in BOOLEAN : Perm(a) \in Permission
BY DEF Perm, Permission

LEMMA BoundsTyped ==
  ASSUME TypeOK
  PROVE  /\ Fault => faults' \in 0 .. MaxFaults
         /\ crashes < MaxCrashes => crashes + 1 \in 0 .. MaxCrashes
BY BoundsAssumption DEF TypeOK, Fault

-----------------------------------------------------------------------------
(* Type correctness, and which step may belong to which function.          *)

Control ==
  /\ pc = "boot" => fn = "init"
  /\ pc \in {"blank", "erase", "magic"} => fn # "none"
  /\ pc \in {"id", "key"} => fn \in {"init", "bootreset"}
  /\ pc \in {"compact", "place"} => fn \in {"add", "update"}
  /\ pc = "retire" => fn = "update"
  /\ pc = "idle" <=> fn = "none"
  /\ fn \in {"add", "update"} => dev \in Device
  /\ pc = "magic" => \A i \in Slot : block[i] = ErasedBlock

LEMMA InitTyped == Init => TypeOK /\ Control
<1>1. 0 \in Slot
  BY MaxPairingsAssumption DEF Slot
<1> SUFFICES ASSUME Init PROVE TypeOK /\ Control
  OBVIOUS
<1>2. promised \in [Device -> SUBSET Permission]
  BY DEF Init, Permission
<1>3. block \in [Slot -> Block] /\ crashes \in 0 .. MaxCrashes
      /\ faults \in 0 .. MaxFaults
  BY BlockTypes, BoundsAssumption DEF Init
<1>4. TypeOK
  BY <1>1, <1>2, <1>3 DEF Init, TypeOK, Functions, Steps
<1> QED BY <1>4 DEF Init, Control

LEMMA NextTyped == TypeOK /\ Control /\ [Next]_vars => TypeOK' /\ Control'
<1> SUFFICES ASSUME TypeOK, Control, [Next]_vars
             PROVE  TypeOK' /\ Control'
  OBVIOUS
<1>0. 0 \in Slot
  BY MaxPairingsAssumption DEF Slot
<1> USE DEF TypeOK, Control, flash, call, ghost, Functions, Steps
<1>1. CASE BootFormat
  BY <1>1 DEF BootFormat
<1>2. CASE BootLoad
  BY <1>0, <1>2 DEF BootLoad
<1>3. CASE BootReset
  BY <1>3 DEF BootReset
<1>4. CASE SaveId
  BY <1>4 DEF SaveId
<1>5. CASE SaveKey
  BY <1>0, <1>5 DEF SaveKey
<1>6. CASE SaveFails
  BY <1>0, <1>6, BoundsTyped DEF SaveFails
<1>7. CASE Reset
  BY <1>7 DEF Reset, Permission
<1>8. CASE WriteBlank
  BY <1>8 DEF WriteBlank
<1>9. CASE EraseSector
  BY <1>9, BlockTypes DEF EraseSector
<1>10. CASE WriteMagic
  BY <1>10, AfterFormatTyped DEF WriteMagic, AfterFormat, PromiseAfterFormat, Permission
<1>11. CASE FormatFails
  BY <1>11, AfterFormatTyped, BoundsTyped DEF FormatFails, AfterFormat, PromiseAfterFormat
<1>12. ASSUME NEW d \in Device, NEW a \in BOOLEAN, AddPairing(d, a)
       PROVE  TypeOK' /\ Control'
  BY <1>0, <1>12, PermTyped DEF AddPairing, Search
<1>13. ASSUME NEW d \in Device, NEW a \in BOOLEAN, UpdatePairing(d, a)
       PROVE  TypeOK' /\ Control'
  BY <1>13, PermTyped, IndexIsFirst DEF UpdatePairing, Search, Holding
<1>14. CASE CompactFull
  BY <1>0, <1>14 DEF CompactFull
<1>15. CASE Compact
  BY <1>15 DEF Compact
<1>16. CASE CompactOutOfBounds
  BY <1>0, <1>16, BoundsTyped DEF CompactOutOfBounds
<1>17. CASE WriteRecord
  <2>1. block' \in [Slot -> Block]
    BY <1>17, BlockTypes DEF WriteRecord
  <2>2. promised' \in [Device -> SUBSET Permission] /\ clean' \in BOOLEAN
    BY <1>17, PermTyped DEF WriteRecord
  <2>3. /\ fn' \in Functions /\ pc' \in Steps
        /\ dev' \in Device \cup {NoDevice} /\ admin' \in BOOLEAN /\ at' \in Slot
        /\ Control'
    BY <1>0, <1>17 DEF WriteRecord
  <2> QED BY <1>17, <2>1, <2>2, <2>3 DEF WriteRecord
<1>18. CASE WriteRecordFails
  BY <1>0, <1>18, BoundsTyped DEF WriteRecordFails
<1>19. CASE RetireRecord
  BY <1>0, <1>19, PermTyped, BlockTypes DEF RetireRecord
<1>20. CASE RetireFails
  BY <1>0, <1>20, BoundsTyped DEF RetireFails
<1>21. ASSUME NEW d \in Device, RemovePairing(d)
       PROVE  TypeOK' /\ Control'
  BY <1>21, BlockTypes DEF RemovePairing, Permission
<1>22. ASSUME NEW d \in Device, RemoveFails(d)
       PROVE  TypeOK' /\ Control'
  BY <1>22, BoundsTyped DEF RemoveFails
<1>23. CASE Crash
  BY <1>0, <1>23, BoundsTyped DEF Crash, Restart
<1>24. CASE TornWrite
  <2>1. block' \in [Slot -> Block]
    <3>1. PICK i \in Slot, a \in {admin, TRUE} :
            block' = [block EXCEPT ![i] = Record(NoDevice, a)]
      BY <1>24 DEF TornWrite
    <3>2. a \in BOOLEAN
      OBVIOUS
    <3>3. Record(NoDevice, a) \in Block
      BY <3>2, BlockTypes
    <3> QED BY <3>1, <3>3
  <2> QED BY <1>0, <1>24, <2>1, BoundsTyped DEF TornWrite, Restart
<1>25. CASE BootReadFails
  BY <1>25, BoundsTyped DEF BootReadFails
<1>26. CASE CompactFails
  BY <1>26, BoundsTyped DEF CompactFails
<1>27. CASE UNCHANGED vars
  BY <1>27 DEF vars
<1> QED
  BY <1>1, <1>2, <1>3, <1>4, <1>5, <1>6, <1>7, <1>8, <1>9, <1>10, <1>11,
     <1>12, <1>13, <1>14, <1>15, <1>16, <1>17, <1>18, <1>19, <1>20, <1>21,
     <1>22, <1>23, <1>24, <1>25, <1>26, <1>27 DEF Next

(* Every reachable state is well typed: in particular the index that       *)
(* update_pairing keeps across a compaction stays an index of the table.   *)
THEOREM TypeCorrect == Spec => []TypeOK
<1>1. Init => TypeOK /\ Control
  BY InitTyped
<1>2. TypeOK /\ Control /\ [Next]_vars => (TypeOK /\ Control)'
  BY NextTyped
<1> QED BY <1>1, <1>2, PTL DEF Spec

-----------------------------------------------------------------------------
(* The order of the table.                                                 *)

(* One flash operation changes one block, a first erased one to a record   *)
(* or any one to zeroes, or erases them all.                               *)
LEMMA BlockStep ==
  ASSUME TypeOK, Control, [Next]_vars
  PROVE  \/ block' = block
         \/ block' = [i \in Slot |-> ErasedBlock]
         \/ \E i \in Slot, r \in Block :
              /\ FirstEmpty(block, i) /\ r.magic = "HAP"
              /\ block' = [block EXCEPT ![i] = r]
         \/ \E i \in Slot : block' = [block EXCEPT ![i] = ZeroedBlock]
<1> USE DEF flash
<1>1. CASE WriteRecord
  <2>1. Record(dev, admin) \in Block /\ Record(dev, admin).magic = "HAP"
    BY BlockTypes DEF TypeOK, Record
  <2> QED BY <1>1, <2>1 DEF WriteRecord
<1>2. CASE TornWrite
  <2>1. PICK i \in Slot, a \in {admin, TRUE} :
          FirstEmpty(block, i) /\ block' = [block EXCEPT ![i] = Record(NoDevice, a)]
    BY <1>2 DEF TornWrite
  <2>2. a \in BOOLEAN
    BY DEF TypeOK
  <2>3. Record(NoDevice, a) \in Block /\ Record(NoDevice, a).magic = "HAP"
    BY <2>2, BlockTypes DEF Record
  <2> QED BY <2>1, <2>3
<1>3. CASE RetireRecord
  BY <1>3 DEF RetireRecord, TypeOK
<1>4. ASSUME NEW d \in Device, RemovePairing(d)
      PROVE  block' = block \/ \E i \in Slot : block' = [block EXCEPT ![i] = ZeroedBlock]
  <2>1. CASE Found(block, d)
    BY <1>4, <2>1, IndexIsFirst DEF RemovePairing, Holding
  <2>2. CASE ~Found(block, d)
    BY <1>4, <2>2 DEF RemovePairing
  <2> QED BY <2>1, <2>2
<1>5. CASE EraseSector
  BY <1>5 DEF EraseSector
<1>6. CASE \/ BootFormat \/ BootLoad \/ BootReset \/ BootReadFails
           \/ SaveId \/ SaveKey \/ SaveFails
  BY <1>6 DEF BootFormat, BootLoad, BootReset, BootReadFails, SaveId, SaveKey, SaveFails
<1>7. CASE Reset \/ WriteBlank \/ WriteMagic \/ FormatFails
  BY <1>7 DEF Reset, WriteBlank, WriteMagic, FormatFails
<1>8. ASSUME NEW d \in Device, NEW a \in BOOLEAN,
             AddPairing(d, a) \/ UpdatePairing(d, a)
      PROVE  block' = block
  BY <1>8 DEF AddPairing, UpdatePairing
<1>9. CASE CompactFull \/ Compact \/ CompactFails \/ CompactOutOfBounds
  BY <1>9 DEF CompactFull, Compact, CompactFails, CompactOutOfBounds
<1>10. CASE WriteRecordFails \/ RetireFails \/ Crash
  BY <1>10 DEF WriteRecordFails, RetireFails, Crash
<1>11. ASSUME NEW d \in Device, RemoveFails(d)
       PROVE  block' = block
  BY <1>11 DEF RemoveFails
<1>12. CASE UNCHANGED vars
  BY <1>12 DEF vars
<1> QED
  BY <1>1, <1>2, <1>3, <1>4, <1>5, <1>6, <1>7, <1>8, <1>9, <1>10, <1>11,
     <1>12 DEF Next

LEMMA FilledNext ==
  ASSUME TypeOK, Control, RecordsBeforeErased, [Next]_vars
  PROVE  RecordsBeforeErased'
<1> USE DEF RecordsBeforeErased
<1>1. block \in [Slot -> Block]
  BY DEF TypeOK
<1>2. CASE block' = block
  BY <1>2
<1>3. CASE block' = [i \in Slot |-> ErasedBlock]
  BY <1>3 DEF Filled, Valid, ErasedBlock
<1>4. ASSUME NEW i \in Slot, NEW r \in Block, r.magic = "HAP",
             FirstEmpty(block, i), block' = [block EXCEPT ![i] = r]
      PROVE  RecordsBeforeErased'
  BY <1>1, <1>4, FilledPlace
<1>5. ASSUME NEW i \in Slot, block' = [block EXCEPT ![i] = ZeroedBlock]
      PROVE  RecordsBeforeErased'
  BY <1>1, <1>5, FilledZero
<1> QED BY <1>2, <1>3, <1>4, <1>5, BlockStep

(* Records never lie behind erased blocks, whatever was added, removed,    *)
(* updated, compacted or cut short by a reset: the search of               *)
(* update_pairing for a place and its search for the record agree.         *)
THEOREM RecordsFirst == Spec => []RecordsBeforeErased
<1>1. Init => TypeOK /\ Control /\ RecordsBeforeErased
  BY InitTyped DEF Init, RecordsBeforeErased, Filled, Valid, ErasedBlock
<1>2. TypeOK /\ Control /\ RecordsBeforeErased /\ [Next]_vars
        => (TypeOK /\ Control /\ RecordsBeforeErased)'
  BY NextTyped, FilledNext
<1> QED BY <1>1, <1>2, PTL DEF Spec

-----------------------------------------------------------------------------
(* What a lookup returns.  Kept strengthens Faithful and UniqueRecords to  *)
(* an inductive invariant.  While clean:                                   *)
(*   - the function in progress has not touched the records it found, or   *)
(*     is between the two writes of an update, the new record behind the   *)
(*     old one;                                                            *)
(*   - a sector that the next boot would format is one of which a reset    *)
(*     was asked, or that never held a pairing.                            *)

Formatted == magic = "HAP" /\ hasId /\ hasKey

Absent == \A d \in Device : "none" \in promised[d]

Lookups == \A d \in Device : View(block, d) \in promised[d]

Single == \A d \in Device : \A i, j \in Holding(block, d) :
            i = j \/ (pc = "retire" /\ d = dev)

Changing ==
  fn \in {"add", "update"} =>
    /\ pc \in {"compact", "blank", "place", "retire"}
    /\ Perm(admin) \in promised[dev]

Adding == fn = "add" => Holding(block, dev) = {}

Updating == fn = "update" /\ pc # "retire" => Holding(block, dev) = {at}

Retiring ==
  pc = "retire" =>
    /\ Formatted
    /\ \E n \in Slot : /\ at < n /\ block[n] = Record(dev, admin)
                       /\ Holding(block, dev) = {at, n}

Resetting ==
  /\ fn \in {"init", "bootreset", "reset"} /\ pc # "boot" => Absent
  /\ ~Formatted => Absent

Kept == Lookups /\ Single /\ Changing /\ Adding /\ Updating /\ Retiring /\ Resetting

Inv == TypeOK /\ Control /\ RecordsBeforeErased /\ (clean => Kept)

(* A step that leaves the table and the promises alone, and does not stop  *)
(* an update between its writes, keeps every lookup.                       *)
LEMMA LookupsSame ==
  ASSUME Kept, block' = block, promised' = promised, pc # "retire"
  PROVE  Lookups' /\ Single'
BY DEF Kept, Lookups, Single

LEMMA KeptInit == Init => Kept
<1> SUFFICES ASSUME Init PROVE Kept
  OBVIOUS
<1>1. \A d : Holding(block, d) = {}
  BY DEF Init, Holding, Valid, ErasedBlock
<1>2. Lookups
  BY <1>1 DEF Lookups, View, Found, Init
<1> QED
  BY <1>1, <1>2 DEF Kept, Single, Changing, Adding, Updating, Retiring,
                    Resetting, Absent, Formatted, Init

(* The writes of the table, one lemma each.                                *)

LEMMA KeptWriteRecord ==
  ASSUME TypeOK, Control, RecordsBeforeErased, Kept, WriteRecord, clean'
  PROVE  Kept'
<1>1. clean /\ Formatted /\ pc = "place" /\ fn \in {"add", "update"} /\ dev \in Device
  BY DEF WriteRecord, Formatted, Control
<1>2. Formatted'
  BY <1>1 DEF WriteRecord, Formatted
<1>3. PICK i \in Slot : /\ FirstEmpty(block, i)
                        /\ block' = [block EXCEPT ![i] = Record(dev, admin)]
  BY DEF WriteRecord
<1>4. block[i].magic = "erased" /\ \A d : i \notin Holding(block, d)
  BY <1>3 DEF FirstEmpty, FirstOf, EmptyBlocks, Holding, Valid
<1>5. block \in [Slot -> Block] /\ promised \in [Device -> SUBSET Permission]
  BY DEF TypeOK
<1>0. \A d : Holding(block', d)
              = IF d = dev THEN Holding(block, d) \cup {i} ELSE Holding(block, d) \ {i}
  BY <1>3, <1>5 DEF Holding, Valid, Record
<1>6. Holding(block', dev) = Holding(block, dev) \cup {i}
  BY <1>0
<1>7. \A d \in Device \ {dev} : Holding(block', d) = Holding(block, d)
  BY <1>0, <1>4
<1>8. block'[i] = Record(dev, admin) /\ \A j \in Slot \ {i} : block'[j] = block[j]
  BY <1>3, <1>5
<1>9. ASSUME NEW d \in Device \ {dev}
      PROVE  /\ View(block', d) \in promised'[d]
             /\ \A j, k \in Holding(block', d) : j = k
  <2>1. View(block', d) = View(block, d)
    <3>1. \A j \in Holding(block, d) : block[j].admin = block'[j].admin
      BY <1>4, <1>8 DEF Holding
    <3>2. Holding(block, d) = Holding(block', d)
      BY <1>7
    <3> QED BY <3>1, <3>2, ViewSame
  <2>2. promised'[d] = promised[d]
    BY <1>5 DEF WriteRecord
  <2>3. \A j, k \in Holding(block, d) : j = k
    BY DEF Kept, Single
  <2> QED BY <1>7, <2>1, <2>2, <2>3 DEF Kept, Lookups
<1>10. CASE fn = "add"
  <2>1. Holding(block', dev) = {i}
    BY <1>6, <1>10 DEF Kept, Adding
  <2>2. View(block', dev) = Perm(admin)
    <3>1. FirstOf(Holding(block', dev), i)
      BY <2>1 DEF FirstOf, Slot
    <3> QED BY <3>1, <1>8, ViewOfFirst DEF Record
  <2>3. promised'[dev] = {Perm(admin)} /\ fn' = "none" /\ pc' = "idle"
    BY <1>1, <1>5, <1>10 DEF WriteRecord
  <2>4. Lookups'
    BY <1>9, <2>2, <2>3 DEF Lookups
  <2>5. Single'
    BY <1>9, <2>1 DEF Single
  <2> QED BY <1>2, <2>3, <2>4, <2>5 DEF Kept, Changing, Adding, Updating, Retiring, Resetting
<1>11. CASE fn = "update"
  <2>1. pc' = "retire" /\ UNCHANGED <<fn, dev, admin, at, promised>>
    BY <1>11 DEF WriteRecord
  <2>2. Holding(block, dev) = {at} /\ Holding(block', dev) = {at, i}
    BY <1>1, <1>6, <1>11 DEF Kept, Updating
  <2>3. at < i /\ at \in Slot
    BY <1>4, <2>2 DEF RecordsBeforeErased, Filled, Holding
  <2>4. View(block', dev) = View(block, dev)
    <3>1. FirstOf(Holding(block, dev), at) /\ FirstOf(Holding(block', dev), at)
      BY <2>2, <2>3 DEF FirstOf, Slot
    <3>2. block'[at] = block[at]
      BY <1>4, <1>8, <2>2, <2>3
    <3>3. View(block, dev) = Perm(block[at].admin)
      BY <3>1, ViewOfFirst
    <3>4. View(block', dev) = Perm(block'[at].admin)
      BY <3>1, ViewOfFirst
    <3> QED BY <3>2, <3>3, <3>4
  <2>5. Lookups'
    BY <1>1, <1>9, <2>1, <2>4 DEF Lookups, Kept
  <2>6. Single'
    BY <1>9, <2>1, <2>2 DEF Single
  <2>7. Retiring'
    BY <1>2, <1>8, <2>1, <2>2, <2>3 DEF Retiring
  <2>8. Changing' /\ Adding' /\ Updating' /\ Resetting'
    BY <1>1, <1>2, <1>11, <2>1 DEF Changing, Adding, Updating, Resetting, Kept
  <2> QED BY <2>5, <2>6, <2>7, <2>8 DEF Kept
<1> QED BY <1>1, <1>10, <1>11

LEMMA KeptRetireRecord ==
  ASSUME TypeOK, Control, Kept, RetireRecord
  PROVE  Kept'
<1>1. pc = "retire" /\ fn = "update" /\ dev \in Device /\ at \in Slot
  BY DEF RetireRecord, Control, TypeOK
<1>2. PICK n \in Slot : /\ at < n /\ block[n] = Record(dev, admin)
                        /\ Holding(block, dev) = {at, n}
  BY <1>1 DEF Kept, Retiring
<1>3. block \in [Slot -> Block] /\ promised \in [Device -> SUBSET Permission]
  BY DEF TypeOK
<1>4. block' = [block EXCEPT ![at] = ZeroedBlock]
  BY DEF RetireRecord
<1>5. \A d : Holding(block', d) = Holding(block, d) \ {at}
  BY <1>1, <1>3, <1>4 DEF Holding, Valid, ZeroedBlock
<1>6. n # at /\ \A j \in Slot \ {at} : block'[j] = block[j]
  BY <1>1, <1>2, <1>3, <1>4 DEF Slot
<1>7. fn' = "none" /\ pc' = "idle" /\ promised'[dev] = {Perm(admin)} /\ Formatted'
  BY <1>1, <1>3 DEF RetireRecord, Kept, Retiring, Formatted
<1>8. View(block', dev) = Perm(admin) /\ Holding(block', dev) = {n}
  <2>1. Holding(block', dev) = {n}
    BY <1>2, <1>5, <1>6
  <2>2. FirstOf(Holding(block', dev), n)
    BY <2>1 DEF FirstOf, Slot
  <2> QED BY <1>2, <1>6, <2>1, <2>2, ViewOfFirst DEF Record
<1>9. ASSUME NEW d \in Device \ {dev}
      PROVE  /\ View(block', d) \in promised'[d]
             /\ \A j, k \in Holding(block', d) : j = k
  <2>1. at \notin Holding(block, d)
    BY <1>2 DEF Holding
  <2>2. Holding(block, d) = Holding(block', d)
    BY <1>5, <2>1
  <2>3. \A j \in Holding(block, d) : block[j].admin = block'[j].admin
    BY <1>6, <2>1 DEF Holding
  <2>4. View(block', d) = View(block, d)
    BY <2>2, <2>3, ViewSame
  <2>5. promised'[d] = promised[d]
    BY <1>3 DEF RetireRecord
  <2>6. \A j, k \in Holding(block, d) : j = k
    BY DEF Kept, Single
  <2> QED BY <2>2, <2>4, <2>5, <2>6 DEF Kept, Lookups
<1>10. Lookups'
  BY <1>7, <1>8, <1>9 DEF Lookups
<1>11. Single'
  BY <1>8, <1>9 DEF Single
<1> QED BY <1>7, <1>10, <1>11
        DEF Kept, Changing, Adding, Updating, Retiring, Resetting

LEMMA KeptRemovePairing ==
  ASSUME TypeOK, Control, Kept, NEW e \in Device, RemovePairing(e)
  PROVE  Kept'
<1>1. pc = "idle" /\ fn = "none" /\ UNCHANGED <<pc, fn, dev, admin, at>>
  BY DEF RemovePairing, Control, call
<1>2. block \in [Slot -> Block] /\ promised \in [Device -> SUBSET Permission]
  BY DEF TypeOK
<1>3. \A d \in Device : \A j, k \in Holding(block, d) : j = k
  BY <1>1 DEF Kept, Single
<1>4. promised' = [promised EXCEPT ![e] = {"none"}]
  BY DEF RemovePairing
<1>5. Holding(block', e) = {}
      /\ \A d \in Device \ {e} : /\ View(block', d) = View(block, d)
                                /\ Holding(block', d) \subseteq Holding(block, d)
  <2>1. CASE ~Found(block, e)
    BY <2>1 DEF RemovePairing, Found
  <2>2. CASE Found(block, e)
    <3> DEFINE i == Index(block, e)
    <3>1. i \in Holding(block, e)
      BY <2>2, IndexIsFirst
    <3>2. block' = [block EXCEPT ![i] = ZeroedBlock]
      BY <2>2 DEF RemovePairing
    <3>3. i \in Slot /\ \A d \in Device \ {e} : i \notin Holding(block, d)
      BY <3>1 DEF Holding
    <3> HIDE DEF i
    <3>4. \A d : Holding(block', d) = Holding(block, d) \ {i}
      BY <1>2, <3>2, <3>3 DEF Holding, Valid, ZeroedBlock
    <3>5. Holding(block', e) = {}
      BY <1>3, <3>1, <3>4
    <3>6. ASSUME NEW d \in Device \ {e}
          PROVE  View(block', d) = View(block, d)
      <4>1. Holding(block, d) = Holding(block', d)
        BY <3>3, <3>4
      <4>2. \A j \in Holding(block, d) : block[j].admin = block'[j].admin
        BY <1>2, <3>2, <3>3 DEF Holding
      <4> QED BY <4>1, <4>2, ViewSame
    <3> QED BY <3>4, <3>5, <3>6
  <2> QED BY <2>1, <2>2
<1>6. Lookups'
  BY <1>2, <1>4, <1>5 DEF Lookups, Kept, View, Found
<1>7. Single'
  BY <1>3, <1>5 DEF Single
<1>8. Resetting'
  BY <1>1, <1>2, <1>4 DEF Resetting, Absent, Formatted, RemovePairing, Kept
<1> QED BY <1>1, <1>6, <1>7, <1>8 DEF Kept, Changing, Adding, Updating, Retiring

LEMMA KeptTornWrite ==
  ASSUME TypeOK, Control, Kept, TornWrite
  PROVE  Kept'
<1>1. PICK i \in Slot, a \in {admin, TRUE} :
        FirstEmpty(block, i) /\ block' = [block EXCEPT ![i] = Record(NoDevice, a)]
  BY DEF TornWrite
<1>2. block \in [Slot -> Block]
  BY DEF TypeOK
<1>3. pc = "place" /\ pc' = "boot" /\ fn' = "init" /\ promised' = promised
      /\ (Formatted' <=> Formatted)
  BY DEF TornWrite, Restart, Formatted, ghost
<1>4. \A d : i \notin Holding(block, d)
  BY <1>1 DEF FirstEmpty, FirstOf, EmptyBlocks, Holding, Valid
<1>5. \A d \in Device : Holding(block, d) = Holding(block', d)
  BY <1>1, <1>2, <1>4, NoDeviceAssumption DEF Holding, Valid, Record
<1>6. ASSUME NEW d \in Device
      PROVE  View(block', d) = View(block, d)
  <2>1. \A j \in Holding(block, d) : block[j].admin = block'[j].admin
    BY <1>1, <1>2, <1>4 DEF Holding
  <2> QED BY <1>5, <2>1, ViewSame
<1>7. Lookups' /\ Single'
  BY <1>3, <1>5, <1>6 DEF Lookups, Single, Kept
<1> QED BY <1>3, <1>7 DEF Kept, Changing, Adding, Updating, Retiring, Resetting, Absent

LEMMA KeptNext ==
  ASSUME TypeOK, Control, RecordsBeforeErased, clean => Kept, [Next]_vars, clean'
  PROVE  Kept'
<1> USE DEF flash, call, ghost
<1> DEFINE CallOK == Changing /\ Adding /\ Updating /\ Retiring /\ Resetting
<1>1. CASE BootFormat \/ BootLoad \/ BootReset
  <2>1. Kept /\ pc = "boot" /\ fn = "init" /\ block' = block /\ promised' = promised
    BY <1>1 DEF BootFormat, BootLoad, BootReset, Control
  <2>2. CallOK'
    BY <1>1, <2>1 DEF BootFormat, BootLoad, BootReset, Kept,
       Changing, Adding, Updating, Retiring, Resetting, Absent, Formatted
  <2> QED BY <2>1, <2>2, LookupsSame DEF Kept
<1>2. CASE SaveId \/ SaveKey \/ SaveFails
  <2>1. Kept /\ pc \in {"id", "key"} /\ fn \in {"init", "bootreset"}
        /\ block' = block /\ promised' = promised
    BY <1>2 DEF SaveId, SaveKey, SaveFails, Control
  <2>2. Absent
    BY <2>1 DEF Kept, Resetting
  <2>3. CallOK'
    BY <1>2, <2>1, <2>2 DEF SaveId, SaveKey, SaveFails,
       Changing, Adding, Updating, Retiring, Resetting, Absent
  <2> QED BY <2>1, <2>3, LookupsSame DEF Kept
<1>3. CASE Reset
  <2>1. Kept /\ pc = "idle" /\ block' = block
    BY <1>3 DEF Reset
  <2>2. Absent' /\ \A d \in Device : promised[d] \subseteq promised'[d]
    BY <1>3 DEF Reset, TypeOK, Absent
  <2>3. Lookups' /\ Single'
    BY <2>1, <2>2 DEF Kept, Lookups, Single
  <2>4. CallOK'
    BY <1>3, <2>2 DEF Reset, Changing, Adding, Updating, Retiring, Resetting
  <2> QED BY <2>3, <2>4 DEF Kept
<1>4. CASE WriteBlank
  <2>1. Kept /\ pc = "blank" /\ fn \notin {"none", "add", "update"}
        /\ block' = block /\ promised' = promised
    BY <1>4 DEF WriteBlank, Control
  <2>2. Absent
    BY <2>1 DEF Kept, Resetting, TypeOK, Functions
  <2>3. CallOK'
    BY <1>4, <2>1, <2>2 DEF WriteBlank,
       Changing, Adding, Updating, Retiring, Resetting, Absent
  <2> QED BY <2>1, <2>3, LookupsSame DEF Kept
<1>5. CASE EraseSector
  <2>1. Kept /\ pc = "erase" /\ fn \notin {"none", "add", "update"}
        /\ promised' = promised
    BY <1>5 DEF EraseSector, Control, Kept, Changing
  <2>2. Absent
    BY <2>1 DEF Kept, Resetting, TypeOK, Functions
  <2>3. \A d : Holding(block', d) = {}
    BY <1>5 DEF EraseSector, Holding, Valid, ErasedBlock
  <2>4. Lookups' /\ Single'
    BY <2>1, <2>2, <2>3 DEF Lookups, Single, View, Found, Absent
  <2>5. CallOK'
    BY <1>5, <2>1, <2>2 DEF EraseSector,
       Changing, Adding, Updating, Retiring, Resetting, Absent
  <2> QED BY <2>4, <2>5 DEF Kept
<1>6. CASE WriteMagic
  <2>1. Kept /\ pc = "magic" /\ fn \in {"init", "bootreset", "reset"} /\ block' = block
    BY <1>6 DEF WriteMagic, Control, Kept, Changing, TypeOK, Functions
  <2>2. Absent
    BY <2>1 DEF Kept, Resetting
  <2>3. Absent'
    BY <1>6, <2>2 DEF WriteMagic, PromiseAfterFormat, Absent
  <2>4. \A d : Holding(block', d) = {}
    BY <2>1 DEF Control, Holding, Valid, ErasedBlock
  <2>5. Lookups' /\ Single'
    BY <2>3, <2>4 DEF Lookups, Single, View, Found, Absent
  <2>6. CallOK'
    BY <1>6, <2>1, <2>3 DEF WriteMagic, AfterFormat,
       Changing, Adding, Updating, Retiring, Resetting
  <2> QED BY <2>5, <2>6 DEF Kept
<1>7. CASE FormatFails
  <2>1. Kept /\ pc \in {"blank", "erase", "magic"} /\ block' = block
        /\ promised' = promised /\ UNCHANGED <<magic, hasId, hasKey>>
    BY <1>7 DEF FormatFails, PromiseAfterFormat
  <2>2. CASE fn \in {"init", "bootreset", "reset"}
    <3>1. Absent
      BY <2>1, <2>2 DEF Kept, Resetting
    <3>2. CallOK'
      BY <1>7, <2>1, <2>2, <3>1 DEF FormatFails, AfterFormat,
         Changing, Adding, Updating, Retiring, Resetting, Absent
    <3> QED BY <2>1, <3>2, LookupsSame DEF Kept
  <2>3. CASE fn \in {"add", "update"}
    <3>1. UNCHANGED <<fn, dev, admin, at>> /\ pc' = "place"
      BY <1>7, <2>3 DEF FormatFails, AfterFormat
    <3>2. CallOK'
      BY <2>1, <2>3, <3>1 DEF Kept,
         Changing, Adding, Updating, Retiring, Resetting, Absent, Formatted
    <3> QED BY <2>1, <3>2, LookupsSame DEF Kept
  <2> QED BY <2>1, <2>2, <2>3 DEF Control, TypeOK, Functions
<1>8. ASSUME NEW d \in Device, NEW a \in BOOLEAN, AddPairing(d, a)
      PROVE  Kept'
  <2>1. Kept /\ pc = "idle" /\ pc' \in {"place", "compact"} /\ block' = block
        /\ fn' = "add" /\ dev' = d /\ admin' = a /\ UNCHANGED <<magic, hasId, hasKey>>
        /\ ~Found(block, d)
    BY <1>8 DEF AddPairing, Search
  <2>2. Perm(a) \in promised'[d]
        /\ \A e \in Device : promised[e] \subseteq promised'[e]
    BY <1>8 DEF AddPairing, TypeOK
  <2>3. Lookups' /\ Single'
    BY <2>1, <2>2 DEF Kept, Lookups, Single
  <2>4. CallOK'
    BY <2>1, <2>2 DEF Kept, Found,
       Changing, Adding, Updating, Retiring, Resetting, Absent, Formatted
  <2> QED BY <2>3, <2>4 DEF Kept
<1>9. ASSUME NEW d \in Device, NEW a \in BOOLEAN, UpdatePairing(d, a)
      PROVE  Kept'
  <2>1. Kept /\ pc = "idle" /\ pc' \in {"place", "compact"} /\ block' = block
        /\ fn' = "update" /\ dev' = d /\ admin' = a /\ at' = Index(block, d)
        /\ UNCHANGED <<magic, hasId, hasKey>> /\ Found(block, d)
    BY <1>9 DEF UpdatePairing, Search
  <2>2. Perm(a) \in promised'[d]
        /\ \A e \in Device : promised[e] \subseteq promised'[e]
    BY <1>9 DEF UpdatePairing, TypeOK
  <2>3. Lookups' /\ Single'
    BY <2>1, <2>2 DEF Kept, Lookups, Single
  <2>4. Holding(block, d) = {Index(block, d)}
    BY <2>1, IndexIsFirst DEF Kept, Single
  <2>5. CallOK'
    BY <2>1, <2>2, <2>4 DEF Kept,
       Changing, Adding, Updating, Retiring, Resetting, Absent, Formatted
  <2> QED BY <2>3, <2>5 DEF Kept
<1>10. CASE CompactFull \/ WriteRecordFails
  <2>1. Kept /\ pc \in {"compact", "place"} /\ pc' = "idle" /\ fn' = "none"
        /\ UNCHANGED <<magic, hasId, hasKey, block, promised>>
    BY <1>10 DEF CompactFull, WriteRecordFails
  <2>2. CallOK'
    BY <2>1 DEF Kept, Changing, Adding, Updating, Retiring, Resetting, Absent, Formatted
  <2> QED BY <2>1, <2>2, LookupsSame DEF Kept
<1>11. CASE Compact
  <2>1. Kept /\ pc = "compact" /\ pc' = "blank"
        /\ UNCHANGED <<magic, hasId, hasKey, block, promised, fn, dev, admin, at>>
    BY <1>11 DEF Compact
  <2>2. CallOK'
    BY <2>1 DEF Kept, Control,
       Changing, Adding, Updating, Retiring, Resetting, Absent, Formatted
  <2> QED BY <2>1, <2>2, LookupsSame DEF Kept
<1>12. CASE CompactOutOfBounds \/ Crash
  <2>1. Kept /\ pc # "retire" /\ pc' = "boot" /\ fn' = "init"
        /\ UNCHANGED <<magic, hasId, hasKey, block, promised>>
    BY <1>12 DEF CompactOutOfBounds, Crash, Restart
  <2>2. CallOK'
    BY <2>1 DEF Kept, Changing, Adding, Updating, Retiring, Resetting, Absent, Formatted
  <2> QED BY <2>1, <2>2, LookupsSame DEF Kept
<1>13. CASE WriteRecord
  BY <1>13, KeptWriteRecord DEF WriteRecord
<1>14. CASE RetireRecord
  BY <1>14, KeptRetireRecord DEF RetireRecord
<1>15. CASE RetireFails \/ BootReadFails
  BY <1>15 DEF RetireFails, BootReadFails
<1>16. ASSUME NEW d \in Device, RemovePairing(d)
       PROVE  Kept'
  BY <1>16, KeptRemovePairing DEF RemovePairing
<1>17. CASE TornWrite
  BY <1>17, KeptTornWrite DEF TornWrite
<1>18. CASE CompactFails
  <2>1. Kept /\ pc = "compact" /\ pc' = "place"
        /\ UNCHANGED <<magic, hasId, hasKey, block, promised, fn, dev, admin, at>>
    BY <1>18 DEF CompactFails
  <2>2. CallOK'
    BY <2>1 DEF Kept, Control,
       Changing, Adding, Updating, Retiring, Resetting, Absent, Formatted
  <2> QED BY <2>1, <2>2, LookupsSame DEF Kept
<1>19. CASE (\E d \in Device : RemoveFails(d)) \/ UNCHANGED vars
  <2>1. UNCHANGED <<magic, hasId, hasKey, block, fn, pc, dev, admin, at, promised>> /\ Kept
    BY <1>19 DEF RemoveFails, vars
  <2> QED BY <2>1 DEF Kept, Lookups, Single, Absent, Formatted,
                      Changing, Adding, Updating, Retiring, Resetting
<1> QED
  BY <1>1, <1>2, <1>3, <1>4, <1>5, <1>6, <1>7, <1>8, <1>9, <1>10, <1>11,
     <1>12, <1>13, <1>14, <1>15, <1>16, <1>17, <1>18, <1>19 DEF Next

LEMMA InvInductive == Spec => []Inv
<1>1. Init => Inv
  <2>1. Init => RecordsBeforeErased
    BY DEF Init, RecordsBeforeErased, Filled, Valid, ErasedBlock
  <2> QED BY <2>1, InitTyped, KeptInit DEF Inv
<1>2. Inv /\ [Next]_vars => Inv'
  BY NextTyped, FilledNext, KeptNext DEF Inv
<1> QED BY <1>1, <1>2, PTL DEF Spec

(* For any number of controllers, blocks, resets of the chip and failing   *)
(* flash operations: until the sector is compacted, a device gets a second *)
(* record, a record is written into an unformatted sector or an update     *)
(* stops between its writes, every lookup by the server returns what the   *)
(* completed operations promised or what the one in progress will.         *)
THEOREM FaithfulAlways == Spec => []Faithful
<1>1. Inv => Faithful
  BY DEF Inv, Kept, Lookups, Faithful
<1> QED BY <1>1, InvInductive, PTL

(* Under the same condition a device has one record, but for the one an    *)
(* update is about to zero.                                                *)
THEOREM OneRecord == Spec => []UniqueRecords
<1>1. Inv => UniqueRecords
  <2> SUFFICES ASSUME Inv, clean, NEW d \in Device,
                      NEW i \in Holding(block, d), NEW j \in Holding(block, d), i # j
               PROVE  pc = "retire" /\ d = dev /\ at \in {i, j}
    BY DEF UniqueRecords
  <2>1. pc = "retire" /\ d = dev
    BY DEF Inv, Kept, Single
  <2>2. \E n \in Slot : Holding(block, dev) = {at, n}
    BY <2>1 DEF Inv, Kept, Retiring
  <2> QED BY <2>1, <2>2
<1> QED BY <1>1, InvInductive, PTL
-----------------------------------------------------------------------------
(* The list of pairings that the table holds.                              *)

Entry(r) == [dev |-> r.dev, admin |-> r.admin]

LEMMA EntryTyped ==
  ASSUME NEW r \in Block
  PROVE  Entry(r) \in List!Pairing /\ Entry(r).dev = r.dev
BY DEF Entry, Block, List!Pairing

\* Block by block: a record adds its entry, any other block nothing.
LEMMA ListedSteps ==
  ASSUME NEW b \in [Slot -> Block]
  PROVE  /\ Listed(b)[0] = <<>>
         /\ \A n \in Slot :
              Listed(b)[n + 1] = IF Valid(b, n) THEN Append(Listed(b)[n], Entry(b[n]))
                                 ELSE Listed(b)[n]
         /\ \A n \in 0 .. MaxPairings : Listed(b)[n] \in Seq(List!Pairing)
<1> DEFINE N == MaxPairings
           S == Seq(List!Pairing)
           step == [n \in 1 .. N |-> [s \in S |->
                      IF Valid(b, n - 1) THEN Append(s, Entry(b[n - 1])) ELSE s]]
<1>1. N \in Nat /\ \A n \in 1 .. N : n - 1 \in Slot /\ b[n - 1] \in Block
  BY MaxPairingsAssumption DEF Slot
<1>2. IsStep(step, N, S)
  <2>1. ASSUME NEW n \in 1 .. N, NEW s \in S
        PROVE  (IF Valid(b, n - 1) THEN Append(s, Entry(b[n - 1])) ELSE s) \in S
    <3>1. Entry(b[n - 1]) \in List!Pairing
      BY <1>1, EntryTyped
    <3> QED
      BY <3>1
  <2> HIDE DEF S
  <2> QED
    BY <2>1 DEF IsStep
<1>3. PICK f : f \in [0 .. N -> S] /\ Follows(f, N, <<>>, step)
  <2>1. <<>> \in S
    OBVIOUS
  <2> HIDE DEF step, N, S
  <2> QED
    BY <1>1, <1>2, <2>1, RecursionUpTo
<1>4. ASSUME NEW n \in 1 .. N
      PROVE  f[n] = IF Valid(b, n - 1) THEN Append(f[n - 1], Entry(b[n - 1])) ELSE f[n - 1]
  <2>1. f[n - 1] \in S
    <3> HIDE DEF step, N, S
    <3> QED
      BY <1>1, <1>3
  <2> HIDE DEF S
  <2> QED
    BY <1>3, <2>1 DEF Follows
<1> DEFINE Body(g, n) ==
             IF n = 0 THEN <<>>
             ELSE IF Valid(b, n - 1)
               THEN Append(g[n - 1], [dev |-> b[n - 1].dev, admin |-> b[n - 1].admin])
             ELSE g[n - 1]
           IsKept(g) == g = [n \in 0 .. MaxPairings |-> Body(g, n)]
           kept == CHOOSE g : IsKept(g)
<1>5. IsKept(f)
  <2>1. \A n \in 0 .. N : n = 0 \/ n \in 1 .. N
    BY <1>1
  <2>2. \A n \in 0 .. N : f[n] = Body(f, n)
    BY <1>3, <1>4, <2>1 DEF Follows, Entry
  <2> HIDE DEF Body, S, step
  <2> QED
    BY <1>3, <2>2
<1>6. IsKept(kept)
  <2> HIDE DEF IsKept
  <2> QED
    BY <1>5
<1>7. Listed(b) = kept
  BY DEF Listed
<1> HIDE DEF kept
<1>8. /\ kept[0] = <<>>
      /\ \A n \in Slot : kept[n + 1] = IF Valid(b, n) THEN Append(kept[n], Entry(b[n]))
                                       ELSE kept[n]
  <2>1. \A n \in 0 .. N : kept[n] = Body(kept, n)
    <3> HIDE DEF Body
    <3> QED
      BY <1>6, Zenon
  <2>2. 0 \in 0 .. N /\ \A n \in Slot : n + 1 \in 0 .. N /\ n + 1 # 0 /\ n + 1 - 1 = n
    BY <1>1 DEF Slot
  <2>3. kept[0] = <<>>
    BY <2>1, <2>2
  <2>4. ASSUME NEW n \in Slot
        PROVE  kept[n + 1] = IF Valid(b, n) THEN Append(kept[n], Entry(b[n])) ELSE kept[n]
    <3> DEFINE i == n + 1
    <3>1. i \in 0 .. N /\ i # 0 /\ i - 1 = n
      BY MaxPairingsAssumption DEF Slot
    <3> HIDE DEF i
    <3>2. kept[i] = Body(kept, i)
      BY <2>1, <3>1
    <3>3. kept[i] = IF Valid(b, n) THEN Append(kept[n], Entry(b[n])) ELSE kept[n]
      BY <3>1, <3>2, Zenon DEF Entry
    <3> QED
      BY <3>3 DEF i
  <2> QED
    BY <2>3, <2>4
<1> HIDE DEF IsKept, Body, step
<1>9. \A n \in 0 .. N : kept[n] \in S
  <2> DEFINE T == {n \in 0 .. N : kept[n] \in S}
  <2>1. 0 \in T
    <3>1. <<>> \in S /\ 0 \in 0 .. N
      BY <1>1
    <3> HIDE DEF S
    <3> QED
      BY <1>8, <3>1
  <2>2. ASSUME NEW n \in 0 .. N - 1, n \in T PROVE n + 1 \in T
    <3>1. n \in Slot /\ n + 1 \in 0 .. N
      BY <1>1 DEF Slot
    <3>2. Append(kept[n], Entry(b[n])) \in S
      <4>1. Entry(b[n]) \in List!Pairing
        BY <3>1, EntryTyped
      <4> QED
        BY <2>2, <4>1
    <3> HIDE DEF S
    <3> QED
      BY <1>8, <2>2, <3>1, <3>2
  <2> HIDE DEF T
  <2>3. \A n \in 0 .. N : n \in T
    BY <1>1, <2>1, <2>2, InductionUpTo DEF IsInductive
  <2> QED
    BY <2>3 DEF T
<1> QED
  BY <1>7, <1>8, <1>9 DEF S

\* Blocks that differ only where neither holds a record give the same list.
LEMMA ListedAlike ==
  ASSUME NEW b \in [Slot -> Block], NEW c \in [Slot -> Block], NEW m \in 0 .. MaxPairings,
         \A i \in Slot : i < m => b[i] = c[i] \/ (~Valid(b, i) /\ ~Valid(c, i))
  PROVE  Listed(b)[m] = Listed(c)[m]
<1> DEFINE x == Listed(b)
           y == Listed(c)
           S == {n \in 0 .. m : x[n] = y[n]}
<1>1. /\ x[0] = <<>> /\ y[0] = <<>>
      /\ \A n \in Slot : x[n + 1] = IF Valid(b, n) THEN Append(x[n], Entry(b[n])) ELSE x[n]
      /\ \A n \in Slot : y[n + 1] = IF Valid(c, n) THEN Append(y[n], Entry(c[n])) ELSE y[n]
  BY ListedSteps
<1> HIDE DEF x, y
<1>2. 0 \in S
  BY <1>1
<1>3. ASSUME NEW n \in 0 .. m - 1, n \in S PROVE n + 1 \in S
  <2>1. n \in Slot /\ n < m /\ n + 1 \in 0 .. m
    BY MaxPairingsAssumption DEF Slot
  <2>2. Valid(b, n) = Valid(c, n) /\ (Valid(b, n) => b[n] = c[n])
    BY <2>1 DEF Valid
  <2>3. x[n + 1] = y[n + 1]
    BY <1>1, <1>3, <2>1, <2>2
  <2> QED
    BY <2>1, <2>3
<1> HIDE DEF S
<1>4. m \in S
  BY <1>2, <1>3, InductionUpTo DEF IsInductive
<1> QED
  BY <1>4 DEF S, x, y

\* Behind the last record the list is complete.
LEMMA ListedStill ==
  ASSUME NEW b \in [Slot -> Block], NEW m \in 0 .. MaxPairings,
         \A i \in Slot : m <= i => ~Valid(b, i)
  PROVE  Listed(b)[MaxPairings] = Listed(b)[m]
<1> DEFINE x == Listed(b)
           S == {n \in 0 .. MaxPairings : m <= n => x[n] = x[m]}
<1>1. \A n \in Slot : x[n + 1] = IF Valid(b, n) THEN Append(x[n], Entry(b[n])) ELSE x[n]
  BY ListedSteps
<1> HIDE DEF x
<1>2. 0 \in S
  BY MaxPairingsAssumption
<1>3. ASSUME NEW n \in 0 .. MaxPairings - 1, n \in S PROVE n + 1 \in S
  <2>1. n \in Slot /\ n + 1 \in 0 .. MaxPairings
    BY MaxPairingsAssumption DEF Slot
  <2>2. CASE m <= n
    <3>1. x[n + 1] = x[n] /\ x[n] = x[m]
      BY <1>1, <1>3, <2>1, <2>2
    <3> QED
      BY <2>1, <3>1
  <2>3. CASE ~ (m <= n)
    BY <2>1, <2>3
  <2> QED
    BY <2>2, <2>3
<1> HIDE DEF S
<1>4. MaxPairings \in S
  BY <1>2, <1>3, InductionUpTo, MaxPairingsAssumption DEF IsInductive
<1> QED
  BY <1>4, MaxPairingsAssumption DEF S, x

\* A table without records.
LEMMA ListedNone ==
  ASSUME NEW b \in [Slot -> Block], \A i \in Slot : ~Valid(b, i)
  PROVE  Listed(b)[MaxPairings] = <<>>
BY ListedSteps, ListedStill, MaxPairingsAssumption

\* A record written in the first erased block comes last.
LEMMA ListedAppend ==
  ASSUME NEW b \in [Slot -> Block], Filled(b), NEW i \in Slot, FirstEmpty(b, i),
         NEW r \in Block, r.magic = "HAP"
  PROVE  Listed([b EXCEPT ![i] = r])[MaxPairings]
           = Append(Listed(b)[MaxPairings], Entry(r))
<1> DEFINE c == [b EXCEPT ![i] = r]
           k == i + 1
<1>1. /\ i \in 0 .. MaxPairings /\ k \in 0 .. MaxPairings
      /\ \A j \in Slot : k <= j => i <= j /\ j # i
  BY MaxPairingsAssumption DEF Slot
<1>2. /\ c \in [Slot -> Block] /\ c[i] = r
      /\ \A j \in Slot : j # i => c[j] = b[j]
  OBVIOUS
<1>3. \A j \in Slot : i <= j => ~Valid(b, j)
  BY DEF Filled, FirstEmpty, FirstOf, EmptyBlocks, Slot
<1> HIDE DEF c, k
<1>4. Listed(b)[MaxPairings] = Listed(b)[i]
  BY <1>1, <1>3, ListedStill
<1>5. Listed(c)[i] = Listed(b)[i]
  <2>1. \A j \in Slot : j < i => c[j] = b[j]
    BY <1>2 DEF Slot
  <2> QED
    BY <1>1, <1>2, <2>1, ListedAlike
<1>6. Listed(c)[k] = Append(Listed(c)[i], Entry(r))
  <2>1. Valid(c, i)
    BY <1>2 DEF Valid
  <2> QED
    BY <1>2, <2>1, ListedSteps DEF k
<1>7. Listed(c)[MaxPairings] = Listed(c)[k]
  <2>1. \A j \in Slot : k <= j => ~Valid(c, j)
    BY <1>1, <1>2, <1>3 DEF Valid
  <2> QED
    BY <1>1, <1>2, <2>1, ListedStill
<1> QED
  BY <1>4, <1>5, <1>6, <1>7 DEF c

\* A list without one of its elements.
LEMMA WithoutOne ==
  ASSUME NEW T, NEW a \in Seq(T), NEW p \in T, NEW t \in Seq(T),
         NEW q, q = Append(a, p), NEW s, s = q \o t, NEW k, k = Len(a) + 1
  PROVE  /\ s \in Seq(T) /\ k \in 1 .. Len(s) /\ s[k] = p
         /\ \A j \in 1 .. k - 1 : j \in 1 .. Len(a) /\ s[j] = a[j]
         /\ SubSeq(s, 1, k - 1) = a /\ SubSeq(s, k + 1, Len(s)) = t
<1>1. /\ q \in Seq(T) /\ Len(q) = k /\ q[k] = p
      /\ \A j \in 1 .. Len(a) : q[j] = a[j]
  BY AppendProperties
<1>2. Len(a) \in Nat /\ Len(t) \in Nat /\ k - 1 = Len(a) /\ k \in Nat \ {0}
  OBVIOUS
<1>3. /\ s \in Seq(T) /\ Len(s) = k + Len(t)
      /\ \A j \in 1 .. Len(s) : s[j] = IF j <= k THEN q[j] ELSE t[j - k]
  BY <1>1, ConcatProperties
<1>4. \A j \in 1 .. k - 1 : j \in 1 .. Len(a) /\ s[j] = a[j]
  BY <1>1, <1>2, <1>3
<1>5. k \in 1 .. Len(s) /\ s[k] = p
  BY <1>1, <1>2, <1>3
<1>6. SubSeq(s, 1, k - 1) = a
  <2>1. /\ SubSeq(s, 1, k - 1) \in Seq(T) /\ Len(SubSeq(s, 1, k - 1)) = Len(a)
        /\ \A j \in 1 .. k - 1 : SubSeq(s, 1, k - 1)[j] = s[j]
    BY <1>2, <1>3
  <2>2. \A j \in 1 .. Len(a) : SubSeq(s, 1, k - 1)[j] = a[j]
    BY <1>2, <1>4, <2>1
  <2> DEFINE v == SubSeq(s, 1, k - 1)
  <2>3. v \in Seq(T) /\ Len(v) = Len(a) /\ \A j \in 1 .. Len(a) : v[j] = a[j]
    BY <2>1, <2>2
  <2> HIDE DEF v
  <2>4. v = a
    BY <2>3, SeqEqual
  <2> QED
    BY <2>4 DEF v
<1>7. SubSeq(s, k + 1, Len(s)) = t
  <2> DEFINE v == SubSeq(s, k + 1, Len(s))
  <2>1. /\ v \in Seq(T) /\ Len(v) = Len(t)
        /\ \A j \in 1 .. Len(t) : v[j] = s[k + j]
    <3>1. /\ k + 1 \in Int /\ Len(s) \in Int /\ Len(s) - (k + 1) + 1 = Len(t)
          /\ \A j \in 1 .. Len(t) : k + 1 + j - 1 = k + j
          /\ (k + 1 <= Len(s) <=> Len(t) # 0)
      BY <1>2, <1>3
    <3>2. \A j \in k + 1 .. Len(s) : s[j] \in T
      BY <1>2, <1>3
    <3> QED
      BY <1>2, <3>1, <3>2, SubSeqProperties
  <2>2. \A j \in 1 .. Len(t) : k + j \in 1 .. Len(s) /\ ~ (k + j <= k) /\ k + j - k = j
    BY <1>2, <1>3
  <2>3. \A j \in 1 .. Len(t) : s[k + j] = t[j]
    BY <1>3, <2>2
  <2> HIDE DEF v
  <2>4. v = t
    BY <2>1, <2>3, SeqEqual
  <2> QED
    BY <2>4 DEF v
<1> QED
  BY <1>3, <1>4, <1>5, <1>6, <1>7

\* Two lists behind each other, and a list made longer.  The provers expand
\* \o and Append; with these names the lemma applies to terms as they stand.
Behind(front, rest) == front \o rest
Longer(s, last, t) == t = Append(s, last)

LEMMA AppendBehind ==
  ASSUME NEW T, NEW front \in Seq(T), NEW rest \in Seq(T), NEW last \in T,
         NEW t, Longer(rest, last, t)
  PROVE  Longer(Behind(front, rest), last, Behind(front, t))
<1>1. front \o rest \in Seq(T) /\ <<last>> \in Seq(T)
  OBVIOUS
<1>2. /\ Append(front \o rest, last) = (front \o rest) \o <<last>>
      /\ Append(rest, last) = rest \o <<last>>
  BY <1>1, AppendIsConcat
<1> QED
  BY <1>1, <1>2, ConcatAssociative DEF Behind, Longer

\* s is u but for the element e, which it has behind front.
Parted(s, u, front, e) ==
  \E t \in Seq(List!Pairing) : s = Append(front, e) \o t /\ u = front \o t

\* A zeroed block: the entry it had, if any, is missing, the others keep
\* their order.
LEMMA ListedZero ==
  ASSUME NEW b \in [Slot -> Block], NEW i \in Slot, NEW c, c = [b EXCEPT ![i] = ZeroedBlock]
  PROVE  /\ ~Valid(b, i) => Listed(c)[MaxPairings] = Listed(b)[MaxPairings]
         /\ Valid(b, i) =>
              Parted(Listed(b)[MaxPairings], Listed(c)[MaxPairings], Listed(b)[i], Entry(b[i]))
<1> DEFINE x == Listed(b)
           y == Listed(c)
           P == List!Pairing
           a == Listed(b)[i]
           p == Entry(b[i])
           k == i + 1
           q == Append(a, p)
           Apart(n) == \E t \in Seq(P) : x[n] = q \o t /\ y[n] = a \o t
           S == {n \in 0 .. MaxPairings : k <= n => Apart(n)}
<1>1. /\ c \in [Slot -> Block] /\ ~Valid(c, i)
      /\ \A j \in Slot : j # i => c[j] = b[j] /\ Valid(c, j) = Valid(b, j)
  BY BlockTypes DEF Valid, ZeroedBlock
<1>2. /\ \A n \in Slot : x[n + 1] = IF Valid(b, n) THEN Append(x[n], Entry(b[n])) ELSE x[n]
      /\ \A n \in Slot : y[n + 1] = IF Valid(c, n) THEN Append(y[n], Entry(c[n])) ELSE y[n]
      /\ a \in Seq(P)
  <2>1. i \in 0 .. MaxPairings
    BY MaxPairingsAssumption DEF Slot
  <2>2. a \in Seq(P)
    BY <2>1, ListedSteps
  <2> QED
    BY <1>1, <2>2, ListedSteps
<1>3. i \in 0 .. MaxPairings /\ k \in 1 .. MaxPairings
  BY MaxPairingsAssumption DEF Slot
<1>4. ASSUME ~Valid(b, i) PROVE y[MaxPairings] = x[MaxPairings]
  <2>1. MaxPairings \in 0 .. MaxPairings
    BY MaxPairingsAssumption
  <2>2. \A j \in Slot : b[j] = c[j] \/ (~Valid(b, j) /\ ~Valid(c, j))
    BY <1>1, <1>4
  <2>3. c \in [Slot -> Block] /\ \A j \in Slot : j < MaxPairings =>
          b[j] = c[j] \/ (~Valid(b, j) /\ ~Valid(c, j))
    BY <1>1, <2>2
  <2> QED
    BY <2>1, <2>3, ListedAlike, Zenon
<1>5. ASSUME Valid(b, i) PROVE Apart(MaxPairings)
  <2>1. y[i] = a
    <3>1. c \in [Slot -> Block] /\ \A j \in Slot : j < i =>
            b[j] = c[j] \/ (~Valid(b, j) /\ ~Valid(c, j))
      BY <1>1 DEF Slot
    <3> QED
      BY <1>3, <3>1, ListedAlike, Zenon
  <2>2. p \in P /\ q \in Seq(P)
    <3>1. p \in P /\ q = Append(a, p)
      BY EntryTyped
    <3> HIDE DEF P, p, a
    <3> QED
      BY <1>2, <3>1
  <2> HIDE DEF x, y, P, a, p, q
  <2>3. x[k] = q /\ y[k] = a
    BY <1>1, <1>2, <1>5, <2>1 DEF a, p, q, x
  <2>4. Apart(k)
    <3>1. x[k] = q \o <<>> /\ y[k] = a \o <<>> /\ <<>> \in Seq(P)
      BY <1>2, <2>2, <2>3, ConcatEmptySeq
    <3> QED
      BY <3>1
  <2>5. ASSUME NEW n \in Slot, k <= n, Apart(n) PROVE Apart(n + 1)
    <3> DEFINE e == Entry(b[n])
               m == n + 1
    <3>1. PICK t \in Seq(P) : x[n] = q \o t /\ y[n] = a \o t
      BY <2>5
    <3>2. e \in P /\ n # i
      <4>1. n # i
        BY <1>3, <2>5 DEF Slot
      <4> QED
        BY <4>1, EntryTyped DEF P
    <3> HIDE DEF e, m, k
    <3>3. CASE Valid(b, n)
      <4> DEFINE z == Append(t, e)
      <4>1. x[m] = Append(x[n], e) /\ y[m] = Append(y[n], e)
        BY <1>1, <1>2, <3>2, <3>3 DEF m, e
      <4>2. z \in Seq(P)
        BY <2>2, <3>1, <3>2
      <4>3. Append(q \o t, e) = q \o z /\ Append(a \o t, e) = a \o z
        <5>1. a \in Seq(P) /\ q \in Seq(P) /\ t \in Seq(P) /\ e \in P
          BY <1>2, <2>2, <3>1, <3>2
        <5>2. Longer(t, e, z)
          BY DEF Longer
        <5> HIDE DEF z
        <5>3. Longer(Behind(q, t), e, Behind(q, z)) /\ Longer(Behind(a, t), e, Behind(a, z))
          BY <5>1, <5>2, AppendBehind
        <5> QED
          BY <5>3 DEF Behind, Longer
      <4>4. x[m] = q \o z /\ y[m] = a \o z
        BY <3>1, <4>1, <4>3
      <4> HIDE DEF z
      <4> QED
        BY <4>2, <4>4 DEF m
    <3>4. CASE ~Valid(b, n)
      <4>1. x[m] = x[n] /\ y[m] = y[n]
        BY <1>1, <1>2, <3>2, <3>4 DEF m
      <4> QED
        BY <3>1, <4>1 DEF m
    <3> QED
      BY <3>3, <3>4
  <2> HIDE DEF Apart
  <2>6. 0 \in S
    <3>1. 0 \in 0 .. MaxPairings /\ ~ (k <= 0)
      BY <1>3, MaxPairingsAssumption
    <3> HIDE DEF k
    <3> QED
      BY <3>1
  <2>7. ASSUME NEW n \in 0 .. MaxPairings - 1, n \in S PROVE n + 1 \in S
    <3> DEFINE m == n + 1
    <3>1. m \in 0 .. MaxPairings /\ n \in Slot /\ (k <= m => k = m \/ k <= n)
      BY <1>3, MaxPairingsAssumption DEF Slot
    <3>2. k <= m => Apart(m)
      BY <2>4, <2>5, <2>7, <3>1
    <3> HIDE DEF m
    <3> QED
      BY <3>1, <3>2 DEF m
  <2> HIDE DEF S
  <2>8. MaxPairings \in S
    BY <2>6, <2>7, InductionUpTo, MaxPairingsAssumption DEF IsInductive
  <2> QED
    BY <1>3, <2>8 DEF S
<1>6. Apart(MaxPairings) => Parted(x[MaxPairings], y[MaxPairings], a, p)
  <2> HIDE DEF x, y, a, p
  <2> QED
    BY DEF Parted
<1> HIDE DEF Apart
<1> QED
  BY <1>4, <1>5, <1>6

\* In front of the first record of a device are only those of others.
LEMMA ListedOthers ==
  ASSUME NEW b \in [Slot -> Block], NEW d, NEW i \in Slot, FirstOf(Holding(b, d), i)
  PROVE  \A j \in 1 .. Len(Listed(b)[i]) : Listed(b)[i][j].dev # d
<1> DEFINE x == Listed(b)
           P == List!Pairing
           S == {n \in 0 .. i : \A j \in 1 .. Len(x[n]) : x[n][j].dev # d}
<1>1. /\ x[0] = <<>>
      /\ \A n \in Slot : x[n + 1] = IF Valid(b, n) THEN Append(x[n], Entry(b[n])) ELSE x[n]
      /\ \A n \in 0 .. MaxPairings : x[n] \in Seq(P)
  BY ListedSteps
<1>2. \A n \in Slot : Entry(b[n]) \in P /\ Entry(b[n]).dev = b[n].dev
  BY EntryTyped
<1>3. \A n \in Slot : n < i /\ Valid(b, n) => b[n].dev # d
  BY DEF FirstOf, Holding, Slot
<1>4. i \in Nat /\ i \in 0 .. MaxPairings
  BY MaxPairingsAssumption DEF Slot
<1> HIDE DEF x, P
<1>5. 0 \in S
  BY <1>1, <1>4
<1>6. ASSUME NEW n \in 0 .. i - 1, n \in S PROVE n + 1 \in S
  <2> DEFINE m == n + 1
             u == x[n]
             e == Entry(b[n])
  <2>1. n \in Slot /\ n < i /\ n \in 0 .. MaxPairings /\ m \in 0 .. i
    BY <1>4, MaxPairingsAssumption DEF Slot
  <2>2. u \in Seq(P) /\ e \in P
    BY <1>1, <1>2, <2>1
  <2>3. x[m] = IF Valid(b, n) THEN Append(u, e) ELSE u
    BY <1>1, <2>1
  <2>4. Valid(b, n) => e.dev # d
    BY <1>2, <1>3, <2>1
  <2>5. \A j \in 1 .. Len(u) : u[j].dev # d
    BY <1>6
  <2> HIDE DEF u, e, m
  <2>6. \A j \in 1 .. Len(x[m]) : x[m][j].dev # d
    <3>1. CASE Valid(b, n)
      BY <2>2, <2>3, <2>4, <2>5, <3>1
    <3>2. CASE ~Valid(b, n)
      BY <2>3, <2>5, <3>2
    <3> QED
      BY <3>1, <3>2
  <2>7. m \in S
    BY <2>1, <2>6
  <2> QED
    BY <2>7 DEF m
<1> HIDE DEF S
<1>7. i \in S
  BY <1>4, <1>5, <1>6, InductionUpTo DEF IsInductive
<1> QED
  BY <1>7 DEF S, x

-----------------------------------------------------------------------------
(* The steps of the list.                                                  *)

\* The first record of a device is zeroed: its first pairing is dropped.
LEMMA ZeroingDrops ==
  ASSUME TypeOK, NEW d \in Device, NEW i \in Slot, FirstOf(Holding(block, d), i),
         block' = [block EXCEPT ![i] = ZeroedBlock]
  PROVE  List!Drop(d)
<1> DEFINE a == Listed(block)[i]
           p == Entry(block[i])
           k == Len(a) + 1
           s == Records
           P == List!Pairing
<1>1. block \in [Slot -> Block] /\ Valid(block, i) /\ block[i].dev = d
  BY DEF TypeOK, FirstOf, Holding
<1>2. p \in P /\ p.dev = d
  BY <1>1, EntryTyped
<1>3. a \in Seq(P)
  <2>1. i \in 0 .. MaxPairings
    BY MaxPairingsAssumption DEF Slot
  <2> QED
    BY <1>1, <2>1, ListedSteps
<1>4. PICK t \in Seq(P) : s = Append(a, p) \o t /\ s' = a \o t
  <2> DEFINE c == block'
             z == Listed(c)[MaxPairings]
  <2>1. c = [block EXCEPT ![i] = ZeroedBlock] /\ s' = z
    BY DEF Records
  <2> HIDE DEF c
  <2>2. Parted(s, z, a, p)
    BY <1>1, <2>1, ListedZero DEF Records
  <2> HIDE DEF a, p, s, z
  <2> QED
    BY <2>1, <2>2 DEF Parted
<1>5. \A j \in 1 .. Len(a) : a[j].dev # d
  BY <1>1, ListedOthers
<1> HIDE DEF a, p, P
<1>6. /\ k \in 1 .. Len(s) /\ s[k] = p
      /\ \A j \in 1 .. k - 1 : j \in 1 .. Len(a) /\ s[j] = a[j]
      /\ s' = SubSeq(s, 1, k - 1) \o SubSeq(s, k + 1, Len(s))
  <2> DEFINE q == Append(a, p)
             u == s'
  <2>1. s = q \o t /\ u = a \o t
    BY <1>4
  <2> HIDE DEF s, q, u
  <2>2. q = Append(a, p) /\ k = Len(a) + 1
    BY DEF q
  <2> HIDE DEF k
  <2>3. /\ k \in 1 .. Len(s) /\ s[k] = p
        /\ \A j \in 1 .. k - 1 : j \in 1 .. Len(a) /\ s[j] = a[j]
        /\ SubSeq(s, 1, k - 1) = a /\ SubSeq(s, k + 1, Len(s)) = t
    BY <1>2, <1>3, <2>1, <2>2, WithoutOne
  <2> QED
    BY <2>1, <2>3 DEF u
<1>7. s[k].dev = d /\ \A j \in 1 .. k - 1 : s[j].dev # d
  BY <1>2, <1>5, <1>6
<1> HIDE DEF k
<1> QED
  BY <1>6, <1>7 DEF List!Drop

\* A record is written in the first erased block: a pairing is recorded.
LEMMA WritingRecords ==
  ASSUME TypeOK, RecordsBeforeErased, NEW i \in Slot, FirstEmpty(block, i),
         NEW d \in Device \cup {NoDevice}, NEW a \in BOOLEAN,
         block' = [block EXCEPT ![i] = Record(d, a)]
  PROVE  \E p \in List!Pairing : List!Record(p)
<1> DEFINE r == Record(d, a)
           p == Entry(r)
<1>1. r \in Block /\ r.magic = "HAP"
  BY BlockTypes DEF Record
<1>2. p \in List!Pairing
  BY <1>1, EntryTyped
<1> DEFINE b == block
           c == [b EXCEPT ![i] = r]
<1> HIDE DEF r
<1>3. b \in [Slot -> Block] /\ Filled(b) /\ FirstEmpty(b, i)
      /\ Records = Listed(b)[MaxPairings] /\ Records' = Listed(c)[MaxPairings]
  BY DEF TypeOK, RecordsBeforeErased, Records, r
<1>4. Records' = Append(Records, p)
  <2> HIDE DEF b
  <2> QED
    BY <1>1, <1>3, ListedAppend, Zenon
<1> QED
  BY <1>2, <1>4 DEF List!Record

\* A zeroed block that held no record: nothing changes.
LEMMA ZeroingNothing ==
  ASSUME TypeOK, NEW i \in Slot, ~Valid(block, i),
         block' = [block EXCEPT ![i] = ZeroedBlock]
  PROVE  Records' = Records
<1> DEFINE c == block'
<1>1. block \in [Slot -> Block] /\ c = [block EXCEPT ![i] = ZeroedBlock]
  BY DEF TypeOK
<1>2. Records' = Listed(c)[MaxPairings]
  BY DEF Records
<1> HIDE DEF c
<1> QED
  BY <1>1, <1>2, ListedZero DEF Records

(* The index that update_pairing keeps from its search is that of the      *)
(* first record of the device, also when a compaction that did not come    *)
(* back has erased the table: then the block it zeroes has no record, or   *)
(* the one just written.                                                   *)
Located ==
  /\ fn = "update" /\ pc # "retire"
       => FirstOf(Holding(block, dev), at) \/ \A i \in Slot : ~Valid(block, i)
  /\ pc = "retire" /\ Valid(block, at) => FirstOf(Holding(block, dev), at)

\* No update is in progress, or one goes on, its second write still to come.
LEMMA LocatedKept ==
  ASSUME Located, block' = block, pc' = "retire" => fn' = "update",
         \/ fn' # "update"
         \/ /\ fn = "update" /\ pc # "retire" /\ pc' # "retire"
            /\ dev' = dev /\ at' = at
  PROVE  Located'
BY DEF Located

LEMMA LocatedWrite ==
  ASSUME TypeOK, Control, RecordsBeforeErased, Located, WriteRecord
  PROVE  Located'
<1>1. CASE fn = "add"
  BY <1>1 DEF WriteRecord, Located
<1>2. CASE fn = "update"
  <2>1. PICK i \in Slot : FirstEmpty(block, i) /\ block' = [block EXCEPT ![i] = Record(dev, admin)]
    BY DEF WriteRecord
  <2>2. /\ fn' = "update" /\ pc' = "retire" /\ dev' = dev /\ at' = at
        /\ fn = "update" /\ pc # "retire"
    BY <1>2 DEF WriteRecord
  <2>3. /\ block \in [Slot -> Block] /\ at \in Slot /\ ~Valid(block, i)
        /\ \A j \in Slot : Valid(block, j) => j < i
    BY <2>1 DEF TypeOK, RecordsBeforeErased, Filled, FirstEmpty, FirstOf, EmptyBlocks, Valid
  <2> DEFINE c == block'
  <2>4. /\ c[i] = Record(dev, admin) /\ Valid(c, i) /\ c[i].dev = dev
        /\ \A j \in Slot \ {i} : c[j] = block[j] /\ Valid(c, j) = Valid(block, j)
    BY <2>1, <2>3 DEF Valid, Record
  <2> HIDE DEF c
  <2>5. Holding(c, dev) = Holding(block, dev) \cup {i}
    BY <2>3, <2>4 DEF Holding
  <2>6. ASSUME Valid(c, at) PROVE FirstOf(Holding(c, dev), at)
    <3>1. CASE FirstOf(Holding(block, dev), at)
      <4>1. at < i
        BY <2>3, <3>1 DEF FirstOf, Holding
      <4> QED
        BY <2>3, <2>5, <3>1, <4>1 DEF FirstOf, Slot
    <3>2. CASE \A j \in Slot : ~Valid(block, j)
      <4>1. at = i
        BY <2>3, <2>4, <2>6, <3>2
      <4>2. Holding(c, dev) = {i}
        BY <2>5, <3>2 DEF Holding
      <4> QED
        BY <4>1, <4>2 DEF FirstOf, Slot
    <3> QED
      BY <2>2, <3>1, <3>2 DEF Located
  <2> QED
    BY <2>2, <2>6 DEF Located, c
<1> QED
  BY <1>1, <1>2 DEF WriteRecord, Control

LEMMA LocatedNext ==
  ASSUME TypeOK, Control, RecordsBeforeErased, Located, [Next]_vars
  PROVE  Located'
<1> USE DEF flash, call
<1>1. CASE BootFormat \/ BootLoad \/ BootReset \/ BootReadFails
  BY <1>1, LocatedKept DEF BootFormat, BootLoad, BootReset, BootReadFails
<1>2. CASE SaveId \/ SaveKey \/ SaveFails
  BY <1>2, LocatedKept DEF SaveId, SaveKey, SaveFails, Control
<1>3. CASE Reset \/ WriteBlank
  BY <1>3, LocatedKept DEF Reset, WriteBlank
<1>4. CASE EraseSector
  <2>1. \A i \in Slot : ~Valid(block', i)
    BY <1>4 DEF EraseSector, Valid, ErasedBlock
  <2> QED
    BY <1>4, <2>1 DEF EraseSector, Located
<1>5. CASE WriteMagic \/ FormatFails
  BY <1>5, LocatedKept DEF WriteMagic, FormatFails, AfterFormat, Functions, TypeOK, Control
<1>6. ASSUME NEW d \in Device, NEW a \in BOOLEAN, AddPairing(d, a)
      PROVE  Located'
  BY <1>6, LocatedKept DEF AddPairing, Search
<1>7. ASSUME NEW d \in Device, NEW a \in BOOLEAN, UpdatePairing(d, a)
      PROVE  Located'
  <2>1. FirstOf(Holding(block, d), Index(block, d))
    BY <1>7, IndexIsFirst DEF UpdatePairing
  <2>2. pc' # "retire"
    BY <1>7 DEF UpdatePairing, Search
  <2>3. block' = block /\ dev' = d /\ at' = Index(block, d)
    BY <1>7 DEF UpdatePairing
  <2> QED
    BY <2>1, <2>2, <2>3 DEF Located
<1>8. CASE CompactFull \/ Compact \/ CompactFails \/ CompactOutOfBounds
  BY <1>8, LocatedKept DEF CompactFull, Compact, CompactFails, CompactOutOfBounds
<1>9. CASE WriteRecord
  BY <1>9, LocatedWrite
<1>10. CASE WriteRecordFails \/ RetireFails
  BY <1>10, LocatedKept DEF WriteRecordFails, RetireFails
<1>11. CASE RetireRecord
  BY <1>11 DEF RetireRecord, Located
<1>12. ASSUME NEW d \in Device, RemovePairing(d) \/ RemoveFails(d)
       PROVE  Located'
  <2>1. fn' = "none" /\ pc' = "idle"
    BY <1>12 DEF RemovePairing, RemoveFails, Control
  <2> QED
    BY <2>1 DEF Located
<1>13. CASE Crash \/ TornWrite
  <2>1. fn' = "init" /\ pc' = "boot"
    BY <1>13 DEF Crash, TornWrite, Restart
  <2> QED
    BY <2>1 DEF Located
<1>14. CASE UNCHANGED vars
  BY <1>14 DEF vars, Located
<1> QED
  BY <1>1, <1>2, <1>3, <1>4, <1>5, <1>6, <1>7, <1>8, <1>9, <1>10, <1>11, <1>12, <1>13,
     <1>14 DEF Next

\* Every flash operation, failure and reset is a step of the list, or none.
LEMMA ListStep ==
  ASSUME TypeOK, Control, RecordsBeforeErased, Located, [Next]_vars
  PROVE  [List!Next]_Records
<1> USE DEF flash
<1>1. CASE block' = block
  BY <1>1 DEF Records
<1>2. CASE EraseSector
  <2> DEFINE c == block'
  <2>1. c \in [Slot -> Block] /\ \A i \in Slot : ~Valid(c, i)
    BY <1>2, BlockTypes DEF EraseSector, Valid, ErasedBlock
  <2>2. Records' = Listed(c)[MaxPairings]
    BY DEF Records
  <2> HIDE DEF c
  <2>3. Records' = <<>>
    BY <2>1, <2>2, ListedNone
  <2> QED
    BY <2>3 DEF List!Next, List!Clear
<1>3. CASE WriteRecord
  <2>1. PICK i \in Slot : FirstEmpty(block, i) /\ block' = [block EXCEPT ![i] = Record(dev, admin)]
    BY <1>3 DEF WriteRecord
  <2>2. dev \in Device \cup {NoDevice} /\ admin \in BOOLEAN
    BY DEF TypeOK
  <2> QED
    BY <2>1, <2>2, WritingRecords DEF List!Next
<1>4. CASE TornWrite
  <2>1. PICK i \in Slot, a \in {admin, TRUE} :
          FirstEmpty(block, i) /\ block' = [block EXCEPT ![i] = Record(NoDevice, a)]
    BY <1>4 DEF TornWrite
  <2>2. a \in BOOLEAN
    BY DEF TypeOK
  <2> QED
    BY <2>1, <2>2, WritingRecords DEF List!Next
<1>5. CASE RetireRecord
  <2>1. block' = [block EXCEPT ![at] = ZeroedBlock] /\ at \in Slot /\ dev \in Device
    BY <1>5 DEF RetireRecord, TypeOK, Control
  <2>2. Valid(block, at) => FirstOf(Holding(block, dev), at)
    BY <1>5 DEF RetireRecord, Located
  <2> QED
    BY <2>1, <2>2, ZeroingDrops, ZeroingNothing DEF List!Next
<1>6. ASSUME NEW d \in Device, RemovePairing(d) PROVE [List!Next]_Records
  <2>1. CASE Found(block, d)
    <3> DEFINE i == Index(block, d)
    <3>1. FirstOf(Holding(block, d), i) /\ i \in Slot
      BY <2>1, IndexIsFirst DEF Holding
    <3>2. block' = [block EXCEPT ![i] = ZeroedBlock]
      BY <1>6, <2>1 DEF RemovePairing
    <3> HIDE DEF i
    <3> QED
      BY <3>1, <3>2, ZeroingDrops DEF List!Next
  <2>2. CASE ~Found(block, d)
    BY <1>1, <1>6, <2>2 DEF RemovePairing
  <2> QED
    BY <2>1, <2>2
<1>7. CASE \/ BootFormat \/ BootLoad \/ BootReset \/ BootReadFails
           \/ SaveId \/ SaveKey \/ SaveFails
  BY <1>1, <1>7 DEF BootFormat, BootLoad, BootReset, BootReadFails, SaveId, SaveKey, SaveFails
<1>8. CASE Reset \/ WriteBlank \/ WriteMagic \/ FormatFails
  BY <1>1, <1>8 DEF Reset, WriteBlank, WriteMagic, FormatFails
<1>9. ASSUME NEW d \in Device, NEW a \in BOOLEAN,
             AddPairing(d, a) \/ UpdatePairing(d, a)
      PROVE  block' = block
  BY <1>9 DEF AddPairing, UpdatePairing
<1>10. CASE CompactFull \/ Compact \/ CompactFails \/ CompactOutOfBounds
  BY <1>1, <1>10 DEF CompactFull, Compact, CompactFails, CompactOutOfBounds
<1>11. CASE WriteRecordFails \/ RetireFails \/ Crash
  BY <1>1, <1>11 DEF WriteRecordFails, RetireFails, Crash
<1>12. CASE UNCHANGED vars
  BY <1>1, <1>12 DEF vars
<1>13. ASSUME NEW d \in Device, RemoveFails(d) PROVE block' = block
  BY <1>13 DEF RemoveFails
<1> HIDE DEF flash
<1> QED
  BY <1>1, <1>2, <1>3, <1>4, <1>5, <1>6, <1>7, <1>8, <1>9, <1>10, <1>11, <1>12,
     <1>13 DEF Next

(* storage.c implements the pairing list: however operations fail, and     *)
(* wherever the chip resets, the table changes by one record appended, by  *)
(* the first record of one device dropped, or is cleared, and records are  *)
(* never reordered or changed in place.                                    *)
THEOREM TableImplementsList == Spec => ImplementsPairingList
<1>1. Init => TypeOK /\ Control /\ RecordsBeforeErased /\ Located /\ List!Init
  <2> SUFFICES ASSUME Init PROVE TypeOK /\ Control /\ RecordsBeforeErased /\ Located /\ List!Init
    OBVIOUS
  <2>1. TypeOK /\ Control
    BY InitTyped
  <2>2. block \in [Slot -> Block] /\ \A i \in Slot : ~Valid(block, i)
    BY <2>1 DEF TypeOK, Init, Valid, ErasedBlock
  <2>3. Records = <<>>
    BY <2>2, ListedNone DEF Records
  <2>4. RecordsBeforeErased /\ Located
    BY <2>2 DEF Init, RecordsBeforeErased, Filled, Located
  <2> QED
    BY <2>1, <2>3, <2>4 DEF List!Init
<1>2. TypeOK /\ Control /\ RecordsBeforeErased /\ Located /\ [Next]_vars
        => (TypeOK /\ Control /\ RecordsBeforeErased /\ Located)'
  BY NextTyped, FilledNext, LocatedNext
<1>3. TypeOK /\ Control /\ RecordsBeforeErased /\ Located /\ [Next]_vars => [List!Next]_Records
  BY ListStep
<1> QED
  BY <1>1, <1>2, <1>3, PTL DEF Spec, ImplementsPairingList, List!Spec
=============================================================================
