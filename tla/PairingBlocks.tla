--------------------------- MODULE PairingBlocks ---------------------------
(***************************************************************************)
(* The pairing table of storage.c: MAX_PAIRINGS blocks of 80 bytes in the  *)
(* EEPROM sector.  A block is erased flash (all 0xff), zeroed (a record    *)
(* that was removed: flash bits can only be cleared) or a record, told     *)
(* apart by its magic.  A record keeps the controller's device id and its  *)
(* permission bit; its public key is not modelled.  A record whose         *)
(* programming was cut short by a reset has its magic but not its id.      *)
(***************************************************************************)
EXTENDS Integers

CONSTANTS
  Device,       \* the controllers' pairing identifiers
  NoDevice,     \* the id field of a block that holds no whole device id
  MaxPairings   \* MAX_PAIRINGS (16 in the code)

ASSUME MaxPairingsAssumption == MaxPairings \in Nat \ {0}
ASSUME NoDeviceAssumption == NoDevice \notin Device

Slot == 0 .. MaxPairings - 1

Block == [magic : {"erased", "zero", "HAP"},
          dev   : Device \cup {NoDevice},
          admin : BOOLEAN]

ErasedBlock == [magic |-> "erased", dev |-> NoDevice, admin |-> FALSE]
ZeroedBlock == [magic |-> "zero",   dev |-> NoDevice, admin |-> FALSE]
Record(d, a) == [magic |-> "HAP", dev |-> d, admin |-> a]

Valid(b, i) == b[i].magic = "HAP"

FirstOf(S, i) == i \in S /\ \A j \in S : i <= j

\* find_empty_block: the lowest block with every byte 0xff.
EmptyBlocks(b) == {i \in Slot : b[i].magic = "erased"}
\* A slip: any empty block will do.
AnyEmpty(b, i) == i \in EmptyBlocks(b)
FirstEmpty(b, i) == FirstOf(EmptyBlocks(b), i)

\* find_pairing: the lowest record with the given device id.
Holding(b, d) == {i \in Slot : Valid(b, i) /\ b[i].dev = d}
Found(b, d) == Holding(b, d) # {}
Index(b, d) == CHOOSE i \in Slot : FirstOf(Holding(b, d), i)

\* can_add_pairing: some block, erased or zeroed, holds no record.
CanAddPairing(b) == \E i \in Slot : ~Valid(b, i)

\* Records fill the table from its start.
Filled(b) == \A i, j \in Slot : Valid(b, i) /\ b[j].magic = "erased" => i < j

\* compact_data meets a record behind a block that holds none.
Hole(b) == \E i, j \in Slot : i < j /\ ~Valid(b, i) /\ Valid(b, j)

\* The scan of homekit_is_paired and of homekit_server_init.
HasAdmin(b) == \E i \in Slot : Valid(b, i) /\ b[i].admin

\* The permission under which a controller is found: what a caller sees.
Permission == {"none", "member", "admin"}
Perm(a) == IF a THEN "admin" ELSE "member"
View(b, d) == IF Found(b, d) THEN Perm(b[Index(b, d)].admin) ELSE "none"
=============================================================================
