---------------------------- MODULE PairingStore ----------------------------
(***************************************************************************)
(* storage.c as the sequence of its flash operations.  One action is one   *)
(* call of spiflash_erase_sector or spiflash_write, with the decisions the *)
(* code takes between it and the next one, so that a reset of the chip     *)
(* (Crash, or TornWrite in the middle of a record) can fall between any    *)
(* two of them, and each operation may fail and return an error            *)
(* (the ...Fails actions); the reads of one block in the scans of the      *)
(* table, whose result the code does not test, are taken to succeed.       *)
(*                                                                         *)
(* The start-up part of homekit_server_init that loads or creates the      *)
(* accessory's id and key runs on the same sector and is modelled here.    *)
(*                                                                         *)
(* fn is the public function being executed, pc the next flash operation:  *)
(*   "boot"   storage_init and the two loads have not run                  *)
(*   "blank"  homekit_storage_reset, about to overwrite the magic          *)
(*   "erase"  about to erase the sector     "magic" about to write "HAP"   *)
(*   "id","key"  about to save the accessory id, the accessory key         *)
(*   "compact"   compact_data has been called                              *)
(*   "place"     about to write the record in the first empty block        *)
(*   "retire"    update_pairing, about to zero the old record              *)
(*   "idle"      no storage function is running                            *)
(***************************************************************************)
EXTENDS PairingBlocks, Sequences

CONSTANTS
  MaxCrashes,   \* bound: resets of the chip in a behaviour
  MaxFaults     \* bound: failing flash operations in a behaviour

ASSUME BoundsAssumption == MaxCrashes \in Nat /\ MaxFaults \in Nat

VARIABLES
  magic,        \* the sector's magic: "erased", "blank" or "HAP"
  hasId,        \* a well-formed accessory id is in the sector
  hasKey,       \* the accessory key is in the sector
  block,        \* [Slot -> Block]: the pairing table
  fn, pc,       \* the function being executed, its next flash operation
  dev, admin,   \* its arguments
  at,           \* update_pairing: index i of the record it found
  promised,     \* history: the permissions a caller may expect of a device
  clean,        \* history: none of the events listed at Clean has happened
  crashes, faults

flash == <<magic, hasId, hasKey, block>>
call  == <<fn, pc, dev, admin, at>>
ghost == <<promised, clean>>
vars  == <<flash, call, ghost, crashes, faults>>

Functions == {"none", "init", "bootreset", "reset", "add", "update"}
Steps == {"boot", "blank", "erase", "magic", "id", "key", "compact", "place",
          "retire", "idle"}

TypeOK ==
  /\ magic \in {"erased", "blank", "HAP"}
  /\ hasId \in BOOLEAN /\ hasKey \in BOOLEAN
  /\ block \in [Slot -> Block]
  /\ fn \in Functions /\ pc \in Steps
  /\ dev \in Device \cup {NoDevice} /\ admin \in BOOLEAN
  /\ at \in Slot
  /\ promised \in [Device -> SUBSET Permission]
  /\ clean \in BOOLEAN
  /\ crashes \in 0 .. MaxCrashes /\ faults \in 0 .. MaxFaults

\* A chip whose sector was never formatted.
Init ==
  /\ magic = "erased" /\ hasId = FALSE /\ hasKey = FALSE
  /\ block = [i \in Slot |-> ErasedBlock]
  /\ fn = "init" /\ pc = "boot" /\ dev = NoDevice
  /\ admin = FALSE /\ at = 0
  /\ promised = [d \in Device |-> {"none"}] /\ clean = TRUE
  /\ crashes = 0 /\ faults = 0

-----------------------------------------------------------------------------
(* Control: what follows a flash operation.                                *)

Goto(f, p) == fn' = f /\ pc' = p /\ UNCHANGED <<dev, admin, at>>

Return == fn' = "none" /\ pc' = "idle" /\ dev' = NoDevice /\ admin' = FALSE
          /\ at' = 0

Fault == faults < MaxFaults /\ faults' = faults + 1

(* What runs after homekit_storage_reset (or homekit_storage_init) has     *)
(* formatted the sector or has failed.  At boot a failed init is followed  *)
(* by a reset, and the id is generated whatever the reset returned.        *)
(* homekit_storage_init returns 1 when it has formatted and -1 when it has *)
(* failed: compact_data takes both for an error of the reset, so it never  *)
(* writes the compacted copy back, and its caller looks for an empty block *)
(* either way.                                                             *)
AfterFormat(ok) ==
  CASE fn = "init"             -> IF ok THEN Goto("init", "id")
                                        ELSE Goto("bootreset", "blank")
    [] fn = "bootreset"        -> Goto("bootreset", "id")
    [] fn = "reset"            -> Return
    [] fn \in {"add", "update"} -> Goto(fn, "place")

PromiseAfterFormat(ok) ==
  promised' = IF fn = "reset" /\ ok THEN [d \in Device |-> {"none"}]
                                    ELSE promised

-----------------------------------------------------------------------------
(* homekit_server_init: homekit_storage_init, then the two loads.          *)

\* The magic is missing: format.
BootFormat ==
  /\ pc = "boot" /\ magic # "HAP"
  /\ Goto("init", "erase")
  /\ UNCHANGED <<flash, ghost, crashes, faults>>

\* Id and key are there.  An erased key area may pass crypto_ed25519_import_key.
BootLoad ==
  /\ pc = "boot" /\ magic = "HAP" /\ hasId
  /\ Return
  /\ UNCHANGED <<flash, ghost, crashes, faults>>

\* The id or the key cannot be loaded: reset the storage.
BootReset ==
  /\ pc = "boot" /\ magic = "HAP" /\ ~(hasId /\ hasKey)
  /\ Goto("bootreset", "blank")
  /\ UNCHANGED <<flash, ghost, crashes, faults>>

\* The magic cannot be read, and is taken for a missing one, or the id or
\* the key cannot: the fifth event Clean excludes.
BootReadFails ==
  /\ pc = "boot" /\ Fault
  /\ \/ Goto("init", "erase")
     \/ magic = "HAP" /\ Goto("bootreset", "blank")
  /\ clean' = FALSE
  /\ UNCHANGED <<flash, promised, crashes>>

\* Over an id that a failed reset left there the bits of both are cleared.
SaveId ==
  /\ pc = "id"
  /\ hasId' \in IF hasId THEN BOOLEAN ELSE {TRUE}
  /\ Goto(fn, "key")
  /\ UNCHANGED <<magic, hasKey, block, ghost, crashes, faults>>

SaveKey ==
  /\ pc = "key"
  /\ hasKey' \in IF hasKey THEN BOOLEAN ELSE {TRUE}
  /\ Return
  /\ UNCHANGED <<magic, hasId, block, ghost, crashes, faults>>

\* The two save functions log a failing write and return nothing.
SaveFails ==
  /\ Fault
  /\ \/ pc = "id" /\ Goto(fn, "key")
     \/ pc = "key" /\ Return
  /\ UNCHANGED <<flash, ghost, crashes>>

-----------------------------------------------------------------------------
(* homekit_storage_reset and homekit_storage_init.                         *)

\* homekit_storage_reset called by the sketch or by homekit_server_reset.
Reset ==
  /\ pc = "idle"
  /\ Goto("reset", "blank")
  /\ promised' = [d \in Device |-> promised[d] \cup {"none"}]
  /\ UNCHANGED <<flash, clean, crashes, faults>>

\* A compaction gets here too; it is the first event Clean excludes.
WriteBlank ==
  /\ pc = "blank"
  /\ magic' = "blank"
  /\ Goto(fn, "erase")
  /\ clean' = (clean /\ fn \notin {"add", "update"})
  /\ UNCHANGED <<hasId, hasKey, block, promised, crashes, faults>>

EraseSector ==
  /\ pc = "erase"
  /\ magic' = "erased" /\ hasId' = FALSE /\ hasKey' = FALSE
  /\ block' = [i \in Slot |-> ErasedBlock]
  /\ Goto(fn, "magic")
  /\ UNCHANGED <<ghost, crashes, faults>>

WriteMagic ==
  /\ pc = "magic"
  /\ magic' = "HAP"
  /\ AfterFormat(TRUE) /\ PromiseAfterFormat(TRUE)
  /\ UNCHANGED <<hasId, hasKey, block, clean, crashes, faults>>

FormatFails ==
  /\ Fault
  /\ pc \in {"blank", "erase", "magic"}
  /\ AfterFormat(FALSE) /\ PromiseAfterFormat(FALSE)
  /\ UNCHANGED <<flash, clean, crashes>>

-----------------------------------------------------------------------------
(* homekit_storage_add_pairing and homekit_storage_update_pairing.         *)

MayBecome(d, p) == promised' = [promised EXCEPT ![d] = @ \cup {p}]
Becomes(d, p)   == promised' = [promised EXCEPT ![d] = {p}]

Search == IF EmptyBlocks(block) # {} THEN "place" ELSE "compact"

(* The pair-setup handler adds a controller without looking for it first,  *)
(* the pairings handler only when it is not found.  A second record for a  *)
(* device is the second event Clean excludes.                              *)
AddPairing(d, a) ==
  /\ pc = "idle"
  /\ fn' = "add" /\ dev' = d /\ admin' = a /\ at' = 0
  /\ pc' = Search
  /\ MayBecome(d, Perm(a))
  /\ clean' = (clean /\ ~Found(block, d))
  /\ UNCHANGED <<flash, crashes, faults>>

\* A slip: the index is one too high.
UpdatePairingPastRecord(d, a) ==
  /\ pc = "idle" /\ Found(block, d)
  /\ fn' = "update" /\ dev' = d /\ admin' = a /\ at' = Index(block, d) + 1
  /\ pc' = Search
  /\ MayBecome(d, Perm(a))
  /\ UNCHANGED <<flash, clean, crashes, faults>>

\* The record is copied to RAM with its new permissions before the search.
UpdatePairing(d, a) ==
  /\ pc = "idle" /\ Found(block, d)
  /\ fn' = "update" /\ dev' = d /\ admin' = a /\ at' = Index(block, d)
  /\ pc' = Search
  /\ MayBecome(d, Perm(a))
  /\ UNCHANGED <<flash, clean, crashes, faults>>

\* Every block holds a record: compact_data returns 0 without erasing, the
\* second search fails too and the caller gets -2.
CompactFull ==
  /\ pc = "compact" /\ \A i \in Slot : Valid(block, i)
  /\ Return
  /\ UNCHANGED <<flash, ghost, crashes, faults>>

\* The sector is in RAM, compacted; homekit_storage_reset is called.
Compact ==
  /\ pc = "compact" /\ CanAddPairing(block)
  /\ Goto(fn, "blank")
  /\ UNCHANGED <<flash, ghost, crashes, faults>>

\* The sector cannot be read into RAM; the search is repeated all the same.
CompactFails ==
  /\ pc = "compact" /\ Fault
  /\ Goto(fn, "place")
  /\ UNCHANGED <<flash, ghost, crashes>>

\* The copy of a record over a hole is addressed with PAIRINGS_ADDR, the
\* address in flash, and falls outside the buffer: the chip may reset.
CompactOutOfBounds ==
  /\ pc = "compact" /\ Hole(block)
  /\ crashes < MaxCrashes /\ crashes' = crashes + 1
  /\ fn' = "init" /\ pc' = "boot" /\ dev' = NoDevice /\ admin' = FALSE /\ at' = 0
  /\ UNCHANGED <<flash, ghost, faults>>

\* A slip: an update copies the record before it sets the permissions.
WriteRecordAsItWas ==
  /\ pc = "place"
  /\ \E i \in Slot :
       /\ FirstEmpty(block, i)
       /\ block' = [block EXCEPT ![i] =
                      Record(dev, IF fn = "add" THEN admin ELSE block[at].admin)]
  /\ clean' = (clean /\ magic = "HAP" /\ hasId /\ hasKey)
  /\ IF fn = "add" THEN Becomes(dev, Perm(admin)) /\ Return
                   ELSE Goto(fn, "retire") /\ UNCHANGED promised
  /\ UNCHANGED <<magic, hasId, hasKey, crashes, faults>>

\* A record written while the sector has no magic or no id is the third
\* event: the next boot formats the sector.
WriteRecord ==
  /\ pc = "place"
  /\ \E i \in Slot :
       /\ FirstEmpty(block, i)
       /\ block' = [block EXCEPT ![i] = Record(dev, admin)]
  /\ clean' = (clean /\ magic = "HAP" /\ hasId /\ hasKey)
  /\ IF fn = "add" THEN Becomes(dev, Perm(admin)) /\ Return
                   ELSE Goto(fn, "retire") /\ UNCHANGED promised
  /\ UNCHANGED <<magic, hasId, hasKey, crashes, faults>>

\* No empty block after a failed compaction (-2), or the write failed (-1).
WriteRecordFails ==
  /\ pc = "place"
  /\ \/ EmptyBlocks(block) = {} /\ UNCHANGED faults
     \/ EmptyBlocks(block) # {} /\ Fault
  /\ Return
  /\ UNCHANGED <<flash, ghost, crashes>>

\* A slip: the old record is left to the next compaction.
RetireRecordLater ==
  /\ pc = "retire"
  /\ Becomes(dev, Perm(admin))
  /\ Return
  /\ UNCHANGED <<magic, hasId, hasKey, block, clean, crashes, faults>>

\* block[at] is not searched again: it may have moved in a compaction.
RetireRecord ==
  /\ pc = "retire"
  /\ block' = [block EXCEPT ![at] = ZeroedBlock]
  /\ Becomes(dev, Perm(admin))
  /\ Return
  /\ UNCHANGED <<magic, hasId, hasKey, clean, crashes, faults>>

\* The old record stays, beside the new one: the fourth event.
RetireFails ==
  /\ pc = "retire" /\ Fault
  /\ Return
  /\ clean' = FALSE
  /\ UNCHANGED <<flash, promised, crashes>>

-----------------------------------------------------------------------------
(* homekit_storage_remove_pairing: one write, on the first record found.   *)

\* A slip: the block is given back as an erased one.
RemovePairingErased(d) ==
  /\ pc = "idle"
  /\ block' = IF Found(block, d)
                THEN [block EXCEPT ![Index(block, d)] = ErasedBlock]
                ELSE block
  /\ Becomes(d, "none")
  /\ UNCHANGED <<magic, hasId, hasKey, call, clean, crashes, faults>>

RemovePairing(d) ==
  /\ pc = "idle"
  /\ block' = IF Found(block, d)
                THEN [block EXCEPT ![Index(block, d)] = ZeroedBlock]
                ELSE block
  /\ Becomes(d, "none")
  /\ UNCHANGED <<magic, hasId, hasKey, call, clean, crashes, faults>>

RemoveFails(d) ==
  /\ pc = "idle" /\ Found(block, d) /\ Fault
  /\ UNCHANGED <<flash, call, ghost, crashes>>

-----------------------------------------------------------------------------
(* The chip resets: watchdog, power, exception.                            *)

Restart ==
  /\ pc # "boot" /\ crashes < MaxCrashes /\ crashes' = crashes + 1
  /\ fn' = "init" /\ pc' = "boot" /\ dev' = NoDevice /\ admin' = FALSE /\ at' = 0
  /\ UNCHANGED faults

\* A reset between the two writes of an update is the fourth event too.
Crash ==
  /\ Restart
  /\ clean' = (clean /\ pc # "retire")
  /\ UNCHANGED <<flash, promised>>

\* The magic of the record is programmed, its id is not; the permissions
\* byte may still read 0xff.
TornWrite ==
  /\ Restart
  /\ pc = "place"
  /\ \E i \in Slot, a \in {admin, TRUE} :
       /\ FirstEmpty(block, i)
       /\ block' = [block EXCEPT ![i] = Record(NoDevice, a)]
  /\ UNCHANGED <<magic, hasId, hasKey, ghost>>

Next ==
  \/ BootFormat \/ BootLoad \/ BootReset \/ BootReadFails
  \/ SaveId \/ SaveKey \/ SaveFails
  \/ Reset \/ WriteBlank \/ EraseSector \/ WriteMagic \/ FormatFails
  \/ \E d \in Device, a \in BOOLEAN : AddPairing(d, a) \/ UpdatePairing(d, a)
  \/ CompactFull \/ Compact \/ CompactFails \/ CompactOutOfBounds
  \/ WriteRecord \/ WriteRecordFails \/ RetireRecord \/ RetireFails
  \/ \E d \in Device : RemovePairing(d) \/ RemoveFails(d)
  \/ Crash \/ TornWrite

Spec == Init /\ [][Next]_vars

-----------------------------------------------------------------------------
(* Properties.                                                             *)

(* Records fill the table from its start: no record lies behind an erased  *)
(* block, whatever was removed, retired, compacted or cut short.           *)
(* update_pairing depends on it: it writes the new record before it zeroes *)
(* the old one, and find_pairing returns the lower of the two.             *)
RecordsBeforeErased == Filled(block)

(* Clean: since the sector was formatted there has been no compaction, no  *)
(* second record for a known device, no record written into a sector       *)
(* without magic, id or key, no update stopped between its two writes, and *)
(* no failing read at boot.                                                *)
(* Then, at every point of every operation, a lookup returns what the      *)
(* completed operations promised, or what the one in progress will: these  *)
(* five events are the only ways in which storage.c loses or corrupts a    *)
(* pairing, wherever another flash operation fails or the chip resets.     *)
Faithful == clean => \A d \in Device : View(block, d) \in promised[d]

(* Under the same condition a device has one record, except between the    *)
(* two writes of update_pairing, so that removing one removes the pairing. *)
UniqueRecords ==
  clean => \A d \in Device : \A i, j \in Holding(block, d) :
             i = j \/ (pc = "retire" /\ d = dev /\ at \in {i, j})

\* The records of the table's first n blocks, as PairingList keeps them, and
\* of all of it.
Listed(b) ==
  LET kept[n \in 0 .. MaxPairings] ==
        IF n = 0 THEN <<>>
        ELSE IF Valid(b, n - 1)
          THEN Append(kept[n - 1], [dev |-> b[n - 1].dev, admin |-> b[n - 1].admin])
        ELSE kept[n - 1]
  IN  kept
Records == Listed(block)[MaxPairings]

List == INSTANCE PairingList WITH list <- Records

(* storage.c implements the pairing list: every flash operation, failure   *)
(* and reset appends one record, drops the first record of one device,     *)
(* clears the table or leaves it as it is.                                 *)
ImplementsPairingList == List!Spec

(* When an add or an update returns, the pairings that were promised to    *)
(* the other devices are still found, as the compaction that makes room    *)
(* for it means them to be: it gives up when it finds every block in use   *)
(* ("no compaction possible, do not waste flash erase cycle") and counts   *)
(* it an error when it cannot write the records back ("error writing       *)
(* compacted data").                                                       *)
OthersKept ==
  [][(fn \in {"add", "update"} /\ fn' = "none") =>
       \A d \in Device \ {dev} :
         "none" \notin promised[d] => Found(block', d)]_vars
=============================================================================
