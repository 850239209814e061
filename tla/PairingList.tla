---------------------------- MODULE PairingList ----------------------------
(***************************************************************************)
(* What storage.c promises of its table, blocks and flash left out: a list *)
(* of pairings in the order in which they were recorded, to which one is   *)
(* appended, from which the first one of a device is dropped, or which is  *)
(* cleared as a whole.  No operation, failure or reset of the chip loses   *)
(* some of the pairings and keeps others, changes a pairing in place or    *)
(* reorders them.  A pairing whose recording was cut short has NoDevice    *)
(* for its device.                                                         *)
(***************************************************************************)
EXTENDS Sequences, Integers

CONSTANTS Device, NoDevice

VARIABLE list

Pairing == [dev : Device \cup {NoDevice}, admin : BOOLEAN]

Init == list = <<>>

Record(p) == list' = Append(list, p)

Drop(d) ==
  \E i \in 1 .. Len(list) :
    /\ list[i].dev = d
    /\ \A j \in 1 .. (i - 1) : list[j].dev # d
    /\ list' = SubSeq(list, 1, i - 1) \o SubSeq(list, i + 1, Len(list))

Clear == list' = <<>>

Next == \/ \E p \in Pairing : Record(p)
        \/ \E d \in Device : Drop(d)
        \/ Clear

Spec == Init /\ [][Next]_list
=============================================================================
