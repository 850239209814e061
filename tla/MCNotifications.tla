--------------------------- MODULE MCNotifications ---------------------------
(* Notifications with a switch that clients write and a sensor that the    *)
(* sketch reports, always with the same value.                             *)
EXTENDS Notifications, TLC

CONSTANTS on, temp, off, lit, warm

Both      == {on, temp}
Readings  == on :> {off, lit} @@ temp :> {warm}
Events2   == UNION {[ch : {ch}, value : Readings[ch] \cup {Null}] : ch \in Both}
Notifying == on :> {"pr", "pw", "ev"} @@ temp :> {"pr", "ev"}

(* The queues overflow one at a time: what happens to one does not depend  *)
(* on the others, and the states with all of them full are half of all.    *)
SomeRoom == \E c \in Conn : ~IsFull(queue[c])

Symmetry == Permutations(Conn) \cup Permutations({off, lit})
=============================================================================
