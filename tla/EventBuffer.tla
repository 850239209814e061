----------------------------- MODULE EventBuffer -----------------------------
(***************************************************************************)
(* What the event queues of the clients promise: each keeps the last Size  *)
(* events put in it, in order, until all of them are taken or its client   *)
(* is gone.                                                                *)
(***************************************************************************)
EXTENDS Integers, Sequences

CONSTANTS Conn, Event, Size

VARIABLE items      \* for each client, from the oldest to the newest

Init == items = [c \in Conn |-> <<>>]

With(list, e) == Append(IF Len(list) = Size THEN Tail(list) ELSE list, e)

\* The events of some clients are taken, all of each.
Take ==
  /\ DOMAIN items' = Conn
  /\ \A c \in Conn : items'[c] \in {items[c], <<>>}

\* One change is put in the queues of some, others may be emptied with it.
Put(e) ==
  /\ DOMAIN items' = Conn
  /\ \A c \in Conn :
       LET list == items[c]
       IN  items'[c] \in {<<>>, list, With(list, e)}

Next == Take \/ \E e \in Event : Put(e)

Spec == Init /\ [][Next]_items
=============================================================================
