------------------------------ MODULE EventRing ------------------------------
(***************************************************************************)
(* The queue of cQueue.c as client_context_new sets it up: a ring of Size  *)
(* cells, the last record in being the first out (LIFO), a record pushed   *)
(* to a full queue overwriting the oldest one (ovw).  "out" is for FIFO    *)
(* queues only.  A cell that is not in use is NoEvent, whatever bytes it   *)
(* still holds.                                                            *)
(***************************************************************************)
EXTENDS Integers, Sequences

CONSTANTS
  Event,     \* the records (characteristic_event_t)
  NoEvent,   \* no record
  Size       \* HOMEKIT_EVENT_QUEUE_SIZE (4 in the code)

ASSUME SizeAssumption == Size \in Nat \ {0}
ASSUME NoEventAssumption == NoEvent \notin Event

Cell  == 0 .. Size - 1
Queue == [queue : [Cell -> Event \cup {NoEvent}], in : Cell, cnt : 0 .. Size]

\* inc_idx and dec_idx between 0 and Size.
IncIdxUnwrapped(i) == i + 1     \* a slip: the index is not rolled back
IncIdx(i) == IF i < Size - 1 THEN i + 1 ELSE 0
DecIdx(i) == IF i > 0 THEN i - 1 ELSE Size - 1

NewQueue == [queue |-> [i \in Cell |-> NoEvent], in |-> 0, cnt |-> 0]

IsEmpty(q) == q.cnt = 0
IsFull(q)  == q.cnt = Size

\* A slip: nothing is overwritten.
PushedIfRoom(q, e) ==
  IF IsFull(q) THEN q
  ELSE [queue |-> [q.queue EXCEPT ![q.in] = e], in |-> IncIdx(q.in),
        cnt |-> q.cnt + 1]

\* A slip: a record that overwrites another does not move the index.
PushedInPlace(q, e) ==
  [queue |-> [q.queue EXCEPT ![q.in] = e],
   in    |-> IF IsFull(q) THEN q.in ELSE IncIdx(q.in),
   cnt   |-> IF IsFull(q) THEN q.cnt ELSE q.cnt + 1]

\* q_push.
Pushed(q, e) ==
  [queue |-> [q.queue EXCEPT ![q.in] = e],
   in    |-> IncIdx(q.in),
   cnt   |-> IF IsFull(q) THEN q.cnt ELSE q.cnt + 1]

\* q_pop: the record, and the queue without it.
Top(q) == q.queue[DecIdx(q.in)]

Popped(q) == [queue |-> [q.queue EXCEPT ![DecIdx(q.in)] = NoEvent],
              in    |-> DecIdx(q.in),
              cnt   |-> q.cnt - 1]

\* The records in the order they were pushed.
Rolled(i) == IF i < 0 THEN i + Size ELSE i
Contents(q) ==
  [k \in 1 .. q.cnt |-> q.queue[Rolled(q.in - q.cnt + k - 1)]]
=============================================================================
