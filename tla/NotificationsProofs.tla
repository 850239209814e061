------------------------- MODULE NotificationsProofs -------------------------
(***************************************************************************)
(* Proofs about Notifications, for every number of clients, every size of  *)
(* the queues, and all characteristics, values and permissions.            *)
(***************************************************************************)
EXTENDS Notifications, Induction, SequenceTheorems

-----------------------------------------------------------------------------
(* The ring of the event queue, for every size: wherever its index stands, *)
(* a push keeps the newest records and a pop takes the newest one.         *)

\* The records in use are events.
Filled(q) == \A k \in 1 .. q.cnt : Contents(q)[k] \in Event

LEMMA RolledInCell ==
  ASSUME NEW q \in Queue, NEW k \in 1 .. q.cnt
  PROVE  Rolled(q.in - q.cnt + k - 1) \in Cell
BY SizeAssumption DEF Queue, Cell, Rolled

LEMMA NewQueueIsEmpty ==
  NewQueue \in Queue /\ Filled(NewQueue) /\ Contents(NewQueue) = <<>>
<1>1. NewQueue \in Queue /\ NewQueue.cnt = 0
  BY SizeAssumption DEF NewQueue, Queue, Cell
<1> QED
  BY <1>1 DEF Filled, Contents

LEMMA ContentsLength ==
  ASSUME NEW q \in Queue
  PROVE  DOMAIN Contents(q) = 1 .. q.cnt /\ q.cnt \in 0 .. Size
BY DEF Contents, Queue

LEMMA PushedTyped ==
  ASSUME NEW q \in Queue, NEW e \in Event
  PROVE  /\ Pushed(q, e) \in Queue
         /\ Pushed(q, e).cnt = IF IsFull(q) THEN q.cnt ELSE q.cnt + 1
<1>1. IncIdx(q.in) \in Cell
  BY SizeAssumption DEF IncIdx, Queue, Cell
<1>2. [q.queue EXCEPT ![q.in] = e] \in [Cell -> Event \cup {NoEvent}]
  BY DEF Queue
<1>3. (IF IsFull(q) THEN q.cnt ELSE q.cnt + 1) \in 0 .. Size
  BY SizeAssumption DEF IsFull, Queue
<1> QED
  BY <1>1, <1>2, <1>3 DEF Pushed, Queue

\* What a push leaves: the record last, and of those before it the newest.
LEMMA PushedContents ==
  ASSUME NEW q \in Queue, NEW e \in Event, NEW k \in 1 .. Pushed(q, e).cnt
  PROVE  Contents(Pushed(q, e))[k]
           = IF k = Pushed(q, e).cnt THEN e
             ELSE Contents(q)[IF IsFull(q) THEN k + 1 ELSE k]
<1> DEFINE p == Pushed(q, e)
<1>1. p \in Queue /\ p.cnt = IF IsFull(q) THEN q.cnt ELSE q.cnt + 1
  BY PushedTyped
<1>2. p.in = IncIdx(q.in) /\ p.queue = [q.queue EXCEPT ![q.in] = e]
  BY DEF Pushed
<1>3. q.in \in 0 .. Size - 1 /\ q.cnt \in 0 .. Size /\ k \in Int
  BY DEF Queue, Cell
<1>4. Contents(p)[k] = p.queue[Rolled(p.in - p.cnt + k - 1)]
  BY DEF Contents
<1>5. CASE k = p.cnt
  <2>1. Rolled(p.in - p.cnt + k - 1) = q.in
    BY <1>1, <1>2, <1>3, <1>5, SizeAssumption DEF Rolled, IncIdx
  <2> QED
    BY <1>2, <1>4, <1>5, <2>1 DEF Queue
<1>6. CASE k # p.cnt
  <2> DEFINE j == IF IsFull(q) THEN k + 1 ELSE k
  <2>1. j \in 1 .. q.cnt
    BY <1>1, <1>3, <1>6, SizeAssumption DEF IsFull
  <2>2. /\ Rolled(p.in - p.cnt + k - 1) = Rolled(q.in - q.cnt + j - 1)
        /\ Rolled(p.in - p.cnt + k - 1) # q.in
    BY <1>1, <1>2, <1>3, <1>6, SizeAssumption DEF Rolled, IncIdx, IsFull
  <2>3. Contents(q)[j] = q.queue[Rolled(q.in - q.cnt + j - 1)]
    BY <2>1 DEF Contents
  <2>4. p.queue[Rolled(q.in - q.cnt + j - 1)] = q.queue[Rolled(q.in - q.cnt + j - 1)]
    BY <1>2, <2>1, <2>2, RolledInCell DEF Queue
  <2> QED
    BY <1>4, <1>6, <2>2, <2>3, <2>4
<1> QED
  BY <1>5, <1>6

LEMMA PushedFilled ==
  ASSUME NEW q \in Queue, Filled(q), NEW e \in Event
  PROVE  Filled(Pushed(q, e))
<1> SUFFICES ASSUME NEW k \in 1 .. Pushed(q, e).cnt
             PROVE  Contents(Pushed(q, e))[k] \in Event
  BY DEF Filled
<1>1. CASE k = Pushed(q, e).cnt
  BY <1>1, PushedContents
<1>2. CASE k # Pushed(q, e).cnt
  <2>1. (IF IsFull(q) THEN k + 1 ELSE k) \in 1 .. q.cnt
    BY <1>2, PushedTyped, ContentsLength DEF IsFull
  <2> QED
    BY <1>2, <2>1, PushedContents DEF Filled
<1> QED
  BY <1>1, <1>2

LEMMA PoppedTyped ==
  ASSUME NEW q \in Queue, q.cnt > 0
  PROVE  Popped(q) \in Queue /\ Popped(q).cnt = q.cnt - 1
<1>1. DecIdx(q.in) \in Cell
  BY SizeAssumption DEF DecIdx, Queue, Cell
<1>2. [q.queue EXCEPT ![DecIdx(q.in)] = NoEvent] \in [Cell -> Event \cup {NoEvent}]
  BY DEF Queue
<1>3. q.cnt - 1 \in 0 .. Size
  BY SizeAssumption DEF Queue
<1> QED
  BY <1>1, <1>2, <1>3 DEF Popped, Queue

\* A pop takes the newest record and leaves the others as they were.
LEMMA PoppedContents ==
  ASSUME NEW q \in Queue, q.cnt > 0
  PROVE  /\ Top(q) = Contents(q)[q.cnt]
         /\ \A k \in 1 .. q.cnt - 1 : Contents(Popped(q))[k] = Contents(q)[k]
<1>1. q.in \in 0 .. Size - 1 /\ q.cnt \in 1 .. Size
  BY DEF Queue, Cell
<1>2. Rolled(q.in - q.cnt + q.cnt - 1) = DecIdx(q.in)
  BY <1>1, SizeAssumption DEF Rolled, DecIdx
<1>3. Top(q) = Contents(q)[q.cnt]
  BY <1>1, <1>2 DEF Top, Contents
<1>4. ASSUME NEW k \in 1 .. q.cnt - 1
      PROVE  Contents(Popped(q))[k] = Contents(q)[k]
  <2> DEFINE p == Popped(q)
  <2>1. p.in = DecIdx(q.in) /\ p.cnt = q.cnt - 1
        /\ p.queue = [q.queue EXCEPT ![DecIdx(q.in)] = NoEvent]
    BY DEF Popped
  <2>2. /\ Rolled(p.in - p.cnt + k - 1) = Rolled(q.in - q.cnt + k - 1)
        /\ Rolled(q.in - q.cnt + k - 1) # DecIdx(q.in)
    BY <1>1, <2>1, SizeAssumption DEF Rolled, DecIdx
  <2>3. Contents(p)[k] = p.queue[Rolled(q.in - q.cnt + k - 1)]
    BY <2>1, <2>2 DEF Contents
  <2>4. Contents(q)[k] = q.queue[Rolled(q.in - q.cnt + k - 1)]
    BY <1>1 DEF Contents
  <2>5. Rolled(q.in - q.cnt + k - 1) \in Cell
    BY <1>1, RolledInCell
  <2> QED
    BY <2>1, <2>2, <2>3, <2>4, <2>5 DEF Queue
<1> QED
  BY <1>3, <1>4

-----------------------------------------------------------------------------
(* The lists of callbacks.                                                 *)

LEMMA ListElements ==
  ASSUME NEW S, NEW list \in Seq(S)
  PROVE  /\ Len(list) \in Nat /\ DOMAIN list = 1 .. Len(list)
         /\ \A i \in 1 .. Len(list) : list[i] \in S
         /\ \A x : x \in ToSet(list) <=> \E i \in 1 .. Len(list) : list[i] = x
BY DEF ToSet

\* An element appended.
LEMMA Appended ==
  ASSUME NEW S, NEW list \in Seq(S), NEW x \in S
  PROVE  /\ Append(list, x) \in Seq(S)
         /\ Len(Append(list, x)) = Len(list) + 1
         /\ \A i \in 1 .. Len(list) : Append(list, x)[i] = list[i]
         /\ Append(list, x)[Len(list) + 1] = x
         /\ ToSet(Append(list, x)) = ToSet(list) \cup {x}
         /\ IsInjective(list) /\ x \notin ToSet(list) => IsInjective(Append(list, x))
<1> DEFINE a == Append(list, x)
<1>1. /\ a \in Seq(S) /\ Len(a) = Len(list) + 1 /\ Len(list) \in Nat
      /\ \A i \in 1 .. Len(list) : a[i] = list[i]
      /\ a[Len(list) + 1] = x
      /\ DOMAIN a = 1 .. Len(list) + 1 /\ DOMAIN list = 1 .. Len(list)
  OBVIOUS
<1>2. \A i \in 1 .. Len(list) + 1 : i \in 1 .. Len(list) \/ i = Len(list) + 1
  BY <1>1
<1> HIDE DEF a
<1>3. ToSet(a) = ToSet(list) \cup {x}
  <2>1. ASSUME NEW y \in ToSet(a) PROVE y \in ToSet(list) \cup {x}
    BY <1>1, <1>2 DEF ToSet
  <2>2. ASSUME NEW y \in ToSet(list) PROVE y \in ToSet(a)
    <3>1. PICK i \in 1 .. Len(list) : y = list[i]
      BY <1>1 DEF ToSet
    <3>2. i \in 1 .. Len(list) + 1 /\ y = a[i]
      BY <1>1, <3>1
    <3> QED
      BY <1>1, <3>2 DEF ToSet
  <2>3. x \in ToSet(a)
    <3>1. Len(list) + 1 \in 1 .. Len(list) + 1
      BY <1>1
    <3> QED
      BY <1>1, <3>1 DEF ToSet
  <2> QED
    BY <2>1, <2>2, <2>3
<1>4. ASSUME IsInjective(list), x \notin ToSet(list)
      PROVE  IsInjective(a)
  <2> SUFFICES ASSUME NEW i \in 1 .. Len(list) + 1, NEW j \in 1 .. Len(list) + 1,
                      a[i] = a[j]
               PROVE  i = j
    BY <1>1 DEF IsInjective
  <2>1. \A k \in 1 .. Len(list) : list[k] # x
    BY <1>1, <1>4 DEF ToSet
  <2> QED
    BY <1>1, <1>2, <1>4, <2>1 DEF IsInjective
<1> QED
  BY <1>1, <1>3, <1>4 DEF a

\* What is left of a list: the clients that stay, in it as often as before.
LEMMA WithoutKeeps ==
  ASSUME NEW list \in Seq(Conn), NEW gone
  PROVE  /\ Without(list, gone) \in Seq(Conn)
         /\ ToSet(Without(list, gone)) = ToSet(list) \ gone
         /\ IsInjective(list) => IsInjective(Without(list, gone))
<1> DEFINE
    n == Len(list)
    Kept1(i, x) == IF list[i] \in gone THEN x ELSE Append(x, list[i])
    step == [i \in 1 .. n |-> [x \in Seq(Conn) |-> Kept1(i, x)]]
<1>1. n \in Nat /\ \A i \in 1 .. n : list[i] \in Conn
  OBVIOUS
<1>2. IsStep(step, n, Seq(Conn))
  BY <1>1, Appended DEF IsStep
<1>3. <<>> \in Seq(Conn)
  OBVIOUS
<1>4. PICK f : f \in [0 .. n -> Seq(Conn)] /\ Follows(f, n, <<>>, step)
  <2> HIDE DEF step, n
  <2> QED
    BY <1>1, <1>2, <1>3, RecursionUpTo
<1>5. ASSUME NEW i \in 1 .. n PROVE f[i] = Kept1(i, f[i - 1])
  <2>1. f[i - 1] \in Seq(Conn)
    BY <1>1, <1>4
  <2> QED
    BY <1>4, <2>1 DEF Follows
<1> DEFINE Kept(g) == g = [i \in 0 .. Len(list) |->
                              IF i = 0 THEN <<>>
                              ELSE IF list[i] \in gone THEN g[i - 1]
                              ELSE Append(g[i - 1], list[i])]
           kept == CHOOSE g : Kept(g)
<1>6. Kept(f)
  <2>1. \A i \in 0 .. n : i = 0 \/ i \in 1 .. n
    BY <1>1
  <2>2. \A i \in 0 .. n : f[i] = IF i = 0 THEN <<>>
                                 ELSE IF list[i] \in gone THEN f[i - 1]
                                 ELSE Append(f[i - 1], list[i])
    BY <1>4, <1>5, <2>1 DEF Follows
  <2> QED
    BY <1>4, <2>2
<1>7. Kept(kept)
  <2> HIDE DEF Kept
  <2> QED
    BY <1>6
<1>8. Without(list, gone) = kept[n]
  BY DEF Without
<1> HIDE DEF kept
<1>9. /\ kept[0] = <<>>
      /\ \A i \in 1 .. n : kept[i] = Kept1(i, kept[i - 1])
  <2>1. \A i \in 0 .. n : kept[i] = IF i = 0 THEN <<>>
                                    ELSE IF list[i] \in gone THEN kept[i - 1]
                                    ELSE Append(kept[i - 1], list[i])
    BY <1>7, Zenon
  <2>2. 0 \in 0 .. n /\ \A i \in 1 .. n : i \in 0 .. n /\ i # 0
    BY <1>1
  <2> QED
    BY <2>1, <2>2
<1> HIDE DEF Kept, step
<1> DEFINE
    Firsts(i) == {list[j] : j \in 1 .. i}
    Keeps(i) == /\ kept[i] \in Seq(Conn)
                /\ ToSet(kept[i]) = Firsts(i) \ gone
                /\ IsInjective(list) => IsInjective(kept[i])
<1>10. Keeps(0)
  <2>1. Firsts(0) = {} /\ ToSet(<<>>) = {} /\ IsInjective(<<>>)
    BY DEF ToSet, IsInjective
  <2> QED
    BY <1>3, <1>9, <2>1
<1>11. ASSUME NEW i \in 0 .. n - 1, Keeps(i) PROVE Keeps(i + 1)
  <2>1. i + 1 \in 1 .. n /\ i + 1 - 1 = i
    BY <1>1
  <2>2. Firsts(i + 1) = Firsts(i) \cup {list[i + 1]}
    <3>1. \A j \in 1 .. i + 1 : j \in 1 .. i \/ j = i + 1
      BY <2>1
    <3> QED
      BY <2>1, <3>1
  <2>3. IsInjective(list) => list[i + 1] \notin Firsts(i)
    BY <2>1 DEF IsInjective
  <2>4. kept[i + 1] = Kept1(i + 1, kept[i])
    BY <1>9, <2>1
  <2>5. /\ kept[i] \in Seq(Conn) /\ ToSet(kept[i]) = Firsts(i) \ gone
        /\ IsInjective(list) => IsInjective(kept[i])
    BY <1>11
  <2> HIDE DEF Firsts
  <2>6. CASE list[i + 1] \in gone
    BY <2>2, <2>4, <2>5, <2>6
  <2>7. CASE list[i + 1] \notin gone
    <3>1. kept[i + 1] = Append(kept[i], list[i + 1]) /\ list[i + 1] \in Conn
      BY <1>1, <2>1, <2>4, <2>7
    <3>2. /\ kept[i + 1] \in Seq(Conn)
          /\ ToSet(kept[i + 1]) = ToSet(kept[i]) \cup {list[i + 1]}
          /\ IsInjective(kept[i]) /\ list[i + 1] \notin ToSet(kept[i])
               => IsInjective(kept[i + 1])
      BY <2>5, <3>1, Appended
    <3>3. IsInjective(list) => IsInjective(kept[i + 1])
      BY <2>3, <2>5, <3>2
    <3> QED
      BY <2>2, <2>5, <2>7, <3>2, <3>3
  <2> QED
    BY <2>6, <2>7
<1>12. Keeps(n)
  <2> DEFINE S == {i \in 0 .. n : Keeps(i)}
  <2> HIDE DEF Keeps, n
  <2>1. IsInductive(S, n)
    BY <1>1, <1>10, <1>11 DEF IsInductive
  <2> HIDE DEF S
  <2>2. n \in S
    BY <1>1, <2>1, InductionUpTo
  <2> QED
    BY <2>2 DEF S
<1>13. Firsts(n) = ToSet(list)
  BY DEF ToSet
<1> QED
  BY <1>8, <1>12, <1>13

-----------------------------------------------------------------------------
(* What a change does to the queues.                                       *)

\* Each client whose callback is in the list gets the event once, wherever it
\* is in the list.
LEMMA PushedToListed ==
  ASSUME NEW list \in Seq(Conn), IsInjective(list),
         NEW queues \in [Conn -> Queue], NEW e \in Event, NEW skip
  PROVE  PushedTo(queues, list, e, skip)
           = [c \in Conn |-> IF c \in ToSet(list) \ skip THEN Pushed(queues[c], e)
                             ELSE queues[c]]
<1> DEFINE
    n == Len(list)
    T == [Conn -> Queue]
    Push1(i, qs) == IF list[i] \in skip THEN qs
                    ELSE [qs EXCEPT ![list[i]] = Pushed(@, e)]
    step == [i \in 1 .. n |-> [qs \in T |-> Push1(i, qs)]]
<1>1. n \in Nat /\ \A i \in 1 .. n : list[i] \in Conn
  OBVIOUS
<1>2. IsStep(step, n, T)
  <2>1. ASSUME NEW i \in 1 .. n, NEW qs \in T PROVE Push1(i, qs) \in T
    <3>1. Pushed(qs[list[i]], e) \in Queue
      BY <1>1, PushedTyped
    <3> QED
      BY <1>1, <3>1
  <2> HIDE DEF T, Push1, n
  <2> QED
    BY <2>1 DEF IsStep
<1>3. PICK f : f \in [0 .. n -> T] /\ Follows(f, n, queues, step)
  <2> HIDE DEF step, n
  <2> QED
    BY <1>1, <1>2, RecursionUpTo
<1>4. ASSUME NEW i \in 1 .. n PROVE f[i] = Push1(i, f[i - 1])
  <2> HIDE DEF T, Push1, step
  <2>1. f[i - 1] \in T
    BY <1>1, <1>3
  <2> USE DEF step
  <2> QED
    BY <1>3, <2>1 DEF Follows
<1> DEFINE After(g) == g = [i \in 0 .. Len(list) |->
                              IF i = 0 THEN queues
                              ELSE IF list[i] \in skip THEN g[i - 1]
                              ELSE [g[i - 1] EXCEPT ![list[i]] = Pushed(@, e)]]
           after == CHOOSE g : After(g)
<1>5. After(f)
  <2>1. \A i \in 0 .. n : i = 0 \/ i \in 1 .. n
    BY <1>1
  <2>2. \A i \in 0 .. n : f[i] = IF i = 0 THEN queues
                                 ELSE IF list[i] \in skip THEN f[i - 1]
                                 ELSE [f[i - 1] EXCEPT ![list[i]] = Pushed(@, e)]
    BY <1>3, <1>4, <2>1 DEF Follows
  <2> QED
    BY <1>3, <2>2
<1>6. After(after)
  <2> HIDE DEF After
  <2> QED
    BY <1>5
<1>7. PushedTo(queues, list, e, skip) = after[n]
  BY DEF PushedTo
<1> HIDE DEF after
<1>8. /\ after[0] = queues
      /\ \A i \in 1 .. n : after[i] = Push1(i, after[i - 1])
  <2>1. \A i \in 0 .. n : after[i] = IF i = 0 THEN queues
                                     ELSE IF list[i] \in skip THEN after[i - 1]
                                     ELSE [after[i - 1] EXCEPT
                                             ![list[i]] = Pushed(@, e)]
    BY <1>6, Zenon
  <2>2. 0 \in 0 .. n /\ \A i \in 1 .. n : i \in 0 .. n /\ i # 0
    BY <1>1
  <2> QED
    BY <2>1, <2>2
<1> HIDE DEF After, step
<1> DEFINE
    Firsts(i) == {list[j] : j \in 1 .. i}
    Told(i) == after[i] = [c \in Conn |-> IF c \in Firsts(i) \ skip
                                          THEN Pushed(queues[c], e) ELSE queues[c]]
<1>9. Told(0)
  <2>1. Firsts(0) = {}
    OBVIOUS
  <2> HIDE DEF Firsts
  <2> QED
    BY <1>8, <2>1
<1>10. ASSUME NEW i \in 0 .. n - 1, Told(i) PROVE Told(i + 1)
  <2>1. i + 1 \in 1 .. n /\ i + 1 - 1 = i
    BY <1>1
  <2>2. Firsts(i + 1) = Firsts(i) \cup {list[i + 1]}
    <3>1. \A j \in 1 .. i + 1 : j \in 1 .. i \/ j = i + 1
      BY <2>1
    <3> QED
      BY <2>1, <3>1
  <2>3. list[i + 1] \notin Firsts(i) /\ list[i + 1] \in Conn
    BY <2>1 DEF IsInjective
  <2>4. after[i + 1] = Push1(i + 1, after[i])
    <3> HIDE DEF Push1
    <3> QED
      BY <1>8, <2>1
  <2>5. after[i] = [c \in Conn |-> IF c \in Firsts(i) \ skip
                                   THEN Pushed(queues[c], e) ELSE queues[c]]
    BY <1>10
  <2> HIDE DEF Firsts
  <2>6. CASE list[i + 1] \in skip
    BY <2>2, <2>4, <2>5, <2>6
  <2>7. CASE list[i + 1] \notin skip
    BY <2>2, <2>3, <2>4, <2>5, <2>7
  <2> QED
    BY <2>6, <2>7
<1>11. Told(n)
  <2> DEFINE S == {i \in 0 .. n : Told(i)}
  <2> HIDE DEF Told, n
  <2>1. IsInductive(S, n)
    BY <1>1, <1>9, <1>10 DEF IsInductive
  <2> HIDE DEF S
  <2>2. n \in S
    BY <1>1, <2>1, InductionUpTo
  <2> QED
    BY <2>2 DEF S
<1>12. Firsts(n) = ToSet(list)
  BY DEF ToSet
<1> QED
  BY <1>7, <1>11, <1>12

-----------------------------------------------------------------------------
(* What a pass reports.                                                    *)

Distinct(list) ==
  \A i, j \in DOMAIN list : list[i].ch = list[j].ch => i = j
Reports(list, ch) == \E i \in DOMAIN list : list[i].ch = ch

\* One event: it is reported, with its value, and what was reported still is.
LEMMA Coalesced1 ==
  ASSUME NEW S, NEW list \in Seq(S), NEW e \in S
  PROVE  /\ Coalesce(list, e) \in Seq(S)
         /\ Distinct(list) => Distinct(Coalesce(list, e))
         /\ \A ch : Reports(Coalesce(list, e), ch) <=> Reports(list, ch) \/ ch = e.ch
<1>1. CASE \E i \in DOMAIN list : list[i].ch = e.ch
  <2> DEFINE l == [i \in DOMAIN list |-> IF list[i].ch = e.ch THEN e ELSE list[i]]
  <2>1. Coalesce(list, e) = l
    BY <1>1 DEF Coalesce
  <2>2. l \in Seq(S)
    OBVIOUS
  <2>3. DOMAIN l = DOMAIN list /\ \A i \in DOMAIN list : l[i].ch = list[i].ch
    OBVIOUS
  <2> HIDE DEF l
  <2> QED
    BY <1>1, <2>1, <2>2, <2>3 DEF Distinct, Reports
<1>2. CASE ~ \E i \in DOMAIN list : list[i].ch = e.ch
  <2> DEFINE l == Append(list, e)
  <2>1. Coalesce(list, e) = l
    BY <1>2 DEF Coalesce
  <2>2. /\ l \in Seq(S) /\ Len(list) \in Nat
        /\ DOMAIN list = 1 .. Len(list) /\ DOMAIN l = 1 .. Len(list) + 1
        /\ \A i \in 1 .. Len(list) : l[i] = list[i]
        /\ l[Len(list) + 1] = e
    OBVIOUS
  <2>3. \A i \in 1 .. Len(list) + 1 : i \in 1 .. Len(list) \/ i = Len(list) + 1
    BY <2>2
  <2> HIDE DEF l
  <2>4. Distinct(list) => Distinct(l)
    BY <1>2, <2>2, <2>3 DEF Distinct
  <2>5. \A ch : Reports(l, ch) <=> Reports(list, ch) \/ ch = e.ch
    <3>1. Len(list) + 1 \in 1 .. Len(list) + 1 /\ 1 .. Len(list) \subseteq 1 .. Len(list) + 1
      BY <2>2
    <3> QED
      BY <2>2, <2>3, <3>1 DEF Reports
  <2> QED
    BY <2>1, <2>2, <2>4, <2>5
<1> QED
  BY <1>1, <1>2

\* All events of a queue: each pass of the loop pops the newest event that is
\* left and reports it.
LEMMA PoppedAllSteps ==
  ASSUME NEW q \in Queue
  PROVE  \E after :
           /\ PoppedAll(q) = after[q.cnt]
           /\ after[0] = [queue |-> q, report |-> <<>>]
           /\ \A k \in 0 .. q.cnt - 1 :
                /\ after[k + 1].queue = Popped(after[k].queue)
                /\ after[k + 1].report = Coalesce(after[k].report, Top(after[k].queue))
<1> DEFINE
    n == q.cnt
    Records == Event \cup {NoEvent}
    Rings == [queue : [Cell -> Records], in : Cell, cnt : Int]
    T == [queue : Rings, report : Seq(Records)]
    Pop1(s) == [queue  |-> Popped(s.queue), report |-> Coalesce(s.report, Top(s.queue))]
    first == [queue |-> q, report |-> <<>>]
    step == [k \in 1 .. n |-> [s \in T |-> Pop1(s)]]
<1>1. n \in Nat
  BY DEF Queue
<1>2. IsStep(step, n, T)
  <2>1. ASSUME NEW s \in T PROVE Pop1(s) \in T
    <3>1. DecIdx(s.queue.in) \in Cell
      BY SizeAssumption DEF DecIdx, Cell
    <3>2. Popped(s.queue) \in Rings /\ Top(s.queue) \in Records
      BY <3>1 DEF Popped, Top
    <3>3. Coalesce(s.report, Top(s.queue)) \in Seq(Records)
      <4> HIDE DEF Records
      <4> QED
        BY <3>2, Coalesced1
    <3> HIDE DEF Rings, Records
    <3> QED
      BY <3>2, <3>3
  <2> HIDE DEF T, Pop1, n
  <2> QED
    BY <2>1 DEF IsStep
<1>3. first \in T
  BY DEF Queue
<1>4. PICK f : f \in [0 .. n -> T] /\ Follows(f, n, first, step)
  <2> HIDE DEF step, n, T, first
  <2> QED
    BY <1>1, <1>2, <1>3, RecursionUpTo
<1>5. ASSUME NEW k \in 1 .. n PROVE f[k] = Pop1(f[k - 1])
  <2> HIDE DEF T, Pop1, step
  <2>1. f[k - 1] \in T
    BY <1>1, <1>4
  <2> USE DEF step
  <2> QED
    BY <1>4, <2>1 DEF Follows
<1> DEFINE After(g) == g = [k \in 0 .. q.cnt |->
                              IF k = 0 THEN [queue |-> q, report |-> <<>>]
                              ELSE LET s == g[k - 1]
                                   IN  [queue  |-> Popped(s.queue),
                                        report |-> Coalesce(s.report, Top(s.queue))]]
           after == CHOOSE g : After(g)
<1>6. After(f)
  <2>1. \A k \in 0 .. n : k = 0 \/ k \in 1 .. n
    BY <1>1
  <2>2. \A k \in 0 .. n : f[k] = IF k = 0 THEN first ELSE Pop1(f[k - 1])
    BY <1>4, <1>5, <2>1 DEF Follows
  <2> HIDE DEF T
  <2> QED
    BY <1>4, <2>2
<1>7. After(after)
  <2> HIDE DEF After
  <2> QED
    BY <1>6
<1>8. PoppedAll(q) = after[q.cnt]
  BY DEF PoppedAll
<1> HIDE DEF after
<1>9. after[0] = first /\ \A k \in 1 .. n : after[k] = Pop1(after[k - 1])
  <2>1. \A k \in 0 .. n : after[k] = IF k = 0 THEN first ELSE Pop1(after[k - 1])
    BY <1>7, Zenon
  <2>2. 0 \in 0 .. n /\ \A k \in 1 .. n : k \in 0 .. n /\ k # 0
    BY <1>1
  <2> HIDE DEF Pop1, first
  <2> QED
    BY <2>1, <2>2
<1>10. ASSUME NEW k \in 0 .. n - 1 PROVE after[k + 1] = Pop1(after[k])
  <2>1. k + 1 \in 1 .. n /\ k + 1 - 1 = k
    BY <1>1
  <2> HIDE DEF Pop1, n
  <2> QED
    BY <1>9, <2>1
<1>11. ASSUME NEW k \in 0 .. q.cnt - 1
       PROVE  /\ after[k + 1].queue = Popped(after[k].queue)
              /\ after[k + 1].report = Coalesce(after[k].report, Top(after[k].queue))
  <2>1. after[k + 1] = Pop1(after[k])
    BY <1>10
  <2>2. \A s : Pop1(s).queue = Popped(s.queue)
               /\ Pop1(s).report = Coalesce(s.report, Top(s.queue))
    OBVIOUS
  <2> HIDE DEF Pop1
  <2> QED
    BY <2>1, <2>2
<1> HIDE DEF After
<1> QED
  BY <1>8, <1>9, <1>11, Zenon

\* The queue is empty; a list of events was reported, each characteristic
\* once, and every characteristic that had an event in the queue.
LEMMA AllReported ==
  ASSUME NEW q \in Queue, Filled(q)
  PROVE  /\ Drained(q) \in Queue /\ Drained(q).cnt = 0
         /\ Coalesced(q) \in Seq(Event) /\ Distinct(Coalesced(q))
         /\ \A k \in 1 .. q.cnt : Reports(Coalesced(q), Contents(q)[k].ch)
<1>1. PICK after :
        /\ PoppedAll(q) = after[q.cnt]
        /\ after[0] = [queue |-> q, report |-> <<>>]
        /\ \A k \in 0 .. q.cnt - 1 :
             /\ after[k + 1].queue = Popped(after[k].queue)
             /\ after[k + 1].report = Coalesce(after[k].report, Top(after[k].queue))
  BY PoppedAllSteps
<1> DEFINE
    n == q.cnt
    Told(k) ==
      /\ after[k].queue \in Queue /\ after[k].queue.cnt = n - k
      /\ \A j \in 1 .. n - k : Contents(after[k].queue)[j] = Contents(q)[j]
      /\ after[k].report \in Seq(Event) /\ Distinct(after[k].report)
      /\ \A j \in n - k + 1 .. n : Reports(after[k].report, Contents(q)[j].ch)
<1>2. n \in Nat
  BY DEF Queue
<1>3. Told(0)
  <2>1. after[0].queue = q /\ after[0].report = <<>>
    BY <1>1
  <2>2. <<>> \in Seq(Event) /\ Distinct(<<>>)
    BY DEF Distinct
  <2>3. n - 0 + 1 .. n = {}
    BY <1>2
  <2> QED
    BY <1>2, <2>1, <2>2, <2>3
<1>4. ASSUME NEW k \in 0 .. n - 1, Told(k) PROVE Told(k + 1)
  <2> DEFINE r == after[k].queue
             l == after[k].report
             m == n - k
  <2>1. k + 1 \in 1 .. n /\ k + 1 - 1 = k /\ n - (k + 1) = m - 1 /\ m \in 1 .. n
    BY <1>2
  <2>2. after[k + 1].queue = Popped(r) /\ after[k + 1].report = Coalesce(l, Top(r))
    BY <1>1
  <2>3. r \in Queue /\ r.cnt = m /\ \A j \in 1 .. m : Contents(r)[j] = Contents(q)[j]
    BY <1>4
  <2>4. Popped(r) \in Queue /\ Popped(r).cnt = m - 1
    BY <2>1, <2>3, PoppedTyped
  <2>5. /\ Top(r) = Contents(q)[m]
        /\ \A j \in 1 .. m - 1 : Contents(Popped(r))[j] = Contents(q)[j]
    BY <2>1, <2>3, PoppedContents
  <2>6. Top(r) \in Event
    BY <2>1, <2>5 DEF Filled
  <2>7. /\ Coalesce(l, Top(r)) \in Seq(Event) /\ Distinct(Coalesce(l, Top(r)))
        /\ \A ch : Reports(Coalesce(l, Top(r)), ch) <=> Reports(l, ch) \/ ch = Top(r).ch
    BY <1>4, <2>6, Coalesced1
  <2>8. ASSUME NEW j \in n - (k + 1) + 1 .. n
        PROVE  Reports(Coalesce(l, Top(r)), Contents(q)[j].ch)
    <3>1. j = m \/ j \in n - k + 1 .. n
      BY <1>2
    <3> QED
      BY <1>4, <2>5, <2>7, <3>1
  <2> HIDE DEF r, l
  <2> QED
    BY <2>1, <2>2, <2>4, <2>5, <2>7, <2>8
<1>5. Told(n)
  <2> DEFINE S == {k \in 0 .. n : Told(k)}
  <2> HIDE DEF Told, n
  <2>1. IsInductive(S, n)
    BY <1>2, <1>3, <1>4 DEF IsInductive
  <2> HIDE DEF S
  <2>2. n \in S
    BY <1>2, <2>1, InductionUpTo
  <2> QED
    BY <2>2 DEF S
<1>6. Drained(q) = after[n].queue /\ Coalesced(q) = after[n].report
  BY <1>1 DEF Drained, Coalesced
<1>7. n - n = 0 /\ n - n + 1 = 1
  BY <1>2
<1> QED
  BY <1>5, <1>6, <1>7

-----------------------------------------------------------------------------
(* The queue as a list, and the newest event on a characteristic.          *)

\* A push is a push to the buffer of the last Size events.
LEMMA PushedIsWith ==
  ASSUME NEW q \in Queue, Filled(q), NEW e \in Event
  PROVE  Contents(Pushed(q, e)) = Buffers!With(Contents(q), e)
<1> DEFINE p == Pushed(q, e)
           old == Contents(q)
           kept == IF IsFull(q) THEN Tail(old) ELSE old
           new == Append(kept, e)
<1>1. /\ p \in Queue /\ p.cnt = IF IsFull(q) THEN q.cnt ELSE q.cnt + 1
      /\ q.cnt \in Nat /\ q.cnt <= Size /\ (IsFull(q) <=> q.cnt = Size)
  BY PushedTyped, SizeAssumption DEF Queue, IsFull
<1>2. /\ old \in Seq(Event) /\ Len(old) = q.cnt
  <2>1. \A k \in 1 .. q.cnt : old[k] \in Event
    BY DEF Filled
  <2>2. old = [k \in 1 .. q.cnt |-> old[k]]
    BY DEF Contents
  <2> HIDE DEF old
  <2> QED
    BY <1>1, <2>1, <2>2, IsASeq
<1>3. /\ kept \in Seq(Event) /\ Len(kept) = p.cnt - 1
      /\ \A k \in 1 .. p.cnt - 1 : kept[k] = old[IF IsFull(q) THEN k + 1 ELSE k]
  <2> HIDE DEF old, p
  <2>1. CASE IsFull(q)
    <3>1. old # <<>>
      BY <1>1, <1>2, <2>1, SizeAssumption
    <3> QED
      BY <1>1, <1>2, <2>1, <3>1, HeadTailProperties
  <2>2. CASE ~IsFull(q)
    BY <1>1, <1>2, <2>2
  <2> QED
    BY <2>1, <2>2
<1>4. /\ DOMAIN new = 1 .. p.cnt
      /\ \A k \in 1 .. p.cnt : new[k] = IF k = p.cnt THEN e ELSE kept[k]
  <2> HIDE DEF kept
  <2> QED
    BY <1>1, <1>3
<1>5. \A k \in 1 .. p.cnt : Contents(p)[k] = new[k]
  <2> SUFFICES ASSUME NEW k \in 1 .. p.cnt PROVE Contents(p)[k] = new[k]
    OBVIOUS
  <2>1. Contents(p)[k] = IF k = p.cnt THEN e
                         ELSE old[IF IsFull(q) THEN k + 1 ELSE k]
    BY PushedContents
  <2>2. k # p.cnt => k \in 1 .. p.cnt - 1
    BY <1>1
  <2> HIDE DEF p, old, kept, new
  <2> QED
    BY <1>3, <1>4, <2>1, <2>2
<1>6. DOMAIN Contents(p) = 1 .. p.cnt /\ Contents(p) = [k \in 1 .. p.cnt |-> Contents(p)[k]]
  BY DEF Contents
<1>7. new = [k \in 1 .. p.cnt |-> new[k]]
  <2> HIDE DEF kept
  <2>1. new \in Seq(Event)
    BY <1>3
  <2> HIDE DEF new
  <2>2. new \in [1 .. Len(new) -> Event]
    BY <2>1
  <2> QED
    BY <1>4, <2>2
<1>8. Contents(p) = new
  <2> HIDE DEF p, new
  <2> QED
    BY <1>5, <1>6, <1>7
<1>9. Buffers!With(old, e) = new
  <2> HIDE DEF old
  <2> QED
    BY <1>1, <1>2 DEF Buffers!With
<1> QED
  BY <1>8, <1>9

\* Newest is of the last event on the characteristic.
LEMMA NewestIsLast ==
  ASSUME NEW q \in Queue, NEW ch, NEW m \in Events(q, ch),
         \A j \in Events(q, ch) : j <= m
  PROVE  Newest(q, ch) = Contents(q)[m].value
<1> DEFINE IsLast(k) == k \in Events(q, ch) /\ \A j \in Events(q, ch) : j <= k
           k0 == CHOOSE k \in Events(q, ch) : \A j \in Events(q, ch) : j <= k
<1>1. IsLast(m)
  OBVIOUS
<1>2. IsLast(k0)
  BY <1>1
<1>3. k0 = m
  <2>1. Events(q, ch) \subseteq Int
    BY DEF Events
  <2> HIDE DEF k0
  <2> QED
    BY <1>1, <1>2, <2>1
<1> QED
  BY <1>3 DEF Newest

LEMMA LastExists ==
  ASSUME NEW q \in Queue, NEW ch, Events(q, ch) # {}
  PROVE  \E m \in Events(q, ch) : \A j \in Events(q, ch) : j <= m
<1>1. q.cnt \in Nat /\ Events(q, ch) \subseteq 0 .. q.cnt
  BY DEF Queue, Events
<1> QED
  BY <1>1, LargestElement

LEMMA PushedIsNewest ==
  ASSUME NEW q \in Queue, NEW e \in Event
  PROVE  Newest(Pushed(q, e), e.ch) = e.value
<1> DEFINE p == Pushed(q, e)
<1>1. p \in Queue /\ p.cnt \in Nat /\ p.cnt > 0
  BY PushedTyped, SizeAssumption DEF Queue, IsFull
<1>2. p.cnt \in 1 .. p.cnt
  BY <1>1
<1>3. Contents(p)[p.cnt] = e
  BY <1>2, PushedContents
<1>4. p.cnt \in Events(p, e.ch) /\ \A j \in Events(p, e.ch) : j <= p.cnt
  BY <1>1, <1>2, <1>3 DEF Events
<1> QED
  BY <1>1, <1>3, <1>4, NewestIsLast

\* A push does not change the newest event on another characteristic, if one
\* is left.
LEMMA PushedKeepsNewest ==
  ASSUME NEW q \in Queue, NEW e \in Event, NEW ch, ch # e.ch,
         Events(Pushed(q, e), ch) # {}
  PROVE  Events(q, ch) # {} /\ Newest(Pushed(q, e), ch) = Newest(q, ch)
<1> DEFINE p == Pushed(q, e)
           d == IF IsFull(q) THEN 1 ELSE 0
<1>1. p \in Queue /\ p.cnt = q.cnt + 1 - d /\ q.cnt \in Nat /\ d \in 0 .. 1
      /\ d <= q.cnt
  BY PushedTyped, SizeAssumption DEF Queue, IsFull
<1>2. \A k \in 1 .. p.cnt : Contents(p)[k] = IF k = p.cnt THEN e ELSE Contents(q)[k + d]
  <2> SUFFICES ASSUME NEW k \in 1 .. p.cnt
               PROVE  Contents(p)[k] = IF k = p.cnt THEN e ELSE Contents(q)[k + d]
    OBVIOUS
  <2>1. (IF IsFull(q) THEN k + 1 ELSE k) = k + d
    OBVIOUS
  <2> HIDE DEF d
  <2> QED
    BY <2>1, PushedContents
<1> HIDE DEF d
<1>3. PICK m \in Events(p, ch) : \A j \in Events(p, ch) : j <= m
  BY <1>1, LastExists
<1>4. m \in 1 .. p.cnt /\ Contents(p)[m].ch = ch
  BY DEF Events
<1>5. m # p.cnt /\ Contents(p)[m] = Contents(q)[m + d] /\ m + d \in 1 .. q.cnt
  BY <1>1, <1>2, <1>4
<1>6. m + d \in Events(q, ch)
  BY <1>4, <1>5 DEF Events
<1>7. ASSUME NEW j \in Events(q, ch) PROVE j <= m + d
  <2>1. j \in 1 .. q.cnt /\ Contents(q)[j].ch = ch
    BY DEF Events
  <2>2. CASE j - d \in 1 .. p.cnt
    <3>1. j - d # p.cnt /\ j - d + d = j
      BY <1>1, <2>1
    <3>2. Contents(p)[j - d] = Contents(q)[j]
      BY <1>2, <2>2, <3>1
    <3>3. j - d \in Events(p, ch)
      BY <2>1, <2>2, <3>2 DEF Events
    <3> QED
      BY <1>1, <1>3, <1>4, <2>1, <3>3
  <2>3. CASE j - d \notin 1 .. p.cnt
    BY <1>1, <1>4, <2>1, <2>3
  <2> QED
    BY <2>2, <2>3
<1> QED
  BY <1>1, <1>3, <1>5, <1>6, <1>7, NewestIsLast

-----------------------------------------------------------------------------
(* The inductive invariant.                                                *)

\* What the queues hold are events, and only a client that is connected has any.
QueuesFilled ==
  \A c \in Conn : Filled(queue[c]) /\ (~client[c].live => IsEmpty(queue[c]))

Inv == TypeOK /\ QueuesFilled /\ CallbacksOfClients /\ OneCallback
       /\ ReportedOnce /\ NewestIsCurrent

LEMMA NewClientTyped == NoClient \in Client
BY DEF NoClient, Client

LEMMA EmptyQueued == \A q \in Queue : IsEmpty(q) => \A ch : Events(q, ch) = {}
BY DEF IsEmpty, Events, Queue

LEMMA EventTyped ==
  ASSUME NEW ch \in Char, NEW v \in Values[ch] \cup {Null}
  PROVE  [ch |-> ch, value |-> v] \in Event
<1> DEFINE e == [ch |-> ch, value |-> v]
           E == [ch : {ch}, value : Values[ch] \cup {Null}]
<1>1. e \in E
  OBVIOUS
<1>2. E \in {[ch : {x}, value : Values[x] \cup {Null}] : x \in Char}
  OBVIOUS
<1> HIDE DEF E, e
<1>3. e \in UNION {[ch : {x}, value : Values[x] \cup {Null}] : x \in Char}
  BY <1>1, <1>2
<1> QED
  BY <1>3, EventAssumption DEF e

LEMMA InitInv == Init => Inv
<1> SUFFICES ASSUME Init PROVE Inv
  OBVIOUS
<1>1. \A c \in Conn : queue[c] = NewQueue /\ event[c] = <<>> /\ ~client[c].live
  BY DEF Init, NoEvents, NoClient
<1>2. NewQueue \in Queue /\ Filled(NewQueue) /\ IsEmpty(NewQueue)
  BY NewQueueIsEmpty DEF NewQueue, IsEmpty
<1>3. TypeOK
  <2>1. DOMAIN value = Char /\ \A ch \in Char : value[ch] \in Values[ch] \cup {Null}
    BY DEF Init
  <2>2. callback \in [Char -> Seq(Conn)] /\ event \in [Conn -> Seq(Event)]
    BY DEF Init, NoEvents
  <2>3. client \in [Conn -> Client] /\ queue \in [Conn -> Queue]
    BY <1>2, NewClientTyped DEF Init
  <2> QED
    BY <2>1, <2>2, <2>3 DEF Init, TypeOK
<1>4. QueuesFilled
  BY <1>1, <1>2 DEF QueuesFilled
<1>5. CallbacksOfClients /\ OneCallback
  BY DEF Init, CallbacksOfClients, OneCallback, Subscribed, ToSet, IsInjective
<1>6. ReportedOnce
  BY <1>1 DEF ReportedOnce
<1>7. NewestIsCurrent
  BY <1>1, <1>2, EmptyQueued DEF NewestIsCurrent, Queued
<1> QED
  BY <1>3, <1>4, <1>5, <1>6, <1>7 DEF Inv

\* The part of the invariant that is about the clients, of given lists of
\* callbacks, contexts and queues.
Wired(lists, cs, qs) ==
  /\ lists \in [Char -> Seq(Conn)] /\ cs \in [Conn -> Client] /\ qs \in [Conn -> Queue]
  /\ \A c \in Conn : Filled(qs[c]) /\ (~cs[c].live => IsEmpty(qs[c]))
  /\ \A ch \in Char : \A c \in ToSet(lists[ch]) : cs[c].live /\ cs[c].secured
  /\ \A ch \in Char : IsInjective(lists[ch])

LEMMA InvWired == Inv => Wired(callback, client, queue)
<1> SUFFICES ASSUME Inv PROVE Wired(callback, client, queue)
  OBVIOUS
<1>1. \A ch \in Char : ToSet(callback[ch]) \subseteq Conn
  BY ListElements DEF Inv, TypeOK
<1> QED
  BY <1>1 DEF Inv, TypeOK, QueuesFilled, CallbacksOfClients, OneCallback, Subscribed, Wired

LEMMA WiredInv ==
  Wired(callback, client, queue) => QueuesFilled /\ CallbacksOfClients /\ OneCallback
BY DEF QueuesFilled, CallbacksOfClients, OneCallback, Subscribed, Wired

\* Closing clients leaves the others wired.
LEMMA CloseWired ==
  ASSUME NEW lists, NEW cs, NEW qs, Wired(lists, cs, qs), NEW gone,
         Close(gone, lists, cs, qs)
  PROVE  Wired(callback', client', queue')
<1>1. /\ callback' = [ch \in Char |-> Without(lists[ch], gone)]
      /\ client' = [c \in Conn |-> IF c \in gone THEN NoClient ELSE cs[c]]
      /\ queue' = [c \in Conn |-> IF c \in gone THEN NewQueue ELSE qs[c]]
  BY DEF Close, Closed
<1>2. \A ch \in Char : /\ Without(lists[ch], gone) \in Seq(Conn)
                       /\ ToSet(Without(lists[ch], gone)) = ToSet(lists[ch]) \ gone
                       /\ IsInjective(Without(lists[ch], gone))
                       /\ ToSet(lists[ch]) \subseteq Conn
  BY WithoutKeeps, ListElements DEF Wired
<1>3. NewQueue \in Queue /\ Filled(NewQueue) /\ IsEmpty(NewQueue)
  BY NewQueueIsEmpty DEF NewQueue, IsEmpty
<1>4. callback' \in [Char -> Seq(Conn)]
  BY <1>1, <1>2
<1>5. client' \in [Conn -> Client] /\ queue' \in [Conn -> Queue]
  BY <1>1, <1>3, NewClientTyped DEF Wired
<1>6. \A c \in Conn : Filled(queue'[c]) /\ (~client'[c].live => IsEmpty(queue'[c]))
  BY <1>1, <1>3 DEF Wired
<1>7. \A ch \in Char : \A c \in ToSet(callback'[ch]) : client'[c].live /\ client'[c].secured
  BY <1>1, <1>2 DEF Wired
<1>8. \A ch \in Char : IsInjective(callback'[ch])
  BY <1>1, <1>2
<1> QED
  BY <1>4, <1>5, <1>6, <1>7, <1>8 DEF Wired

\* A change is put in the queues of the listeners that are not skipped.
LEMMA NotifiedListeners ==
  ASSUME Inv, NEW ch \in Char, NEW v \in Values[ch], NEW skip
  PROVE  Notified(queue, ch, v, skip)
           = [c \in Conn |-> IF c \in Listeners(ch, skip)
                             THEN Pushed(queue[c], [ch |-> ch, value |-> v])
                             ELSE queue[c]]
<1>1. [ch |-> ch, value |-> v] \in Event
  BY EventTyped
<1>2. /\ callback[ch] \in Seq(Conn) /\ IsInjective(callback[ch])
      /\ queue \in [Conn -> Queue]
  BY DEF Inv, TypeOK, OneCallback
<1> QED
  BY <1>1, <1>2, PushedToListed DEF Notified, Listeners

LEMMA NotifiedWired ==
  ASSUME Inv, NEW ch \in Char, NEW v \in Values[ch], NEW skip,
         NEW cs, cs \in [Conn -> Client],
         \A c \in Conn : cs[c].live = client[c].live /\ cs[c].secured = client[c].secured
  PROVE  Wired(callback, cs, Notified(queue, ch, v, skip))
<1> DEFINE e == [ch |-> ch, value |-> v]
           qs == Notified(queue, ch, v, skip)
<1>1. e \in Event
  BY EventTyped
<1>2. Wired(callback, client, queue)
  BY InvWired
<1>3. ASSUME NEW c \in Listeners(ch, skip)
      PROVE  /\ c \in Conn /\ client[c].live
             /\ Pushed(queue[c], e) \in Queue /\ Filled(Pushed(queue[c], e))
  <2>1. c \in Conn /\ client[c].live
    BY <1>2, ListElements DEF Listeners, Wired
  <2> HIDE DEF e
  <2> QED
    BY <1>1, <1>2, <2>1, PushedTyped, PushedFilled DEF Wired
<1>4. qs = [c \in Conn |-> IF c \in Listeners(ch, skip) THEN Pushed(queue[c], e)
                           ELSE queue[c]]
  BY NotifiedListeners
<1> HIDE DEF e, qs
<1>5. qs \in [Conn -> Queue]
  BY <1>2, <1>3, <1>4 DEF Wired
<1>6. \A c \in Conn : Filled(qs[c]) /\ (~cs[c].live => IsEmpty(qs[c]))
  BY <1>2, <1>3, <1>4 DEF Wired
<1>7. \A x \in Char : \A c \in ToSet(callback[x]) : cs[c].live /\ cs[c].secured
  BY <1>2, ListElements DEF Wired
<1> QED
  BY <1>2, <1>5, <1>6, <1>7 DEF Wired, qs

\* A change that the clients "told" are told of: the others are behind, and
\* what was queued of other characteristics is as new as before.
LEMMA ChangeKeepsNewest ==
  ASSUME Inv, NEW ch \in Char, NEW v \in Values[ch] \cup {Null}, NEW told,
         value' = [value EXCEPT ![ch] = v], behind' = Behind(ch, told),
         \A c \in Conn : \/ queue'[c] = NewQueue
                         \/ /\ c \in told
                            /\ queue'[c] = Pushed(queue[c], [ch |-> ch, value |-> v])
                         \/ c \notin told /\ queue'[c] = queue[c]
  PROVE  NewestIsCurrent'
<1> DEFINE e == [ch |-> ch, value |-> v]
<1>1. e \in Event /\ e.ch = ch /\ e.value = v
  BY EventTyped
<1> SUFFICES ASSUME NEW c \in Conn, NEW x \in Char, Events(queue'[c], x) # {},
                    <<c, x>> \notin behind'
             PROVE  Newest(queue'[c], x) = value'[x]
  BY DEF NewestIsCurrent, Queued
<1>2. queue[c] \in Queue /\ value'[x] = IF x = ch THEN v ELSE value[x]
  BY DEF Inv, TypeOK
<1>3. queue'[c] # NewQueue
  <2>1. NewQueue \in Queue /\ IsEmpty(NewQueue)
    BY NewQueueIsEmpty DEF NewQueue, IsEmpty
  <2> QED
    BY <2>1, EmptyQueued
<1>4. <<c, x>> \in behind \cup Conn \X {ch} => x = ch /\ c \in told
  BY DEF Behind
<1>5. x # ch => <<c, x>> \notin behind
  BY <1>4
<1>6. x # ch /\ Events(queue[c], x) # {} => Newest(queue[c], x) = value[x]
  BY <1>5 DEF Inv, NewestIsCurrent, Queued
<1>7. CASE c \in told /\ queue'[c] = Pushed(queue[c], e)
  <2>1. CASE x = ch
    <3> HIDE DEF e
    <3> QED
      BY <1>1, <1>2, <1>7, <2>1, PushedIsNewest
  <2>2. CASE x # ch
    <3> HIDE DEF e
    <3> QED
      BY <1>1, <1>2, <1>6, <1>7, <2>2, PushedKeepsNewest
  <2> QED
    BY <2>1, <2>2
<1>8. CASE c \notin told /\ queue'[c] = queue[c]
  <2>1. x # ch
    BY <1>4, <1>8
  <2> QED
    BY <1>2, <1>6, <1>8, <2>1
<1> QED
  BY <1>3, <1>7, <1>8

\* Without a change, queues are left alone or emptied.
LEMMA NoChangeKeepsNewest ==
  ASSUME Inv, value' = value, behind' = behind \/ behind' = StillBehind,
         \A c \in Conn : queue'[c] \in Queue /\ (queue'[c] = queue[c] \/ IsEmpty(queue'[c]))
  PROVE  NewestIsCurrent'
<1> SUFFICES ASSUME NEW c \in Conn, NEW x \in Char, Events(queue'[c], x) # {},
                    <<c, x>> \notin behind'
             PROVE  Newest(queue'[c], x) = value'[x]
  BY DEF NewestIsCurrent, Queued
<1>1. queue'[c] = queue[c]
  BY EmptyQueued
<1>2. <<c, x>> \notin behind
  BY DEF StillBehind
<1> QED
  BY <1>1, <1>2 DEF Inv, NewestIsCurrent, Queued

\* Where behind can grow to.
LEMMA BehindTyped ==
  ASSUME Inv, NEW ch \in Char, NEW told
  PROVE  Behind(ch, told) \subseteq Conn \X Char /\ StillBehind \subseteq Conn \X Char
BY DEF Inv, TypeOK, Behind, StillBehind

\* The invariant, from its parts, after a step that sends nothing.
LEMMA InvFromParts ==
  ASSUME DOMAIN value' = Char, \A ch \in Char : value'[ch] \in Values[ch] \cup {Null},
         Wired(callback', client', queue'), event' = NoEvents,
         behind' \subseteq Conn \X Char, NewestIsCurrent'
  PROVE  Inv'
<1>1. event' \in [Conn -> Seq(Event)] /\ \A c \in Conn : event'[c] = <<>>
  BY DEF NoEvents
<1>2. TypeOK'
  BY <1>1 DEF TypeOK, Wired
<1>3. QueuesFilled' /\ CallbacksOfClients' /\ OneCallback'
  BY DEF QueuesFilled, CallbacksOfClients, OneCallback, Subscribed, Wired
<1>4. ReportedOnce'
  BY <1>1 DEF ReportedOnce
<1> QED
  BY <1>2, <1>3, <1>4 DEF Inv

-----------------------------------------------------------------------------
(* The steps.                                                              *)

LEMMA ValueTyped ==
  ASSUME Inv, NEW ch \in Char, NEW v \in Values[ch] \cup {Null},
         value' = [value EXCEPT ![ch] = v]
  PROVE  DOMAIN value' = Char /\ \A x \in Char : value'[x] \in Values[x] \cup {Null}
BY DEF Inv, TypeOK

LEMMA AcceptInv ==
  ASSUME Inv, NEW c \in Conn, Accept(c)
  PROVE  Inv'
<1> USE DEF Accept
<1>1. Wired(callback, client, queue)
  BY InvWired
<1>2. NewQueue \in Queue /\ Filled(NewQueue) /\ IsEmpty(NewQueue)
  BY NewQueueIsEmpty DEF NewQueue, IsEmpty
<1>3. client' \in [Conn -> Client] /\ queue' \in [Conn -> Queue]
  BY <1>1, <1>2 DEF Wired, Client
<1>4. \A d \in Conn : Filled(queue'[d]) /\ (~client'[d].live => IsEmpty(queue'[d]))
  BY <1>1, <1>2 DEF Wired
<1>5. \A ch \in Char : \A d \in ToSet(callback'[ch]) : client'[d].live /\ client'[d].secured
  <2> SUFFICES ASSUME NEW ch \in Char, NEW d \in ToSet(callback[ch])
               PROVE  client'[d].live /\ client'[d].secured
    OBVIOUS
  <2>1. d \in Conn /\ client[d].live /\ client[d].secured
    BY <1>1, ListElements DEF Wired
  <2> QED
    BY <1>1, <2>1 DEF Wired
<1>6. Wired(callback', client', queue')
  BY <1>1, <1>3, <1>4, <1>5 DEF Wired
<1>7. NewestIsCurrent'
  BY <1>1, <1>2, <1>3, NoChangeKeepsNewest DEF Wired
<1> QED
  BY <1>6, <1>7, InvFromParts DEF Inv, TypeOK

LEMMA VerifiedInv ==
  ASSUME Inv, NEW c \in Conn, Verified(c)
  PROVE  Inv'
<1> USE DEF Verified
<1>1. Wired(callback, client, queue)
  BY InvWired
<1>2. client' \in [Conn -> Client]
  BY <1>1 DEF Wired, Client
<1>3. \A d \in Conn : client'[d].live = client[d].live
                      /\ (client[d].secured => client'[d].secured)
  BY <1>1 DEF Wired, Client
<1>4. \A ch \in Char : ToSet(callback[ch]) \subseteq Conn
  BY <1>1, ListElements DEF Wired
<1>5. Wired(callback', client', queue')
  BY <1>1, <1>2, <1>3, <1>4 DEF Wired
<1>6. NewestIsCurrent'
  BY <1>1, NoChangeKeepsNewest DEF Wired
<1> QED
  BY <1>5, <1>6, InvFromParts DEF Inv, TypeOK

LEMMA DisconnectedInv ==
  ASSUME Inv, NEW c \in Conn, Disconnected(c)
  PROVE  Inv'
<1> USE DEF Disconnected
<1>1. Wired(callback, client, queue)
  BY InvWired
<1>2. Wired(callback', client', queue')
  BY <1>1, CloseWired
<1>3. NewestIsCurrent'
  BY <1>2, NewQueueIsEmpty, NoChangeKeepsNewest
     DEF Close, Wired, NewQueue, IsEmpty
<1>4. behind' \subseteq Conn \X Char
  BY DEF Inv, TypeOK, StillBehind
<1> QED
  BY <1>2, <1>3, <1>4, InvFromParts DEF Inv, TypeOK

LEMMA ReportInv ==
  ASSUME Inv, NEW ch \in Char, NEW v \in Values[ch], Report(ch, v)
  PROVE  Inv'
<1>1. PICK skip \in SUBSET Unset(ch) :
        /\ queue' = Notified(queue, ch, v, skip)
        /\ behind' = Behind(ch, Listeners(ch, skip))
  BY DEF Report
<1>2. value' = [value EXCEPT ![ch] = v] /\ event' = NoEvents
      /\ callback' = callback /\ client' = client
  BY DEF Report
<1>3. Wired(callback', client', queue')
  BY <1>1, <1>2, NotifiedWired DEF Inv, TypeOK
<1>4. NewestIsCurrent'
  <2>1. \A c \in Conn : \/ /\ c \in Listeners(ch, skip)
                           /\ queue'[c] = Pushed(queue[c], [ch |-> ch, value |-> v])
                        \/ c \notin Listeners(ch, skip) /\ queue'[c] = queue[c]
    BY <1>1, NotifiedListeners
  <2> QED
    BY <1>1, <1>2, <2>1, ChangeKeepsNewest
<1>5. behind' \subseteq Conn \X Char
  BY <1>1, BehindTyped
<1> QED
  BY <1>2, <1>3, <1>4, <1>5, ValueTyped, InvFromParts

LEMMA PutInv ==
  ASSUME Inv, NEW c \in Conn, NEW ch \in Char, NEW v \in Values[ch], Put(c, ch, v)
  PROVE  Inv'
<1> DEFINE cs == [client EXCEPT ![c].unset = FALSE]
<1>1. PICK skip, gone :
        /\ Close(gone, callback, cs, Notified(queue, ch, v, skip \cup {c}))
        /\ behind' = Behind(ch, Listeners(ch, skip \cup {c}))
  BY DEF Put
<1>2. value' = [value EXCEPT ![ch] = v] /\ event' = NoEvents
  BY DEF Put
<1>3. cs \in [Conn -> Client] /\ \A d \in Conn : cs[d].live = client[d].live
                                               /\ cs[d].secured = client[d].secured
  BY DEF Inv, TypeOK, Client
<1>4. Wired(callback, cs, Notified(queue, ch, v, skip \cup {c}))
  <2> HIDE DEF cs
  <2> QED
    BY <1>3, NotifiedWired
<1>5. Wired(callback', client', queue')
  <2> HIDE DEF cs
  <2> QED
    BY <1>1, <1>4, CloseWired
<1>6. NewestIsCurrent'
  <2> DEFINE told == Listeners(ch, skip \cup {c})
  <2>1. \A d \in Conn : \/ queue'[d] = NewQueue
                        \/ /\ d \in told
                           /\ queue'[d] = Pushed(queue[d], [ch |-> ch, value |-> v])
                        \/ d \notin told /\ queue'[d] = queue[d]
    BY <1>1, NotifiedListeners DEF Close
  <2> HIDE DEF told
  <2>2. behind' = Behind(ch, told)
    BY <1>1 DEF told
  <2> QED
    BY <1>2, <2>1, <2>2, ChangeKeepsNewest
<1>7. behind' \subseteq Conn \X Char
  BY <1>1, BehindTyped
<1> QED
  BY <1>2, <1>5, <1>6, <1>7, ValueTyped, InvFromParts

LEMMA PutNullInv ==
  ASSUME Inv, NEW c \in Conn, NEW ch \in Char, PutNull(c, ch)
  PROVE  Inv'
<1>1. PICK gone : Close(gone, callback, client, queue)
  BY DEF PutNull
<1>2. value' = [value EXCEPT ![ch] = Null] /\ event' = NoEvents /\ behind' = Behind(ch, {})
  BY DEF PutNull
<1>3. Wired(callback', client', queue')
  BY <1>1, InvWired, CloseWired
<1>4. NewestIsCurrent'
  <2> DEFINE told == {}
  <2>1. \A d \in Conn : queue'[d] = NewQueue \/ (d \notin told /\ queue'[d] = queue[d])
    BY <1>1 DEF Close
  <2>2. behind' = Behind(ch, told) /\ Null \in Values[ch] \cup {Null}
    BY <1>2
  <2> HIDE DEF told
  <2> QED
    BY <1>2, <2>1, <2>2, ChangeKeepsNewest
<1>5. behind' \subseteq Conn \X Char
  BY <1>2, BehindTyped
<1> QED
  BY <1>2, <1>3, <1>4, <1>5, ValueTyped, InvFromParts

LEMMA PutEventsInv ==
  ASSUME Inv, NEW c \in Conn, NEW ch \in Char, NEW on \in BOOLEAN, PutEvents(c, ch, on)
  PROVE  Inv'
<1> DEFINE list == IF on THEN AddCallback(callback[ch], c)
                   ELSE RemoveCallback(callback[ch], c)
           lists == [callback EXCEPT ![ch] = list]
<1>1. PICK gone : Close(gone, lists, client, queue)
  BY DEF PutEvents
<1>2. /\ client[c].live /\ client[c].secured
      /\ behind' = StillBehind /\ event' = NoEvents /\ value' = value
  BY DEF PutEvents
<1>3. Wired(callback, client, queue)
  BY InvWired
<1>4. /\ list \in Seq(Conn) /\ IsInjective(list)
      /\ ToSet(list) \subseteq ToSet(callback[ch]) \cup {c}
  <2>1. callback[ch] \in Seq(Conn) /\ IsInjective(callback[ch])
    BY <1>3 DEF Wired
  <2>2. CASE on
    BY <2>1, <2>2, Appended DEF AddCallback
  <2>3. CASE ~on
    BY <2>1, <2>3, WithoutKeeps DEF RemoveCallback
  <2> QED
    BY <2>2, <2>3
<1> HIDE DEF list
<1>5. Wired(lists, client, queue)
  BY <1>2, <1>3, <1>4 DEF Wired
<1>6. Wired(callback', client', queue')
  <2> HIDE DEF lists
  <2> QED
    BY <1>1, <1>5, CloseWired
<1>7. NewestIsCurrent'
  <2>1. \A d \in Conn : queue'[d] = queue[d] \/ queue'[d] = NewQueue
    BY <1>1 DEF Close
  <2> QED
    BY <1>2, <1>6, <2>1, NoChangeKeepsNewest DEF Wired, NewQueue, IsEmpty
<1>8. behind' \subseteq Conn \X Char
  BY <1>2 DEF Inv, TypeOK, StillBehind
<1> QED
  BY <1>2, <1>6, <1>7, <1>8, InvFromParts DEF Inv, TypeOK

\* Every client is sent what was in its queue, or closed, and has none left.
LEMMA ProcessedQueues ==
  ASSUME Inv, ProcessNotifications
  PROVE  /\ Wired(callback', client', queue')
         /\ \A c \in Conn : queue'[c] = queue[c] \/ IsEmpty(queue'[c])
         /\ \A c \in Conn : /\ event'[c] \in Seq(Event) /\ Distinct(event'[c])
                            /\ \/ ~client'[c].live \/ queue'[c] = queue[c]
                               \/ event'[c] = Coalesced(queue[c])
<1>1. PICK gone \in SUBSET Due :
       /\ Close(gone, callback, client,
                [c \in Conn |-> IF c \in Due THEN Drained(queue[c]) ELSE queue[c]])
       /\ event' = [c \in Conn |-> IF c \in Due \ gone THEN Coalesced(queue[c])
                                   ELSE <<>>]
  BY DEF ProcessNotifications
<1> DEFINE qs == [c \in Conn |-> IF c \in Due THEN Drained(queue[c]) ELSE queue[c]]
<1>2. Wired(callback, client, queue)
  BY InvWired
<1>3. \A c \in Conn : /\ Drained(queue[c]) \in Queue /\ IsEmpty(Drained(queue[c]))
                      /\ Coalesced(queue[c]) \in Seq(Event) /\ Distinct(Coalesced(queue[c]))
  BY <1>2, AllReported DEF Wired, IsEmpty
<1>4. \A q \in Queue : IsEmpty(q) => Filled(q)
  BY DEF IsEmpty, Filled, Queue
<1>5. Wired(callback, client, qs)
  <2>1. qs \in [Conn -> Queue]
    BY <1>2, <1>3 DEF Wired
  <2>2. \A c \in Conn : Filled(qs[c]) /\ (~client[c].live => IsEmpty(qs[c]))
    BY <1>2, <1>3, <1>4 DEF Wired
  <2> HIDE DEF qs
  <2> QED
    BY <1>2, <2>1, <2>2 DEF Wired
<1>6. Wired(callback', client', queue')
  <2> HIDE DEF qs
  <2>1. Close(gone, callback, client, qs)
    BY <1>1 DEF qs
  <2> QED
    BY <1>5, <2>1, CloseWired
<1>7. \A c \in Conn : queue'[c] = queue[c] \/ IsEmpty(queue'[c])
  BY <1>1, <1>3 DEF Close, NewQueue, IsEmpty
<1>8. ASSUME NEW c \in Conn
      PROVE  /\ event'[c] \in Seq(Event) /\ Distinct(event'[c])
             /\ \/ ~client'[c].live \/ queue'[c] = queue[c]
                \/ event'[c] = Coalesced(queue[c])
  <2>1. CASE c \in gone
    <3>1. event'[c] = <<>> /\ ~client'[c].live
      BY <1>1, <2>1 DEF Close, NoClient
    <3> QED
      BY <3>1 DEF Distinct
  <2>2. CASE c \in Due \ gone
    BY <1>1, <1>3, <2>2
  <2>3. CASE c \notin Due
    <3>1. event'[c] = <<>> /\ queue'[c] = queue[c]
      BY <1>1, <2>3 DEF Close
    <3> QED
      BY <3>1 DEF Distinct
  <2> QED
    BY <2>1, <2>2, <2>3
<1> QED
  BY <1>6, <1>7, <1>8

LEMMA ProcessNotificationsInv ==
  ASSUME Inv, ProcessNotifications
  PROVE  Inv'
<1>1. /\ Wired(callback', client', queue')
      /\ \A c \in Conn : queue'[c] = queue[c] \/ IsEmpty(queue'[c])
      /\ \A c \in Conn : event'[c] \in Seq(Event) /\ Distinct(event'[c])
  BY ProcessedQueues
<1>2. value' = value /\ behind' = StillBehind
  BY DEF ProcessNotifications
<1>3. NewestIsCurrent'
  BY <1>1, <1>2, NoChangeKeepsNewest DEF Wired
<1>4. DOMAIN event' = Conn /\ event' = [c \in Conn |-> event'[c]]
  BY DEF ProcessNotifications
<1>5. TypeOK'
  <2>1. event' \in [Conn -> Seq(Event)]
    BY <1>1, <1>4
  <2> QED
    BY <1>1, <1>2, <2>1 DEF Inv, TypeOK, Wired, StillBehind
<1>6. ReportedOnce'
  BY <1>1 DEF ReportedOnce, Distinct
<1>7. QueuesFilled' /\ CallbacksOfClients' /\ OneCallback'
  BY <1>1 DEF QueuesFilled, CallbacksOfClients, OneCallback, Subscribed, Wired
<1> QED
  BY <1>3, <1>5, <1>6, <1>7 DEF Inv

LEMMA NextInv == Inv /\ [Next]_vars => Inv'
<1> SUFFICES ASSUME Inv, [Next]_vars PROVE Inv'
  OBVIOUS
<1>1. ASSUME NEW c \in Conn, Accept(c) \/ Verified(c) \/ Disconnected(c) PROVE Inv'
  BY <1>1, AcceptInv, VerifiedInv, DisconnectedInv
<1>2. ASSUME NEW ch \in Char, NEW v \in Values[ch], Report(ch, v) PROVE Inv'
  BY <1>2, ReportInv
<1>3. ASSUME NEW c \in Conn, NEW ch \in Char, NEW v \in Values[ch], Put(c, ch, v)
      PROVE  Inv'
  BY <1>3, PutInv
<1>4. ASSUME NEW c \in Conn, NEW ch \in Char, PutNull(c, ch) PROVE Inv'
  BY <1>4, PutNullInv
<1>5. ASSUME NEW c \in Conn, NEW ch \in Char, NEW on \in BOOLEAN, PutEvents(c, ch, on)
      PROVE  Inv'
  BY <1>5, PutEventsInv
<1>6. CASE ProcessNotifications
  BY <1>6, ProcessNotificationsInv
<1>7. CASE UNCHANGED vars
  BY <1>7 DEF vars, Inv, TypeOK, QueuesFilled, CallbacksOfClients, OneCallback,
              ReportedOnce, NewestIsCurrent, Subscribed, Queued
<1> QED
  BY <1>1, <1>2, <1>3, <1>4, <1>5, <1>6, <1>7 DEF Next

-----------------------------------------------------------------------------
(* The results.                                                            *)

LEMMA InvAlways == Spec => []Inv
<1>1. Init => Inv
  BY InitInv
<1>2. Inv /\ [Next]_vars => Inv'
  BY NextInv
<1> QED
  BY <1>1, <1>2, PTL DEF Spec

(* The lists of callbacks, the contexts and the queues keep their types.   *)
THEOREM TypeCorrect == Spec => []TypeOK
BY InvAlways, PTL DEF Inv

(* homekit_characteristic_notify finds only connected, verified clients in *)
(* the list of a characteristic.                                           *)
THEOREM CallbacksAreOfClients == Spec => []CallbacksOfClients
BY InvAlways, PTL DEF Inv

(* And it finds each of them once, however often a client subscribes.      *)
THEOREM ClientsAreCalledOnce == Spec => []OneCallback
BY InvAlways, PTL DEF Inv

(* homekit_server_process_notifications reports a characteristic once,     *)
(* whatever was in the queue.                                              *)
THEOREM EventsReportOnce == Spec => []ReportedOnce
BY InvAlways, PTL DEF Inv

(* The newest event queued for a client is the current value, unless the   *)
(* client was not told of the last change.                                 *)
THEOREM QueuedIsCurrent == Spec => []NewestIsCurrent
BY InvAlways, PTL DEF Inv

-----------------------------------------------------------------------------
(* What a step does to a queue, and what is lost by it.                    *)

\* A queue is left alone, or emptied: its client was told of all of it, or is
\* gone or new.
Taken(c) ==
  \/ queue'[c] = queue[c]
  \/ IsEmpty(queue'[c]) /\ \/ IsEmpty(queue[c]) \/ ~client'[c].live
                           \/ event'[c] = Coalesced(queue[c])

QueueStep(c, e) == Taken(c) \/ queue'[c] = Pushed(queue[c], e)

LEMMA ChangePushes ==
  ASSUME Inv, NEW ch \in Char, NEW v \in Values[ch], NEW skip, NEW gone, NEW cs,
         Close(gone, callback, cs, Notified(queue, ch, v, skip))
  PROVE  \E e \in Event : \A c \in Conn : QueueStep(c, e)
<1> DEFINE e == [ch |-> ch, value |-> v]
<1>1. e \in Event
  BY EventTyped
<1>2. \A c \in Conn : \/ queue'[c] = NewQueue /\ ~client'[c].live
                      \/ queue'[c] = Pushed(queue[c], e)
                      \/ queue'[c] = queue[c]
  BY NotifiedListeners DEF Close, NoClient
<1>3. \A c \in Conn : QueueStep(c, e)
  <2> HIDE DEF e
  <2> QED
    BY <1>2 DEF QueueStep, Taken, NewQueue, IsEmpty
<1> QED
  BY <1>1, <1>3

LEMMA CloseEmpties ==
  ASSUME NEW gone, NEW lists, Close(gone, lists, client, queue)
  PROVE  \A c \in Conn : Taken(c)
BY DEF Close, NoClient, Taken, NewQueue, IsEmpty

LEMMA StepOfQueues ==
  ASSUME Inv, Next
  PROVE  \/ \E e \in Event : \A c \in Conn : QueueStep(c, e)
         \/ \A c \in Conn : Taken(c)
<1>1. ASSUME NEW c \in Conn, Accept(c) PROVE \A d \in Conn : Taken(d)
  <2>1. IsEmpty(queue[c]) /\ IsEmpty(queue'[c]) /\ \A d \in Conn : d # c => queue'[d] = queue[d]
    BY <1>1 DEF Accept, Inv, TypeOK, QueuesFilled, NewQueue, IsEmpty
  <2> QED
    BY <2>1 DEF Taken
<1>2. ASSUME NEW c \in Conn, Verified(c) PROVE \A d \in Conn : Taken(d)
  BY <1>2 DEF Verified, Taken
<1>3. ASSUME NEW c \in Conn, Disconnected(c) PROVE \A d \in Conn : Taken(d)
  BY <1>3, CloseEmpties DEF Disconnected
<1>4. ASSUME NEW ch \in Char, NEW v \in Values[ch], Report(ch, v)
      PROVE  \E e \in Event : \A c \in Conn : QueueStep(c, e)
  <2>1. PICK skip : queue' = Notified(queue, ch, v, skip)
    BY <1>4 DEF Report
  <2> DEFINE e == [ch |-> ch, value |-> v]
  <2>2. e \in Event
    BY EventTyped
  <2>3. \A c \in Conn : QueueStep(c, e)
    BY <2>1, NotifiedListeners DEF QueueStep, Taken
  <2> QED
    BY <2>2, <2>3
<1>5. ASSUME NEW c \in Conn, NEW ch \in Char, NEW v \in Values[ch], Put(c, ch, v)
      PROVE  \E e \in Event : \A d \in Conn : QueueStep(d, e)
  BY <1>5, ChangePushes DEF Put
<1>6. ASSUME NEW c \in Conn, NEW ch \in Char, PutNull(c, ch)
      PROVE  \A d \in Conn : Taken(d)
  BY <1>6, CloseEmpties DEF PutNull
<1>7. ASSUME NEW c \in Conn, NEW ch \in Char, NEW on \in BOOLEAN, PutEvents(c, ch, on)
      PROVE  \A d \in Conn : Taken(d)
  BY <1>7, CloseEmpties DEF PutEvents
<1>8. CASE ProcessNotifications
  BY <1>8, ProcessedQueues DEF Taken
<1> QED
  BY <1>1, <1>2, <1>3, <1>4, <1>5, <1>6, <1>7, <1>8 DEF Next

\* A push drops nothing from a queue with room.
LEMMA PushedKeepsEvents ==
  ASSUME NEW q \in Queue, NEW e \in Event, NEW ch, Events(q, ch) # {},
         Events(Pushed(q, e), ch) = {}
  PROVE  IsFull(q) /\ IsFull(Pushed(q, e))
<1> DEFINE p == Pushed(q, e)
<1>1. p.cnt = IF IsFull(q) THEN q.cnt ELSE q.cnt + 1
  BY PushedTyped
<1>2. CASE ~IsFull(q)
  <2>1. PICK k \in 1 .. q.cnt : Contents(q)[k].ch = ch
    BY DEF Events
  <2>2. k \in 1 .. p.cnt /\ k # p.cnt
    BY <1>1, <1>2, <2>1 DEF Queue
  <2>3. Contents(p)[k] = Contents(q)[k]
    BY <1>2, <2>2, PushedContents
  <2> QED
    BY <2>1, <2>2, <2>3 DEF Events
<1>3. CASE IsFull(q)
  BY <1>1, <1>3 DEF IsFull
<1> QED
  BY <1>2, <1>3

LEMMA LostStep ==
  ASSUME Inv, Next, NEW c \in Conn, NEW ch \in Char, client'[c].live,
         Queued(c, ch), ~Queued(c, ch)'
  PROVE  \/ \E i \in DOMAIN event'[c] : event'[c][i].ch = ch
         \/ IsFull(queue[c]) /\ IsFull(queue'[c])
<1>1. queue[c] \in Queue /\ Filled(queue[c])
  BY DEF Inv, TypeOK, QueuesFilled
<1>2. Events(queue[c], ch) # {} /\ Events(queue'[c], ch) = {}
  BY DEF Queued
<1>3. CASE event'[c] = Coalesced(queue[c])
  <2>1. PICK k \in 1 .. queue[c].cnt : Contents(queue[c])[k].ch = ch
    BY <1>2 DEF Events
  <2> QED
    BY <1>1, <1>3, <2>1, AllReported DEF Reports
<1>4. ASSUME NEW e \in Event, queue'[c] = Pushed(queue[c], e)
      PROVE  IsFull(queue[c]) /\ IsFull(queue'[c])
  BY <1>1, <1>2, <1>4, PushedKeepsEvents
<1>5. ~IsEmpty(queue[c]) /\ queue'[c] # queue[c]
  BY <1>1, <1>2, EmptyQueued
<1>6. CASE Taken(c)
  BY <1>3, <1>5, <1>6 DEF Taken
<1> QED
  BY <1>4, <1>6, StepOfQueues DEF QueueStep

(* The last event on a characteristic leaves the queue of a client by      *)
(* being reported to it, unless a full queue is pushed to.                 *)
THEOREM OnlyOverflowLoses == Spec => LostByOverflowOnly
<1> DEFINE Kept == \A c \in Conn, ch \in Char :
      (client'[c].live /\ Queued(c, ch) /\ ~Queued(c, ch)')
        => \/ \E i \in DOMAIN event'[c] : event'[c][i].ch = ch
           \/ IsFull(queue[c]) /\ IsFull(queue'[c])
<1>1. Inv /\ [Next]_vars => [Kept]_queue
  BY LostStep DEF vars
<1> HIDE DEF Kept
<1>2. Spec => [][Kept]_queue
  BY <1>1, InvAlways, PTL DEF Spec
<1> QED
  BY <1>2 DEF LostByOverflowOnly, Kept

(* The queue of each client is the buffer of the last Size events put in   *)
(* it, emptied when they are reported or the client is gone, wherever the  *)
(* index of its ring stands.                                               *)
THEOREM QueuesImplementBuffers == Spec => QueuesAreBuffers
<1> DEFINE items == [c \in Conn |-> Contents(queue[c])]
<1>1. Init => Buffers!Init
  BY NewQueueIsEmpty DEF Init, Buffers!Init
<1>2. Inv /\ [Next]_vars => [Buffers!Next]_items
  <2> SUFFICES ASSUME Inv, [Next]_vars, items' # items PROVE Buffers!Next
    OBVIOUS
  <2>1. Next
    BY DEF vars
  <2>2. \A c \in Conn : queue[c] \in Queue /\ Filled(queue[c])
    BY DEF Inv, TypeOK, QueuesFilled
  <2>3. DOMAIN items' = Conn /\ \A c \in Conn : /\ items[c] = Contents(queue[c])
                                                /\ items'[c] = Contents(queue'[c])
    OBVIOUS
  <2>4. \A c \in Conn : IsEmpty(queue'[c]) => Contents(queue'[c]) = <<>>
    <3>1. Inv'
      BY NextInv
    <3> QED
      BY <3>1 DEF IsEmpty, Contents
  <2> HIDE DEF items
  <2>5. ASSUME NEW c \in Conn, Taken(c) PROVE items'[c] \in {items[c], <<>>}
    BY <2>3, <2>4, <2>5 DEF Taken
  <2>6. ASSUME NEW e \in Event, \A c \in Conn : QueueStep(c, e) PROVE Buffers!Put(e)
    <3>1. ASSUME NEW c \in Conn, queue'[c] = Pushed(queue[c], e)
          PROVE  items'[c] = Buffers!With(items[c], e)
      BY <2>2, <2>3, <3>1, PushedIsWith
    <3>2. \A c \in Conn : items'[c] \in {<<>>, items[c], Buffers!With(items[c], e)}
      BY <2>5, <2>6, <3>1 DEF QueueStep
    <3> QED
      BY <2>3, <3>2 DEF Buffers!Put, items
  <2>7. ASSUME \A c \in Conn : Taken(c) PROVE Buffers!Take
    BY <2>3, <2>5, <2>7 DEF Buffers!Take, items
  <2> QED
    BY <2>1, <2>6, <2>7, StepOfQueues DEF Buffers!Next
<1> QED
  BY <1>1, <1>2, InvAlways, PTL DEF Spec, QueuesAreBuffers, Buffers!Spec
=============================================================================
