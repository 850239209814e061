------------------------------ MODULE Induction ------------------------------
(***************************************************************************)
(* Induction over the natural numbers, for sets: what holds of a recursive *)
(* function is proved for the set of the arguments it holds of.            *)
(***************************************************************************)
EXTENDS Integers, WellFoundedInduction, TLAPS

Less == {p \in Nat \X Nat : p[1] < p[2]}

LEMMA LessWellFounded == IsWellFoundedOn(Less, Nat)
BY NatLessThanWellFounded, Zenon DEF OpToRel, Less

\* A set of natural numbers has a least element.
LEMMA LeastElement ==
  ASSUME NEW T, T \subseteq Nat, T # {}
  PROVE  \E x \in T : \A y \in T : x <= y
<1>1. PICK x \in T : \A y \in T : ~ (<<y, x>> \in Less)
  BY WFMin, LessWellFounded
<1>2. ASSUME NEW y \in T PROVE x <= y
  <2>1. <<y, x>> \notin Less
    BY <1>1
  <2>2. ~ (y < x)
    BY <2>1 DEF Less
  <2> QED
    BY <2>2
<1> QED
  BY <1>2

\* A set of numbers up to n has a largest element.
LEMMA LargestElement ==
  ASSUME NEW n \in Nat, NEW T, T \subseteq 0 .. n, T # {}
  PROVE  \E x \in T : \A y \in T : y <= x
<1> DEFINE D == {d \in Nat : n - d \in T}
<1>1. PICK t \in T : TRUE
  OBVIOUS
<1>2. n - t \in Nat /\ n - (n - t) = t
  OBVIOUS
<1>3. n - t \in D
  BY <1>2
<1>4. PICK d \in D : \A e \in D : d <= e
  BY <1>3, LeastElement
<1>5. ASSUME NEW y \in T PROVE y <= n - d
  <2>1. n - y \in Nat /\ n - (n - y) = y
    OBVIOUS
  <2>2. d <= n - y
    BY <1>4, <2>1
  <2> QED
    BY <2>2
<1>6. n - d \in T
  OBVIOUS
<1> QED
  BY <1>5, <1>6

LEMMA InductionOnNat ==
  ASSUME NEW S, 0 \in S, \A k \in Nat : k \in S => k + 1 \in S
  PROVE  Nat \subseteq S
<1> SUFFICES ASSUME Nat \ S # {} PROVE FALSE
  OBVIOUS
<1>1. PICK x \in Nat \ S : \A y \in Nat \ S : x <= y
  BY LeastElement
<1>2. x - 1 \in Nat /\ x - 1 \in S
  BY <1>1
<1> QED
  BY <1>1, <1>2

IsInductive(S, n) == 0 \in S /\ \A k \in 0 .. n - 1 : k \in S => k + 1 \in S

LEMMA InductionUpTo ==
  ASSUME NEW n \in Nat, NEW S, IsInductive(S, n)
  PROVE  n \in S /\ \A k \in 0 .. n : k \in S
<1> DEFINE T == {k \in Nat : k <= n => k \in S}
<1>1. 0 \in T
  BY DEF IsInductive
<1>2. \A k \in Nat : k \in T => k + 1 \in T
  BY DEF IsInductive
<1> HIDE DEF T
<1>3. Nat \subseteq T
  BY <1>1, <1>2, InductionOnNat
<1> QED
  BY <1>3 DEF T

\* What a recursive function is made of: what it takes at 0, and a step from
\* each value to the next.
IsStep(step, n, T) == step \in [1 .. n -> [T -> T]]
Follows(f, n, base, step) ==
  f[0] = base /\ \A i \in 1 .. n : f[i] = step[i][f[i - 1]]

\* There is such a function.
LEMMA RecursionUpTo ==
  ASSUME NEW n \in Nat, NEW T, NEW base \in T, NEW step, IsStep(step, n, T)
  PROVE  \E f : f \in [0 .. n -> T] /\ Follows(f, n, base, step)
<1> DEFINE S == {m \in 0 .. n : \E f : f \in [0 .. m -> T] /\ Follows(f, m, base, step)}
<1>1. 0 \in S
  <2> DEFINE f == [i \in 0 .. 0 |-> base]
  <2>1. f \in [0 .. 0 -> T] /\ Follows(f, 0, base, step)
    BY DEF Follows
  <2>2. 0 \in 0 .. n
    OBVIOUS
  <2> HIDE DEF f
  <2> QED
    BY <2>1, <2>2
<1>2. ASSUME NEW k \in 0 .. n - 1, k \in S PROVE k + 1 \in S
  <2>1. PICK f : f \in [0 .. k -> T] /\ Follows(f, k, base, step)
    BY <1>2
  <2> DEFINE x == step[k + 1][f[k]]
             g == [i \in 0 .. k + 1 |-> IF i = k + 1 THEN x ELSE f[i]]
  <2>2. f[k] \in T /\ k + 1 \in 1 .. n
    BY <2>1
  <2>3. x \in T
    BY <2>2 DEF IsStep
  <2>4. g \in [0 .. k + 1 -> T]
    BY <2>1, <2>3
  <2>5. g[0] = base /\ g[k + 1] = x /\ g[k] = f[k]
    BY <2>1 DEF Follows
  <2>6. ASSUME NEW i \in 1 .. k PROVE g[i] = step[i][g[i - 1]]
    <3>1. g[i] = f[i] /\ g[i - 1] = f[i - 1]
      OBVIOUS
    <3> HIDE DEF g
    <3> QED
      BY <2>1, <3>1 DEF Follows
  <2>7. \A i \in 1 .. k + 1 : i = k + 1 \/ i \in 1 .. k
    OBVIOUS
  <2>8. g[k + 1] = step[k + 1][g[k + 1 - 1]]
    <3>1. k + 1 - 1 = k
      OBVIOUS
    <3> HIDE DEF g
    <3> QED
      BY <2>5, <3>1
  <2> HIDE DEF g, x
  <2>9. Follows(g, k + 1, base, step)
    BY <2>5, <2>6, <2>7, <2>8 DEF Follows
  <2>10. k + 1 \in 0 .. n
    OBVIOUS
  <2> QED
    BY <2>4, <2>9, <2>10
<1> HIDE DEF S
<1>3. n \in S
  BY <1>1, <1>2, InductionUpTo DEF IsInductive
<1> QED
  BY <1>3 DEF S

\* The same from the end on: each value depends on one further on.
Precedes(f, n, base, step, next) ==
  f[n] = base /\ \A i \in 0 .. n - 1 : f[i] = step[i][f[next[i]]]

LEMMA RecursionDownFrom ==
  ASSUME NEW n \in Nat, NEW T, NEW base \in T,
         NEW step \in [0 .. n - 1 -> [T -> T]],
         NEW next \in [0 .. n - 1 -> 0 .. n], \A i \in 0 .. n - 1 : i < next[i]
  PROVE  \E f : f \in [0 .. n -> T] /\ Precedes(f, n, base, step, next)
<1> DEFINE Partial(f, m) == /\ f \in [m .. n -> T] /\ f[n] = base
                            /\ \A i \in m .. n - 1 : f[i] = step[i][f[next[i]]]
           S == {k \in 0 .. n : \E f : Partial(f, n - k)}
<1>1. 0 \in S
  <2> DEFINE f == [i \in n - 0 .. n |-> base]
  <2>1. Partial(f, n - 0)
    OBVIOUS
  <2>2. 0 \in 0 .. n
    OBVIOUS
  <2> HIDE DEF f, Partial
  <2> QED
    BY <2>1, <2>2
<1>2. ASSUME NEW k \in 0 .. n - 1, k \in S PROVE k + 1 \in S
  <2>1. PICK f : Partial(f, n - k)
    BY <1>2
  <2>2. PICK m \in 0 .. n - 1 : n - k = m + 1 /\ n - (k + 1) = m
    <3>1. n - (k + 1) \in 0 .. n - 1 /\ n - k = n - (k + 1) + 1
      OBVIOUS
    <3> QED
      BY <3>1
  <2>3. /\ f \in [m + 1 .. n -> T] /\ f[n] = base
        /\ \A i \in m + 1 .. n - 1 : f[i] = step[i][f[next[i]]]
    BY <2>1, <2>2
  <2>4. next[m] \in m + 1 .. n
    OBVIOUS
  <2>5. step[m] \in [T -> T] /\ f[next[m]] \in T
    BY <2>3, <2>4
  <2> DEFINE x == step[m][f[next[m]]]
             g == [i \in m .. n |-> IF i = m THEN x ELSE f[i]]
  <2>6. x \in T
    BY <2>5
  <2>7. /\ g \in [m .. n -> T] /\ g[m] = x /\ m + 1 .. n \subseteq m .. n
        /\ \A i \in m + 1 .. n : g[i] = f[i]
    BY <2>3, <2>6
  <2> HIDE DEF g
  <2>8. g[n] = base
    BY <2>3, <2>7
  <2>9. ASSUME NEW i \in m .. n - 1 PROVE g[i] = step[i][g[next[i]]]
    <3>1. i \in 0 .. n - 1 /\ next[i] \in m + 1 .. n
      OBVIOUS
    <3>2. g[next[i]] = f[next[i]]
      BY <2>7, <3>1
    <3>3. CASE i = m
      BY <2>7, <3>2, <3>3
    <3>4. CASE i # m
      <4>1. i \in m + 1 .. n - 1 /\ i \in m + 1 .. n
        BY <3>4
      <4> QED
        BY <2>3, <2>7, <3>2, <4>1
    <3> QED
      BY <3>3, <3>4
  <2>10. Partial(g, m)
    BY <2>7, <2>8, <2>9
  <2>11. k + 1 \in 0 .. n
    OBVIOUS
  <2> HIDE DEF Partial
  <2> QED
    BY <2>2, <2>10, <2>11
<1> HIDE DEF S
<1>3. n \in S
  BY <1>1, <1>2, InductionUpTo DEF IsInductive
<1>4. PICK f : Partial(f, n - n)
  BY <1>3 DEF S
<1>5. n - n = 0
  OBVIOUS
<1> QED
  BY <1>4, <1>5 DEF Precedes

\* Downwards, from what holds of all that is above.
IsInductiveDown(S, n) == n \in S /\ \A m \in 0 .. n - 1 : m + 1 .. n \subseteq S => m \in S

LEMMA InductionDown ==
  ASSUME NEW n \in Nat, NEW S, IsInductiveDown(S, n)
  PROVE  \A m \in 0 .. n : m \in S
<1> DEFINE D == {k \in 0 .. n : \A m \in n - k .. n : m \in S}
<1>1. 0 \in D
  <2>1. n - 0 .. n = {n} /\ 0 \in 0 .. n
    OBVIOUS
  <2> QED
    BY <2>1 DEF IsInductiveDown
<1>2. ASSUME NEW k \in 0 .. n - 1, k \in D PROVE k + 1 \in D
  <2>1. PICK m \in 0 .. n - 1 : n - k = m + 1 /\ n - (k + 1) = m
    <3>1. n - (k + 1) \in 0 .. n - 1 /\ n - k = n - (k + 1) + 1
      OBVIOUS
    <3> QED
      BY <3>1
  <2>2. m + 1 .. n \subseteq S
    BY <1>2, <2>1
  <2>3. m \in S
    BY <2>2 DEF IsInductiveDown
  <2>4. \A i \in m .. n : i = m \/ i \in m + 1 .. n
    OBVIOUS
  <2>5. k + 1 \in 0 .. n
    OBVIOUS
  <2> QED
    BY <2>1, <2>2, <2>3, <2>4, <2>5
<1> HIDE DEF D
<1>3. n \in D
  BY <1>1, <1>2, InductionUpTo DEF IsInductive
<1>4. n - n .. n = 0 .. n
  OBVIOUS
<1> QED
  BY <1>3, <1>4 DEF D
=============================================================================
