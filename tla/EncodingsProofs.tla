-------------------------- MODULE EncodingsProofs --------------------------
(***************************************************************************)
(* Proofs about Encodings, for inputs of every length.                     *)
(***************************************************************************)
EXTENDS Encodings, Induction, SequenceTheorems

\* An input is made of the symbols of its kind.
InputTyped == input \in Seq(Symbols[kind])

LEMMA InputAlways == Spec => []InputTyped
<1>1. Init => InputTyped
  BY DEF Init, InputTyped
<1>2. InputTyped /\ [Grow]_vars => InputTyped'
  BY DEF InputTyped, Grow, vars
<1> QED
  BY <1>1, <1>2, PTL DEF Spec

-----------------------------------------------------------------------------
(* Writes.                                                                 *)

\* Half a double, cut towards 0, stays between whole limits.
LEMMA TruncatedBetween ==
  ASSUME NEW x \in Int, NEW low \in Int, NEW high \in Int, Between(x, low, high)
  PROVE  Truncated(x) \in low .. high
BY DEF Between, Truncated

LEMMA TruncatedTyped ==
  ASSUME NEW x \in Int
  PROVE  Truncated(x) \in Int
BY DEF Truncated

LEMMA OrTyped ==
  ASSUME NEW limit \in Seq(Int), NEW default \in Int
  PROVE  Or(limit, default) \in Int
BY DEF Or

\* What a value is converted to is one that the characteristic may hold.
LEMMA ConvertedAllowed ==
  ASSUME NEW ch, IsCharacteristic(ch), NEW v \in JsonValue, Converted(ch, v) # <<>>
  PROVE  Converted(ch, v)[1] \in Int /\ Allowed(ch, Converted(ch, v)[1])
<1> USE MaxIntAssumption
<1>0. /\ v.double \in Int /\ v.length \in Nat
      /\ ch.format \in Formats
      /\ ch.min \in Seq(Int) /\ ch.max \in Seq(Int) /\ ch.max_len \in Seq(Int)
      /\ ch.valid_values \in Seq(Int) /\ ch.valid_ranges \in Seq(Int \X Int)
  BY DEF JsonValue, IsCharacteristic
<1> DEFINE x == Converted(ch, v)[1]
<1>1. CASE ch.format = "bool"
  <2>1. Bool(ch, v) = Converted(ch, v)
    BY <1>1 DEF Converted
  <2>2. Bool(ch, v) # <<>> => Bool(ch, v)[1] \in {0, 1}
    BY DEF Bool, ValueInt
  <2>3. x \in {0, 1}
    BY <2>1, <2>2
  <2> QED
    BY <1>1, <2>3 DEF Allowed
<1>2. CASE ch.format \in {"uint8", "uint16", "int"}
  <2>1. Number(ch, v) = Converted(ch, v)
    BY <1>2 DEF Converted
  <2>2. /\ InRange(ch, v.double)
        /\ ch.valid_values # <<>> => Truncated(v.double) \in ToSet(ch.valid_values)
        /\ ch.valid_ranges # <<>> =>
             \E r \in ToSet(ch.valid_ranges) : Between(v.double, r[1], r[2])
        /\ x = Truncated(v.double)
    BY <2>1 DEF Number
  <2>3. MinValue(ch) \in Int /\ MaxValue(ch) \in Int
    <3> DEFINE least == IF ch.format = "int" THEN -MaxInt - 1 ELSE 0
               most == [uint8 |-> 255, uint16 |-> 65535, int |-> MaxInt][ch.format]
    <3>1. least \in Int /\ most \in Int
      BY <1>2
    <3>2. MinValue(ch) = Or(ch.min, least) /\ MaxValue(ch) = Or(ch.max, most)
      BY DEF MinValue, MaxValue
    <3> HIDE DEF least, most
    <3> QED
      BY <1>0, <3>1, <3>2, OrTyped
  <2>4. x \in MinValue(ch) .. MaxValue(ch)
    BY <1>0, <2>2, <2>3, TruncatedBetween DEF InRange
  <2>5. ch.valid_ranges # <<>> => \E r \in ToSet(ch.valid_ranges) : x \in r[1] .. r[2]
    <3>1. \A r \in ToSet(ch.valid_ranges) : r[1] \in Int /\ r[2] \in Int
      BY <1>0 DEF ToSet
    <3> QED
      BY <1>0, <2>2, <3>1, TruncatedBetween
  <2> QED
    BY <1>0, <1>2, <2>2, <2>4, <2>5, TruncatedTyped DEF Allowed
<1>3. CASE ch.format = "float"
  <2>1. Float(ch, v) = Converted(ch, v)
    BY <1>3 DEF Converted
  <2>2. /\ ch.min # <<>> => 2 * ch.min[1] <= v.double
        /\ ch.max # <<>> => v.double <= 2 * ch.max[1]
        /\ x = v.double
    BY <2>1 DEF Float
  <2> QED
    BY <1>0, <1>3, <2>2 DEF Allowed
<1>4. CASE ch.format \in {"string", "tlv", "data"}
  <2>1. Text(ch, v) = Converted(ch, v)
    BY <1>4 DEF Converted
  <2>2. v.length <= MaxLen(ch) /\ x = v.length
    BY <2>1 DEF Text
  <2> QED
    BY <1>0, <1>4, <2>2 DEF Allowed
<1> QED
  BY <1>0, <1>1, <1>2, <1>3, <1>4 DEF Formats

States == [stored : [DOMAIN Db -> Int], subscribed : SUBSET DOMAIN Db]

\* What the values may be after some elements of an update.
Kept(s) ==
  \A id \in DOMAIN Db :
    s.stored[id] = Initial.stored[id] \/ Allowed(Db[id], s.stored[id])

LEMMA UpdatedKept ==
  ASSUME NEW s \in States, NEW e \in Symbols["put"]
  PROVE  /\ Updated(Db, s, e) \in States
         /\ Kept(s) => Kept(Updated(Db, s, e))
<1>1. CASE e.id \notin DOMAIN Db \/ ValueStatus(Db, e) # Success
  BY <1>1 DEF Updated
<1>2. CASE e.id \in DOMAIN Db /\ ValueStatus(Db, e) = Success
  <2> DEFINE t == AfterValue(Db, s, e)
             u == AfterEvents(Db, t, e)
  <2>1. t \in States /\ (Kept(s) => Kept(t))
    <3>1. CASE e.value = <<>>
      BY <3>1 DEF AfterValue
    <3>2. CASE e.value # <<>>
      <4>1. e.value[1] \in JsonValue /\ IsCharacteristic(Db[e.id])
        BY <1>2, <3>2, WritesAssumption
      <4>2. Converted(Db[e.id], e.value[1]) # <<>>
        BY <1>2, <3>2 DEF ValueStatus, Success, InvalidValue, ReadOnly
      <4> DEFINE x == Converted(Db[e.id], e.value[1])[1]
      <4>3. x \in Int /\ Allowed(Db[e.id], x)
        BY <4>1, <4>2, ConvertedAllowed
      <4>4. t = [s EXCEPT !.stored[e.id] = x]
        BY <3>2 DEF AfterValue
      <4> HIDE DEF x, t
      <4>5. t \in States /\ t.stored = [s.stored EXCEPT ![e.id] = x]
        BY <4>3, <4>4 DEF States
      <4> QED
        BY <1>2, <4>3, <4>5 DEF Kept, States
    <3> QED
      BY <3>1, <3>2
  <2>2. u \in States /\ u.stored = t.stored
    <3> HIDE DEF t
    <3> QED
      BY <1>2, <2>1 DEF AfterEvents, States
  <2>3. Updated(Db, s, e) = u
    BY <1>2 DEF Updated
  <2> HIDE DEF t, u
  <2> QED
    BY <2>1, <2>2, <2>3 DEF Kept
<1> QED
  BY <1>1, <1>2

\* Element by element: each updates what the ones before have left.
LEMMA AfterSteps ==
  ASSUME kind = "put", InputTyped
  PROVE  /\ After[0] = Initial
         /\ \A n \in 1 .. Len(input) : After[n] = Updated(Db, After[n - 1], input[n])
<1> DEFINE N == Len(input)
           step == [n \in 1 .. N |-> [s \in States |-> Updated(Db, s, input[n])]]
           Body(g, n) == IF n = 0 THEN Initial ELSE Updated(Db, g[n - 1], input[n])
           IsAfter(g) == g = [n \in 0 .. N |-> Body(g, n)]
           after == CHOOSE g : IsAfter(g)
<1>1. N \in Nat /\ \A n \in 1 .. N : input[n] \in Symbols["put"]
  BY DEF InputTyped
<1>2. IsStep(step, N, States)
  BY <1>1, UpdatedKept DEF IsStep
<1>3. Initial \in States
  BY WritesAssumption DEF States
<1>4. PICK f : f \in [0 .. N -> States] /\ Follows(f, N, Initial, step)
  <2> HIDE DEF N, step
  <2> QED
    BY <1>1, <1>2, <1>3, RecursionUpTo
<1>5. IsAfter(f)
  <2>1. \A n \in 0 .. N : n = 0 \/ (n \in 1 .. N /\ n # 0 /\ f[n - 1] \in States)
    <3> HIDE DEF N
    <3> QED
      BY <1>1, <1>4
  <2>2. \A n \in 1 .. N : f[n - 1] \in States => f[n] = Updated(Db, f[n - 1], input[n])
    BY <1>4 DEF Follows
  <2>3. \A n \in 0 .. N : f[n] = Body(f, n)
    BY <1>4, <2>1, <2>2 DEF Follows
  <2> HIDE DEF Body
  <2> QED
    BY <1>4, <2>3
<1>6. IsAfter(after)
  <2> HIDE DEF IsAfter
  <2> QED
    BY <1>5
<1>7. After = after
  BY DEF After
<1> HIDE DEF after
<1>8. \A n \in 0 .. N : after[n] = Body(after, n)
  <2> HIDE DEF Body
  <2> QED
    BY <1>6, Zenon
<1>9. 0 \in 0 .. N /\ \A n \in 1 .. N : n \in 0 .. N /\ n # 0
  BY <1>1
<1> QED
  BY <1>7, <1>8, <1>9

LEMMA AfterTyped ==
  ASSUME kind = "put", InputTyped
  PROVE  \A n \in 0 .. Len(input) : After[n] \in States /\ Kept(After[n])
<1> SUFFICES ASSUME NEW m \in 0 .. Len(input)
             PROVE  After[m] \in States /\ Kept(After[m])
  OBVIOUS
<1> DEFINE T == {n \in Nat : After[n] \in States /\ Kept(After[n])}
<1>1. m \in Nat /\ \A n \in 1 .. m : n \in 1 .. Len(input) /\ input[n] \in Symbols["put"]
  BY DEF InputTyped
<1>2. 0 \in T
  BY AfterSteps, WritesAssumption DEF States, Kept
<1>3. ASSUME NEW n \in 0 .. m - 1, n \in T PROVE n + 1 \in T
  <2>1. n + 1 \in 1 .. m /\ n + 1 - 1 = n /\ n + 1 \in Nat
    BY <1>1
  <2>2. After[n + 1] = Updated(Db, After[n], input[n + 1])
    BY <1>1, <2>1, AfterSteps
  <2> QED
    BY <1>1, <1>3, <2>1, <2>2, UpdatedKept
<1> HIDE DEF T
<1>4. m \in T
  BY <1>1, <1>2, <1>3, InductionUpTo DEF IsInductive
<1> QED
  BY <1>4 DEF T

(* process_characteristics_update stores no value that the format, the     *)
(* limits, the valid values or ranges of the characteristic exclude,       *)
(* however many elements a PUT has, and whatever comes before one in it.   *)
THEOREM WritesAreChecked == Spec => []StoredIsAllowed
<1>1. InputTyped => StoredIsAllowed
  <2> SUFFICES ASSUME InputTyped, kind = "put" PROVE Kept(After[Len(input)])
    BY DEF StoredIsAllowed, Kept
  <2>1. Len(input) \in 0 .. Len(input)
    BY DEF InputTyped
  <2> QED
    BY <2>1, AfterTyped
<1> QED
  BY <1>1, InputAlways, PTL

-----------------------------------------------------------------------------
(* Base64.                                                                 *)

Bytes == 0 .. 255

\* "=" alone is decoded to 64.
LEMMA DecodedChar ==
  ASSUME NEW c
  PROVE  DecodeChar(c) \in 0 .. 64 /\ (DecodeChar(c) = 64 <=> c = Pad)
BY DEF DecodeChar, Pad

\* A block is of three bytes, but for those that "=" leaves out.
LEMMA BlockTyped ==
  ASSUME NEW S, NEW chars \in Seq(S), Len(chars) = 4
  PROVE  /\ Block(chars) \in Seq(Bytes)
         /\ Len(Block(chars)) = IF chars[3] = Pad THEN 1 ELSE IF chars[4] = Pad THEN 2 ELSE 3
<1> DEFINE v == [k \in 1 .. 4 |-> DecodeChar(chars[k])]
           b1 == (v[1] * 4 + v[2] \div 16) % 256
           b2 == ((v[2] % 16) * 16 + v[3] \div 4) % 256
           b3 == ((v[3] % 4) * 64 + v[4]) % 256
           n == IF v[3] = 64 THEN 1 ELSE IF v[4] = 64 THEN 2 ELSE 3
<1>1. Block(chars) = SubSeq(<<b1, b2, b3>>, 1, n)
  BY DEF Block
<1>2. v[1] \in 0 .. 64 /\ v[2] \in 0 .. 64 /\ v[3] \in 0 .. 64 /\ v[4] \in 0 .. 64
  BY DecodedChar
<1>3. n = IF chars[3] = Pad THEN 1 ELSE IF chars[4] = Pad THEN 2 ELSE 3
  BY DecodedChar
<1>4. n \in 1 .. 3
  OBVIOUS
<1> HIDE DEF v, n
<1>5. b1 \in Bytes /\ b2 \in Bytes /\ b3 \in Bytes
  <2>1. PICK w \in 0 .. 64, x \in 0 .. 64, y \in 0 .. 64, z \in 0 .. 64 :
          v[1] = w /\ v[2] = x /\ v[3] = y /\ v[4] = z
    BY <1>2
  <2>2. /\ b1 = (w * 4 + x \div 16) % 256
        /\ b2 = ((x % 16) * 16 + y \div 4) % 256
        /\ b3 = ((y % 4) * 64 + z) % 256
    BY <2>1
  <2> HIDE DEF b1, b2, b3
  <2> QED
    BY <2>2 DEF Bytes
<1> HIDE DEF b1, b2, b3
<1>6. <<b1, b2, b3>> \in Seq(Bytes) /\ Len(<<b1, b2, b3>>) = 3
  BY <1>5
<1>7. SubSeq(<<b1, b2, b3>>, 1, n) \in Seq(Bytes) /\ Len(SubSeq(<<b1, b2, b3>>, 1, n)) = n
  BY <1>4, <1>6
<1> QED
  BY <1>1, <1>3, <1>7

\* Block by block, until one that is not full.
Extended(data, n, text) ==
  IF Len(data) < 3 * (n - 1) THEN data
  ELSE data \o Block(SubSeq(text, 4 * n - 3, 4 * n))

LEMMA ExtendedTyped ==
  ASSUME NEW S, NEW text \in Seq(S), NEW n \in 1 .. Len(text) \div 4, NEW data \in Seq(Bytes)
  PROVE  Extended(data, n, text) \in Seq(Bytes)
<1>1. SubSeq(text, 4 * n - 3, 4 * n) \in Seq(S) /\ Len(SubSeq(text, 4 * n - 3, 4 * n)) = 4
  OBVIOUS
<1>2. Block(SubSeq(text, 4 * n - 3, 4 * n)) \in Seq(Bytes)
  BY <1>1, BlockTyped
<1> QED
  BY <1>2 DEF Extended

LEMMA DecodeSteps ==
  ASSUME NEW S, NEW text \in Seq(S)
  PROVE  \E decoded :
           /\ Decode(text) = decoded[Len(text) \div 4]
           /\ decoded[0] = <<>>
           /\ \A n \in 1 .. Len(text) \div 4 :
                decoded[n - 1] \in Seq(Bytes) /\ decoded[n] = Extended(decoded[n - 1], n, text)
<1> DEFINE N == Len(text) \div 4
           T == Seq(Bytes)
           step == [n \in 1 .. N |-> [data \in T |-> Extended(data, n, text)]]
           Body(g, n) ==
             IF n = 0 THEN <<>>
             ELSE LET data == g[n - 1]
                  IN  IF Len(data) < 3 * (n - 1) THEN data
                      ELSE data \o Block(SubSeq(text, 4 * n - 3, 4 * n))
           IsDecoded(g) == g = [n \in 0 .. N |-> Body(g, n)]
           decoded == CHOOSE g : IsDecoded(g)
<1>1. N \in Nat /\ <<>> \in T
  OBVIOUS
<1>2. IsStep(step, N, T)
  BY ExtendedTyped DEF IsStep
<1>3. PICK f : f \in [0 .. N -> T] /\ Follows(f, N, <<>>, step)
  <2> HIDE DEF N, step, T
  <2> QED
    BY <1>1, <1>2, RecursionUpTo
<1>4. ASSUME NEW n \in 1 .. N
      PROVE  f[n - 1] \in T /\ f[n] = Extended(f[n - 1], n, text)
  <2>1. f[n - 1] \in T
    <3> HIDE DEF N, step, T
    <3> QED
      BY <1>1, <1>3
  <2> HIDE DEF T
  <2> QED
    BY <1>3, <2>1 DEF Follows
<1>5. IsDecoded(f)
  <2>1. \A n \in 0 .. N : n = 0 \/ (n \in 1 .. N /\ n # 0)
    <3> HIDE DEF N
    <3> QED
      BY <1>1
  <2>2. \A n \in 0 .. N : f[n] = Body(f, n)
    BY <1>3, <1>4, <2>1, Zenon DEF Follows, Extended
  <2> HIDE DEF Body
  <2> QED
    BY <1>3, <2>2
<1>6. IsDecoded(decoded)
  <2> HIDE DEF IsDecoded
  <2> QED
    BY <1>5
<1>7. Decode(text) = decoded[N]
  BY DEF Decode
<1> HIDE DEF decoded
<1>8. \A n \in 0 .. N : decoded[n] = Body(decoded, n)
  <2> HIDE DEF Body
  <2> QED
    BY <1>6, Zenon
<1>9. 0 \in 0 .. N /\ \A n \in 1 .. N : n \in 0 .. N /\ n # 0
  <2> HIDE DEF N
  <2> QED
    BY <1>1
<1>10. /\ decoded[0] = <<>>
       /\ \A n \in 1 .. N : decoded[n] = Extended(decoded[n - 1], n, text)
  BY <1>8, <1>9, Zenon DEF Extended
<1>11. \A n \in 0 .. N : decoded[n] \in T
  <2> DEFINE D == {n \in 0 .. N : decoded[n] \in T}
  <2> HIDE DEF N
  <2>1. 0 \in D
    <3>1. 0 \in 0 .. N
      BY <1>1
    <3> HIDE DEF T
    <3> QED
      BY <1>1, <1>10, <3>1
  <2>2. ASSUME NEW n \in 0 .. N - 1, n \in D PROVE n + 1 \in D
    <3>1. n + 1 \in 1 .. N /\ n + 1 - 1 = n /\ n + 1 \in 0 .. N
      BY <1>1
    <3>2. decoded[n + 1] = Extended(decoded[n], n + 1, text)
      BY <1>10, <3>1
    <3> HIDE DEF T
    <3>3. Extended(decoded[n], n + 1, text) \in T
      BY <2>2, <3>1, ExtendedTyped DEF N, T
    <3> QED
      BY <3>1, <3>2, <3>3
  <2> HIDE DEF D
  <2>3. \A n \in 0 .. N : n \in D
    BY <1>1, <2>1, <2>2, InductionUpTo DEF IsInductive
  <2> QED
    BY <2>3 DEF D
<1>12. \A n \in 1 .. N : n - 1 \in 0 .. N
  <2> HIDE DEF N
  <2> QED
    BY <1>1
<1> QED
  BY <1>7, <1>10, <1>11, <1>12

LEMMA DecodeFits ==
  ASSUME NEW S, NEW text \in Seq(S), text # <<>>, Len(text) % 4 = 0
  PROVE  Len(Decode(text)) <= DecodedSize(text)
<1> DEFINE N == Len(text) \div 4
           last == SubSeq(text, 4 * N - 3, 4 * N)
<1>1. N \in Nat \ {0} /\ Len(text) = 4 * N /\ (Len(text) + 3) \div 4 = N
  OBVIOUS
<1>2. PICK decoded :
        /\ Decode(text) = decoded[N]
        /\ decoded[0] = <<>>
        /\ \A n \in 1 .. N :
             decoded[n - 1] \in Seq(Bytes) /\ decoded[n] = Extended(decoded[n - 1], n, text)
  BY DecodeSteps
<1> HIDE DEF N
<1>3. ASSUME NEW n \in 1 .. N
      PROVE  /\ SubSeq(text, 4 * n - 3, 4 * n) \in Seq(S)
             /\ Len(SubSeq(text, 4 * n - 3, 4 * n)) = 4
             /\ SubSeq(text, 4 * n - 3, 4 * n)[3] = text[4 * n - 1]
             /\ SubSeq(text, 4 * n - 3, 4 * n)[4] = text[4 * n]
  BY <1>1
<1>4. ASSUME NEW n \in 1 .. N, Len(decoded[n - 1]) <= 3 * (n - 1)
      PROVE  /\ Len(decoded[n]) <= 3 * n
             /\ \/ Len(decoded[n]) < 3 * (n - 1)
                \/ Len(decoded[n]) = 3 * (n - 1) + (IF text[4 * n - 1] = Pad THEN 1
                                                   ELSE IF text[4 * n] = Pad THEN 2 ELSE 3)
  <2> DEFINE data == decoded[n - 1]
             block == Block(SubSeq(text, 4 * n - 3, 4 * n))
  <2>1. data \in Seq(Bytes) /\ decoded[n] = Extended(data, n, text)
    BY <1>2
  <2>2. /\ block \in Seq(Bytes)
        /\ Len(block) = IF text[4 * n - 1] = Pad THEN 1 ELSE IF text[4 * n] = Pad THEN 2 ELSE 3
    BY <1>3, BlockTyped
  <2>3. decoded[n] = IF Len(data) < 3 * (n - 1) THEN data ELSE data \o block
    BY <2>1 DEF Extended
  <2>4. Len(data) <= 3 * (n - 1)
    BY <1>4
  <2> DEFINE w == IF text[4 * n - 1] = Pad THEN 1 ELSE IF text[4 * n] = Pad THEN 2 ELSE 3
  <2>5. Len(block) = w
    BY <2>2
  <2>6. w \in 1 .. 3
    OBVIOUS
  <2> HIDE DEF data, block, w
  <2>7. CASE Len(data) < 3 * (n - 1)
    BY <1>1, <2>1, <2>3, <2>7
  <2>8. CASE Len(data) = 3 * (n - 1)
    <3>1. decoded[n] = data \o block
      BY <2>3, <2>8
    <3>2. data \in Seq(Bytes) /\ block \in Seq(Bytes)
      BY <2>1, <2>2
    <3>3. Len(data \o block) = Len(data) + Len(block)
      BY <3>2
    <3> QED
      BY <1>1, <2>5, <2>6, <2>8, <3>1, <3>3 DEF w
  <2> QED
    BY <1>1, <2>1, <2>4, <2>7, <2>8
<1>5. Len(decoded[N - 1]) <= 3 * (N - 1)
  <2> DEFINE D == {n \in 0 .. N : Len(decoded[n]) <= 3 * n}
  <2>1. 0 \in D
    BY <1>1, <1>2
  <2>2. ASSUME NEW n \in 0 .. N - 1, n \in D PROVE n + 1 \in D
    <3> DEFINE i == n + 1
    <3>1. i \in 1 .. N /\ i - 1 = n /\ i \in 0 .. N
      BY <1>1
    <3>2. Len(decoded[i - 1]) <= 3 * (i - 1)
      BY <2>2, <3>1
    <3> HIDE DEF i
    <3>3. Len(decoded[i]) <= 3 * i
      BY <1>4, <3>1, <3>2
    <3> QED
      BY <3>1, <3>3 DEF i
  <2> HIDE DEF D
  <2>3. N - 1 \in 0 .. N
    BY <1>1
  <2>4. N - 1 \in D
    BY <1>1, <2>1, <2>2, <2>3, InductionUpTo DEF IsInductive
  <2> QED
    BY <2>4 DEF D
<1>6. \/ Len(decoded[N]) < 3 * (N - 1)
      \/ Len(decoded[N]) = 3 * (N - 1) + (IF text[4 * N - 1] = Pad THEN 1
                                         ELSE IF text[4 * N] = Pad THEN 2 ELSE 3)
  <2>1. N \in 1 .. N
    BY <1>1
  <2> QED
    BY <1>4, <1>5, <2>1
<1>7. DecodedSize(text) = 3 * N - (IF text[4 * N] = Pad THEN 1 ELSE 0)
                                - (IF text[4 * N - 1] = Pad THEN 1 ELSE 0)
  BY <1>1 DEF DecodedSize, Last
<1>8. Len(decoded[N]) \in Nat
  <2> DEFINE data == decoded[N - 1]
             block == Block(SubSeq(text, 4 * N - 3, 4 * N))
  <2>1. N \in 1 .. N
    BY <1>1
  <2>2. data \in Seq(Bytes) /\ decoded[N] = Extended(data, N, text)
    BY <1>2, <2>1
  <2>3. Extended(data, N, text) \in Seq(Bytes)
    BY <2>1, <2>2, ExtendedTyped DEF N
  <2> QED
    BY <2>2, <2>3
<1> DEFINE p == IF text[4 * N] = Pad THEN 1 ELSE 0
           q == IF text[4 * N - 1] = Pad THEN 1 ELSE 0
           w == IF text[4 * N - 1] = Pad THEN 1 ELSE IF text[4 * N] = Pad THEN 2 ELSE 3
<1>9. p \in 0 .. 1 /\ q \in 0 .. 1 /\ w \in 1 .. 3 /\ w <= 3 - p - q
  OBVIOUS
<1>10. /\ DecodedSize(text) = 3 * N - p - q
       /\ Len(decoded[N]) < 3 * (N - 1) \/ Len(decoded[N]) = 3 * (N - 1) + w
  BY <1>6, <1>7
<1> HIDE DEF p, q, w
<1> QED
  BY <1>1, <1>2, <1>8, <1>9, <1>10

(* base64_decode_ writes no more bytes than base64_decoded_size has        *)
(* promised, for every text of whole blocks, wherever "=" stands in it.    *)
THEOREM DecodingFits == Spec => []DecodedFits
<1>1. InputTyped => DecodedFits
  BY DecodeFits DEF DecodedFits, InputTyped
<1> QED
  BY <1>1, InputAlways, PTL

\* Concatenation, piece by piece.
LEMMA FlattenSteps ==
  ASSUME NEW S, NEW pieces \in Seq(Seq(S)), pieces # <<>>
  PROVE  \E flat :
           /\ FlattenSeq(pieces) = flat[Len(pieces)]
           /\ \A n \in 0 .. Len(pieces) : flat[n] \in Seq(S)
           /\ flat[0] = <<>>
           /\ \A n \in 1 .. Len(pieces) : flat[n] = flat[n - 1] \o pieces[n]
<1> DEFINE N == Len(pieces)
           T == Seq(S)
           step == [n \in 1 .. N |-> [s \in T |-> s \o pieces[n]]]
           Body(g, n) == IF n = 1 THEN pieces[n] ELSE g[n - 1] \o pieces[n]
           IsFlat(g) == g = [n \in 1 .. N |-> Body(g, n)]
           flat == CHOOSE g : IsFlat(g)
<1>1. N \in Nat \ {0} /\ <<>> \in T /\ \A n \in 1 .. N : pieces[n] \in T
  OBVIOUS
<1>2. IsStep(step, N, T)
  <2>1. \A n \in 1 .. N : \A s \in T : s \o pieces[n] \in T
    BY <1>1
  <2> HIDE DEF T, N
  <2> QED
    BY <2>1 DEF IsStep
<1>3. PICK f : f \in [0 .. N -> T] /\ Follows(f, N, <<>>, step)
  <2> HIDE DEF N, step, T
  <2> QED
    BY <1>1, <1>2, RecursionUpTo
<1>4. ASSUME NEW n \in 1 .. N
      PROVE  f[n - 1] \in T /\ f[n] = f[n - 1] \o pieces[n]
  <2>1. f[n - 1] \in T
    <3> HIDE DEF N, step, T
    <3> QED
      BY <1>1, <1>3
  <2> HIDE DEF T
  <2> QED
    BY <1>3, <2>1 DEF Follows
<1> DEFINE h == [n \in 1 .. N |-> f[n]]
<1>5. IsFlat(h)
  <2>1. ASSUME NEW n \in 1 .. N PROVE h[n] = Body(h, n)
    <3>1. CASE n = 1
      <4>1. f[0] = <<>> /\ f[1] = f[0] \o pieces[1]
        <5>1. f[n] = f[n - 1] \o pieces[n]
          BY <1>4
        <5>2. n - 1 = 0
          BY <3>1
        <5> HIDE DEF h, N
        <5> QED
          BY <1>3, <3>1, <5>1, <5>2 DEF Follows
      <4>2. pieces[1] \in Seq(S)
        BY <3>1
      <4>3. f[1] = pieces[1]
        BY <4>1, <4>2
      <4> QED
        BY <3>1, <4>3
    <3>2. CASE n # 1
      <4>1. n - 1 \in 1 .. N
        BY <1>1, <3>2
      <4>2. h[n - 1] = f[n - 1] /\ h[n] = f[n]
        BY <4>1
      <4> HIDE DEF h
      <4> QED
        BY <1>4, <3>2, <4>2
    <3> QED
      BY <3>1, <3>2
  <2> HIDE DEF Body
  <2> QED
    BY <2>1
<1>6. IsFlat(flat)
  <2> HIDE DEF IsFlat
  <2> QED
    BY <1>5
<1>7. FlattenSeq(pieces) = flat[N]
  <2>1. FlattenSeq(pieces) = IF N = 0 THEN pieces ELSE flat[N]
    BY DEF FlattenSeq
  <2> HIDE DEF flat, N
  <2> QED
    BY <1>1, <2>1
<1> HIDE DEF flat, h, step
<1>8. \A n \in 1 .. N : flat[n] = Body(flat, n)
  <2> HIDE DEF Body, N
  <2> QED
    BY <1>6, Zenon
<1>9. \A n \in 1 .. N : flat[n] = f[n]
  <2> DEFINE D == {n \in 0 .. N : n = 0 \/ flat[n] = f[n]}
  <2>1. 0 \in D
    BY <1>1
  <2>2. ASSUME NEW n \in 0 .. N - 1, n \in D PROVE n + 1 \in D
    <3> DEFINE i == n + 1
    <3>1. i \in 1 .. N /\ i - 1 = n /\ i \in 0 .. N
      BY <1>1
    <3> HIDE DEF i, N
    <3>2. f[i] = f[i - 1] \o pieces[i] /\ flat[i] = Body(flat, i)
      BY <1>4, <1>8, <3>1
    <3>3. CASE i = 1
      <4>1. f[0] = <<>> /\ pieces[1] \in Seq(S)
        BY <1>1, <1>3, <3>1, <3>3 DEF Follows
      <4>2. f[i] = f[0] \o pieces[1] /\ flat[i] = pieces[1]
        BY <3>2, <3>3
      <4>3. f[0] \o pieces[1] = pieces[1]
        BY <4>1
      <4> QED
        BY <3>1, <4>2, <4>3 DEF i
    <3>4. CASE i # 1
      <4>1. n # 0 /\ flat[n] = f[n]
        BY <2>2, <3>1, <3>4
      <4> QED
        BY <3>1, <3>2, <3>4, <4>1 DEF i
    <3> QED
      BY <3>3, <3>4
  <2> HIDE DEF D, N
  <2>3. \A n \in 0 .. N : n \in D
    BY <1>1, <2>1, <2>2, InductionUpTo DEF IsInductive
  <2> QED
    BY <1>1, <2>3 DEF D
<1>10. FlattenSeq(pieces) = f[N]
  <2> HIDE DEF N
  <2> QED
    BY <1>1, <1>7, <1>9
<1>11. /\ \A n \in 0 .. N : f[n] \in T
       /\ f[0] = <<>>
       /\ \A n \in 1 .. N : f[n] = f[n - 1] \o pieces[n]
  <2> HIDE DEF N, T
  <2> QED
    BY <1>3, <1>4 DEF Follows
<1> QED
  BY <1>10, <1>11

LEMMA Concatenated ==
  ASSUME NEW S, NEW s \in Seq(S), NEW t \in Seq(S)
  PROVE  /\ Len(s \o t) = Len(s) + Len(t)
         /\ \A k \in 1 .. Len(s) : (s \o t)[k] = s[k]
         /\ \A k \in 1 .. Len(t) : (s \o t)[Len(s) + k] = t[k]
OBVIOUS

\* One more piece.
Fours(s, n) == Len(s) = 4 * n
Extends(u, s, t, n) == /\ Fours(u, n + 1)
                       /\ \A k \in 1 .. 4 : u[4 * n + k] = t[k]
                       /\ \A k \in 1 .. 4 * n : u[k] = s[k]

LEMMA Joined ==
  ASSUME NEW S, NEW s \in Seq(S), NEW t \in Seq(S), NEW n \in Nat, Fours(s, n), Fours(t, 1)
  PROVE  Extends(s \o t, s, t, n)
<1>1. /\ Len(s \o t) = Len(s) + Len(t)
      /\ \A k \in 1 .. Len(s) : (s \o t)[k] = s[k]
      /\ \A k \in 1 .. Len(t) : (s \o t)[Len(s) + k] = t[k]
  OBVIOUS
<1> DEFINE u == s \o t
<1> HIDE DEF u
<1>2. Extends(u, s, t, n)
  BY <1>1 DEF u, Fours, Extends
<1> QED
  BY <1>2 DEF u

\* Pieces of four.
LEMMA FlattenFours ==
  ASSUME NEW S, NEW pieces \in Seq(Seq(S)), pieces # <<>>,
         \A n \in 1 .. Len(pieces) : Len(pieces[n]) = 4
  PROVE  /\ FlattenSeq(pieces) \in Seq(S) /\ Len(FlattenSeq(pieces)) = 4 * Len(pieces)
         /\ \A n \in 1 .. Len(pieces) :
              SubSeq(FlattenSeq(pieces), 4 * n - 3, 4 * n) = pieces[n]
<1> DEFINE N == Len(pieces)
<1>1. PICK flat :
        /\ FlattenSeq(pieces) = flat[N]
        /\ \A n \in 0 .. N : flat[n] \in Seq(S)
        /\ flat[0] = <<>>
        /\ \A n \in 1 .. N : flat[n] = flat[n - 1] \o pieces[n]
  BY FlattenSteps
<1>2. N \in Nat \ {0} /\ \A n \in 1 .. N : pieces[n] \in Seq(S) /\ Len(pieces[n]) = 4
  OBVIOUS
<1> HIDE DEF N
<1> DEFINE Laid(n) == /\ Len(flat[n]) = 4 * n
                      /\ \A m \in 1 .. n : \A k \in 1 .. 4 : flat[n][4 * m - 4 + k] = pieces[m][k]
           D == {n \in 0 .. N : Laid(n)}
<1>3. 0 \in D
  BY <1>1, <1>2
<1>4. ASSUME NEW n \in 0 .. N - 1, n \in D PROVE n + 1 \in D
  <2> DEFINE i == n + 1
  <2>1. i \in 1 .. N /\ i - 1 = n /\ i \in 0 .. N
    BY <1>2
  <2>2. n \in Nat /\ flat[n] \in Seq(S) /\ Len(flat[n]) = 4 * n
    <3>1. n \in Nat /\ n \in 0 .. N
      BY <1>2
    <3>2. Laid(n)
      BY <1>4
    <3> HIDE DEF D
    <3> QED
      BY <1>1, <3>1, <3>2
  <2> HIDE DEF i
  <2>3. pieces[i] \in Seq(S) /\ Fours(pieces[i], 1) /\ Fours(flat[n], n)
    BY <1>2, <2>1, <2>2 DEF Fours
  <2>6. /\ Fours(flat[i], n + 1)
        /\ \A k \in 1 .. 4 : flat[i][4 * n + k] = pieces[i][k]
        /\ \A k \in 1 .. 4 * n : flat[i][k] = flat[n][k]
    <3>1. n \in Nat /\ flat[n] \in Seq(S) /\ flat[i] = flat[n] \o pieces[i]
      BY <1>1, <2>1, <2>2
    <3>2. Extends(flat[i], flat[n], pieces[i], n)
      <4> HIDE DEF D
      <4> QED
        BY <2>3, <3>1, Joined
    <3> QED
      BY <3>2 DEF Extends
  <2>4. ASSUME NEW m \in 1 .. i, NEW k \in 1 .. 4 PROVE flat[i][4 * m - 4 + k] = pieces[m][k]
    <3>1. CASE m = i
      <4>1. 4 * m - 4 + k = 4 * n + k
        BY <2>2, <3>1 DEF i
      <4> QED
        BY <2>6, <3>1, <4>1
    <3>2. CASE m # i
      <4>1. m \in 1 .. n /\ 4 * m - 4 + k \in 1 .. 4 * n
        BY <2>2, <3>2 DEF i
      <4>2. flat[n][4 * m - 4 + k] = pieces[m][k]
        BY <1>4, <4>1
      <4> QED
        BY <2>6, <4>1, <4>2
    <3> QED
      BY <3>1, <3>2
  <2>5. Len(flat[i]) = 4 * i
    BY <2>6 DEF i, Fours
  <2> QED
    BY <2>1, <2>4, <2>5 DEF i
<1> HIDE DEF D
<1>5. N \in D
  BY <1>2, <1>3, <1>4, InductionUpTo DEF IsInductive
<1>6. Laid(N) /\ flat[N] \in Seq(S)
  BY <1>1, <1>2, <1>5 DEF D
<1> DEFINE text == FlattenSeq(pieces)
<1>7. text \in Seq(S) /\ Len(text) = 4 * N
  BY <1>1, <1>6
<1>8. ASSUME NEW n \in 1 .. N PROVE SubSeq(text, 4 * n - 3, 4 * n) = pieces[n]
  <2> DEFINE part == SubSeq(text, 4 * n - 3, 4 * n)
  <2>0. \A k \in 1 .. 4 : text[4 * n - 4 + k] = pieces[n][k]
    BY <1>1, <1>6
  <2> HIDE DEF text
  <2>1. part \in Seq(S) /\ Len(part) = 4
    BY <1>2, <1>7
  <2>2. \A k \in 1 .. 4 : part[k] = text[4 * n - 4 + k]
    BY <1>2, <1>7
  <2>3. \A k \in 1 .. 4 : part[k] = pieces[n][k]
    BY <2>0, <2>2
  <2>4. pieces[n] \in Seq(S) /\ Len(pieces[n]) = 4
    BY <1>2
  <2> HIDE DEF part
  <2>5. part = pieces[n]
    BY <2>1, <2>3, <2>4, SeqEqual
  <2> QED
    BY <2>5 DEF part
<1> QED
  BY <1>7, <1>8 DEF N

\* A block of three bytes, of which the last block may have less, as four
\* characters.
ByteAt(data, i) == IF i <= Len(data) THEN data[i] ELSE 0
Digits(data, i) ==
  << ByteAt(data, i) \div 4,
     (ByteAt(data, i) % 4) * 16 + ByteAt(data, i + 1) \div 16,
     (ByteAt(data, i + 1) % 16) * 4 + ByteAt(data, i + 2) \div 64,
     ByteAt(data, i + 2) % 64 >>
Letters(data, i) ==
  [k \in 1 .. 4 |-> IF i + k - 2 <= Len(data) THEN EncodeChar(Digits(data, i)[k]) ELSE Pad]
BlockEnd(data, i) == IF i + 2 <= Len(data) THEN i + 2 ELSE Len(data)

LEMMA CharRoundTrip ==
  ASSUME NEW n \in 0 .. 63
  PROVE  EncodeChar(n) \in Nat /\ EncodeChar(n) # Pad /\ DecodeChar(EncodeChar(n)) = n
<1>1. CASE n < 26
  BY <1>1 DEF EncodeChar, DecodeChar, Pad
<1>2. CASE n >= 26 /\ n < 52
  BY <1>2 DEF EncodeChar, DecodeChar, Pad
<1>3. CASE n >= 52 /\ n < 62
  BY <1>3 DEF EncodeChar, DecodeChar, Pad
<1>4. CASE n >= 62
  BY <1>4 DEF EncodeChar, DecodeChar, Pad
<1> QED
  BY <1>1, <1>2, <1>3, <1>4

\* The bits of three bytes, six by six and again eight by eight.
LEMMA BitsRoundTrip ==
  ASSUME NEW x \in Bytes, NEW y \in Bytes, NEW z \in Bytes,
         NEW v1, NEW v2, NEW v3, NEW v4,
         v1 = x \div 4, v2 = (x % 4) * 16 + y \div 16,
         v3 = (y % 16) * 4 + z \div 64, v4 = z % 64
  PROVE  /\ v1 \in 0 .. 63 /\ v2 \in 0 .. 63 /\ v3 \in 0 .. 63 /\ v4 \in 0 .. 63
         /\ (v1 * 4 + v2 \div 16) % 256 = x
         /\ ((v2 % 16) * 16 + v3 \div 4) % 256 = y
         /\ ((v3 % 4) * 64 + v4) % 256 = z
<1>1. PICK x1 \in 0 .. 63, x2 \in 0 .. 3 : x = 4 * x1 + x2 /\ x \div 4 = x1 /\ x % 4 = x2
  BY DEF Bytes
<1>2. PICK y1 \in 0 .. 15, y2 \in 0 .. 15 : y = 16 * y1 + y2 /\ y \div 16 = y1 /\ y % 16 = y2
  BY DEF Bytes
<1>3. PICK z1 \in 0 .. 3, z2 \in 0 .. 63 : z = 64 * z1 + z2 /\ z \div 64 = z1 /\ z % 64 = z2
  BY DEF Bytes
<1>4. v1 = x1 /\ v2 = 16 * x2 + y1 /\ v3 = 4 * y2 + z1 /\ v4 = z2
  BY <1>1, <1>2, <1>3
<1>5. v2 \div 16 = x2 /\ v2 % 16 = y1
  BY <1>4
<1>6. v3 \div 4 = y2 /\ v3 % 4 = z1
  BY <1>4
<1>7. v1 \in 0 .. 63 /\ v2 \in 0 .. 63 /\ v3 \in 0 .. 63 /\ v4 \in 0 .. 63
  BY <1>4
<1>8. (v1 * 4 + v2 \div 16) % 256 = x
  <2>1. v1 * 4 + v2 \div 16 = x
    BY <1>1, <1>4, <1>5
  <2> QED
    BY <2>1 DEF Bytes
<1>9. ((v2 % 16) * 16 + v3 \div 4) % 256 = y
  <2>1. (v2 % 16) * 16 + v3 \div 4 = y
    BY <1>2, <1>5, <1>6
  <2> QED
    BY <2>1 DEF Bytes
<1>10. ((v3 % 4) * 64 + v4) % 256 = z
  <2>1. (v3 % 4) * 64 + v4 = z
    BY <1>3, <1>4, <1>6
  <2> QED
    BY <2>1 DEF Bytes
<1> QED
  BY <1>7, <1>8, <1>9, <1>10

LEMMA BlockRoundTrip ==
  ASSUME NEW data \in Seq(Bytes), NEW i \in 1 .. Len(data)
  PROVE  /\ Letters(data, i) \in Seq(Nat) /\ Len(Letters(data, i)) = 4
         /\ Letters(data, i)[3] = Pad <=> i + 1 > Len(data)
         /\ Letters(data, i)[4] = Pad <=> i + 2 > Len(data)
         /\ Block(Letters(data, i)) = SubSeq(data, i, BlockEnd(data, i))
<1> DEFINE x == ByteAt(data, i)
           y == ByteAt(data, i + 1)
           z == ByteAt(data, i + 2)
           d1 == x \div 4
           d2 == (x % 4) * 16 + y \div 16
           d3 == (y % 16) * 4 + z \div 64
           d4 == z % 64
           L == Len(data)
           letters == Letters(data, i)
<1>1. x \in Bytes /\ y \in Bytes /\ z \in Bytes /\ x = data[i] /\ i \in Nat /\ L \in Nat /\ i <= L
  <2>1. i \in Nat /\ L \in Nat /\ i <= L
    OBVIOUS
  <2>2. ASSUME NEW j \in Nat \ {0} PROVE ByteAt(data, j) \in Bytes
    <3>1. CASE j <= Len(data)
      <4>1. data[j] \in Bytes
        BY <3>1
      <4> QED
        BY <3>1, <4>1 DEF ByteAt
    <3>2. CASE ~(j <= Len(data))
      BY <3>2 DEF ByteAt, Bytes
    <3> QED
      BY <3>1, <3>2
  <2>3. x = data[i]
    BY DEF ByteAt
  <2> QED
    BY <2>1, <2>2, <2>3
<1>2. (i + 1 <= L => y = data[i + 1]) /\ (i + 2 <= L => z = data[i + 2])
  BY DEF ByteAt
<1>3. /\ letters[1] = IF i + 1 - 2 <= L THEN EncodeChar(d1) ELSE Pad
      /\ letters[2] = IF i + 2 - 2 <= L THEN EncodeChar(d2) ELSE Pad
      /\ letters[3] = IF i + 3 - 2 <= L THEN EncodeChar(d3) ELSE Pad
      /\ letters[4] = IF i + 4 - 2 <= L THEN EncodeChar(d4) ELSE Pad
      /\ DOMAIN letters = 1 .. 4
  BY DEF Letters, Digits
<1>4. letters = [k \in 1 .. 4 |-> letters[k]]
  BY DEF Letters
<1> HIDE DEF x, y, z, letters, L
<1>5. /\ d1 \in 0 .. 63 /\ d2 \in 0 .. 63 /\ d3 \in 0 .. 63 /\ d4 \in 0 .. 63
      /\ (d1 * 4 + d2 \div 16) % 256 = x
      /\ ((d2 % 16) * 16 + d3 \div 4) % 256 = y
      /\ ((d3 % 4) * 64 + d4) % 256 = z
  BY <1>1, BitsRoundTrip
<1> HIDE DEF d1, d2, d3, d4
<1>6. /\ letters[1] = EncodeChar(d1) /\ letters[2] = EncodeChar(d2)
      /\ letters[3] = IF i + 1 <= L THEN EncodeChar(d3) ELSE Pad
      /\ letters[4] = IF i + 2 <= L THEN EncodeChar(d4) ELSE Pad
  BY <1>1, <1>3
<1>19. /\ EncodeChar(d1) \in Nat /\ DecodeChar(EncodeChar(d1)) = d1
       /\ EncodeChar(d2) \in Nat /\ DecodeChar(EncodeChar(d2)) = d2
       /\ EncodeChar(d3) \in Nat /\ EncodeChar(d3) # Pad /\ DecodeChar(EncodeChar(d3)) = d3
       /\ EncodeChar(d4) \in Nat /\ EncodeChar(d4) # Pad /\ DecodeChar(EncodeChar(d4)) = d4
  BY <1>5, CharRoundTrip
<1>7. letters[1] \in Nat /\ letters[2] \in Nat /\ letters[3] \in Nat /\ letters[4] \in Nat
  BY <1>6, <1>19 DEF Pad
<1>8. letters \in Seq(Nat) /\ Len(letters) = 4
  <2>1. \A k \in 1 .. 4 : letters[k] \in Nat
    BY <1>7
  <2> QED
    BY <1>4, <2>1
<1>9. (letters[3] = Pad <=> i + 1 > L) /\ (letters[4] = Pad <=> i + 2 > L)
  <2>1. /\ i + 1 > L <=> ~(i + 1 <= L)
        /\ i + 2 > L <=> ~(i + 2 <= L)
    BY <1>1
  <2> QED
    BY <1>6, <1>19, <2>1
<1> DEFINE v == [k \in 1 .. 4 |-> DecodeChar(letters[k])]
           b1 == (v[1] * 4 + v[2] \div 16) % 256
           b2 == ((v[2] % 16) * 16 + v[3] \div 4) % 256
           b3 == ((v[3] % 4) * 64 + v[4]) % 256
           n == IF v[3] = 64 THEN 1 ELSE IF v[4] = 64 THEN 2 ELSE 3
<1>10. Block(letters) = SubSeq(<<b1, b2, b3>>, 1, n)
  BY DEF Block
<1>11. /\ v[1] = d1 /\ v[2] = d2
       /\ v[3] = IF i + 1 <= L THEN d3 ELSE 64
       /\ v[4] = IF i + 2 <= L THEN d4 ELSE 64
  <2>1. /\ v[1] = DecodeChar(letters[1]) /\ v[2] = DecodeChar(letters[2])
        /\ v[3] = DecodeChar(letters[3]) /\ v[4] = DecodeChar(letters[4])
    OBVIOUS
  <2>2. DecodeChar(Pad) = 64
    BY DecodedChar
  <2> HIDE DEF v
  <2> QED
    BY <1>6, <1>19, <2>1, <2>2
<1> HIDE DEF v
<1>12. b1 = x /\ (i + 1 <= L => b2 = y) /\ (i + 2 <= L => b3 = z)
  <2>1. b1 = x
    BY <1>5, <1>11
  <2>2. i + 1 <= L => b2 = y
    BY <1>5, <1>11
  <2>3. i + 2 <= L => b3 = z
    <3>1. i + 2 <= L => i + 1 <= L
      BY <1>1
    <3> QED
      BY <1>5, <1>11, <3>1
  <2> QED
    BY <2>1, <2>2, <2>3
<1>13. n = IF i + 1 > L THEN 1 ELSE IF i + 2 > L THEN 2 ELSE 3
  <2>1. (v[3] = 64 <=> i + 1 > L) /\ (v[4] = 64 <=> i + 2 > L)
    <3>1. v[3] = 64 <=> i + 1 > L
      BY <1>1, <1>5, <1>11
    <3>2. v[4] = 64 <=> i + 2 > L
      BY <1>1, <1>5, <1>11
    <3> QED
      BY <3>1, <3>2
  <2> QED
    BY <2>1
<1> HIDE DEF b1, b2, b3, n
<1>14. BlockEnd(data, i) = i + n - 1 /\ n \in 1 .. 3
  BY <1>1, <1>13 DEF BlockEnd, L
<1> DEFINE part == SubSeq(data, i, i + n - 1)
           bytes == SubSeq(<<b1, b2, b3>>, 1, n)
<1>15. Len(part) = n /\ part \in Seq(Bytes) /\ \A k \in 1 .. n : part[k] = data[i + k - 1]
  BY <1>1, <1>13, <1>14 DEF L
<1>16. Len(bytes) = n /\ \A k \in 1 .. n : bytes[k] = <<b1, b2, b3>>[k]
  BY <1>14
<1>17. \A k \in 1 .. n : bytes[k] = part[k]
  <2> SUFFICES ASSUME NEW k \in 1 .. n PROVE <<b1, b2, b3>>[k] = data[i + k - 1]
    BY <1>15, <1>16
  <2>1. CASE k = 1
    BY <1>1, <1>12, <2>1
  <2>2. CASE k = 2
    BY <1>1, <1>2, <1>12, <1>13, <2>2
  <2>3. CASE k = 3
    BY <1>1, <1>2, <1>12, <1>13, <2>3
  <2> QED
    BY <1>14, <2>1, <2>2, <2>3
<1>18. bytes = part
  <2>1. bytes \in Seq(Bytes)
    BY <1>8, <1>10, BlockTyped
  <2> HIDE DEF bytes, part
  <2> QED
    BY <1>15, <1>16, <1>17, <2>1, SeqEqual
<1> QED
  BY <1>8, <1>9, <1>10, <1>14, <1>18 DEF letters, L

LEMMA EncodeBlocks ==
  ASSUME NEW data \in Seq(Bytes), data # <<>>
  PROVE  /\ Encode(data) \in Seq(Nat) /\ Len(Encode(data)) = 4 * ((Len(data) + 2) \div 3)
         /\ \A b \in 1 .. (Len(data) + 2) \div 3 :
              SubSeq(Encode(data), 4 * b - 3, 4 * b) = Letters(data, 3 * b - 2)
<1> DEFINE N == (Len(data) + 2) \div 3
           pieces == [b \in 1 .. N |-> Letters(data, 3 * b - 2)]
<1>1. Encode(data) = FlattenSeq(pieces)
  BY DEF Encode, Letters, Digits, ByteAt
<1>2. N \in Nat \ {0} /\ \A b \in 1 .. N : 3 * b - 2 \in 1 .. Len(data)
  OBVIOUS
<1>3. \A b \in 1 .. N : /\ Letters(data, 3 * b - 2) \in Seq(Nat)
                        /\ Len(Letters(data, 3 * b - 2)) = 4
  BY <1>2, BlockRoundTrip
<1> HIDE DEF N
<1>4. pieces \in Seq(Seq(Nat)) /\ Len(pieces) = N /\ pieces # <<>>
  BY <1>2, <1>3
<1>5. \A b \in 1 .. N : pieces[b] = Letters(data, 3 * b - 2) /\ Len(pieces[b]) = 4
  BY <1>3
<1> HIDE DEF pieces
<1> DEFINE text == FlattenSeq(pieces)
<1>6. /\ text \in Seq(Nat) /\ Len(text) = 4 * Len(pieces)
      /\ \A b \in 1 .. Len(pieces) : SubSeq(text, 4 * b - 3, 4 * b) = pieces[b]
  BY <1>4, <1>5, FlattenFours
<1> HIDE DEF text
<1> QED
  BY <1>1, <1>4, <1>5, <1>6 DEF N, text

LEMMA SplitInTwo ==
  ASSUME NEW S, NEW s \in Seq(S), NEW m \in 0 .. Len(s), NEW n \in m .. Len(s)
  PROVE  SubSeq(s, 1, m) \o SubSeq(s, m + 1, n) = SubSeq(s, 1, n)
<1> DEFINE a == SubSeq(s, 1, m)
           b == SubSeq(s, m + 1, n)
           c == SubSeq(s, 1, n)
<1>1. /\ a \in Seq(S) /\ Len(a) = m /\ b \in Seq(S) /\ Len(b) = n - m
      /\ c \in Seq(S) /\ Len(c) = n
  OBVIOUS
<1>2. /\ \A k \in 1 .. m : a[k] = s[k]
      /\ \A k \in 1 .. n - m : b[k] = s[m + k]
      /\ \A k \in 1 .. n : c[k] = s[k]
  OBVIOUS
<1> HIDE DEF a, b, c
<1> DEFINE d == a \o b
<1>3. d \in Seq(S) /\ Len(d) = n
  BY <1>1
<1>4. \A k \in 1 .. n : d[k] = IF k <= m THEN a[k] ELSE b[k - m]
  BY <1>1
<1> HIDE DEF d
<1>5. ASSUME NEW k \in 1 .. n PROVE d[k] = c[k]
  <2>1. CASE k <= m
    BY <1>2, <1>4, <2>1
  <2>2. CASE ~(k <= m)
    <3>1. k - m \in 1 .. n - m /\ m + (k - m) = k
      BY <2>2
    <3> QED
      BY <1>2, <1>4, <2>2, <3>1
  <2> QED
    BY <2>1, <2>2
<1>6. d = c
  BY <1>1, <1>3, <1>5, SeqEqual
<1> QED
  BY <1>6 DEF a, b, c, d

LEMMA EncodedIsDecoded ==
  ASSUME NEW data \in Seq(Bytes), data # <<>>
  PROVE  /\ Len(Encode(data)) = EncodedSize(Len(data))
         /\ DecodedSize(Encode(data)) = Len(data)
         /\ Decode(Encode(data)) = data
<1> DEFINE text == Encode(data)
           N == (Len(data) + 2) \div 3
           L == Len(data)
           upto(n) == IF 3 * n <= L THEN 3 * n ELSE L
<1>1. /\ text \in Seq(Nat) /\ Len(text) = 4 * N
      /\ \A b \in 1 .. N : SubSeq(text, 4 * b - 3, 4 * b) = Letters(data, 3 * b - 2)
  BY EncodeBlocks
<1>2. /\ L \in Nat /\ N \in Nat \ {0} /\ 3 * (N - 1) < L /\ L <= 3 * N
      /\ data = SubSeq(data, 1, L)
  OBVIOUS
<1>3. Len(text) = EncodedSize(L)
  BY <1>1 DEF EncodedSize
<1> HIDE DEF text, N, L
<1>4. ASSUME NEW b \in 1 .. N
      PROVE  /\ 3 * b - 2 \in 1 .. Len(data)
             /\ BlockEnd(data, 3 * b - 2) = upto(b)
             /\ Block(SubSeq(text, 4 * b - 3, 4 * b)) = SubSeq(data, 3 * b - 2, upto(b))
  <2>1. 3 * b - 2 \in 1 .. Len(data)
    BY <1>2 DEF L
  <2>2. BlockEnd(data, 3 * b - 2) = upto(b)
    BY <1>2 DEF L, BlockEnd
  <2> QED
    BY <1>1, <2>1, <2>2, BlockRoundTrip
<1>5. PICK decoded :
        /\ Decode(text) = decoded[Len(text) \div 4]
        /\ decoded[0] = <<>>
        /\ \A n \in 1 .. Len(text) \div 4 :
             decoded[n - 1] \in Seq(Bytes) /\ decoded[n] = Extended(decoded[n - 1], n, text)
  BY <1>1, DecodeSteps
<1>6. Len(text) \div 4 = N
  BY <1>1, <1>2
<1> DEFINE D == {n \in 0 .. N : decoded[n] = SubSeq(data, 1, upto(n))}
<1>7. 0 \in D
  <2>1. upto(0) = 0 /\ SubSeq(data, 1, 0) = <<>> /\ 0 \in 0 .. N
    BY <1>2
  <2> HIDE DEF upto
  <2> QED
    BY <1>5, <2>1
<1>8. ASSUME NEW n \in 0 .. N - 1, n \in D PROVE n + 1 \in D
  <2> DEFINE i == n + 1
  <2>1. i \in 1 .. N /\ i - 1 = n /\ i \in 0 .. N /\ n \in Nat
    BY <1>2
  <2>2. upto(n) = 3 * n /\ 3 * n \in 0 .. Len(data) /\ upto(i) \in 3 * n .. Len(data)
    BY <1>2, <2>1 DEF L
  <2>3. decoded[n] = SubSeq(data, 1, 3 * n)
    BY <1>8, <2>2
  <2>4. Len(decoded[n]) = 3 * n
    BY <2>2, <2>3
  <2>5. 3 * (i - 1) = 3 * n /\ 3 * i - 2 = 3 * n + 1
    BY <2>1
  <2> HIDE DEF i, upto, D
  <2>6. decoded[i] = Extended(decoded[n], i, text)
    BY <1>5, <1>6, <2>1
  <2>7. Extended(decoded[n], i, text) = decoded[n] \o Block(SubSeq(text, 4 * i - 3, 4 * i))
    <3>1. ~(Len(decoded[n]) < 3 * (i - 1))
      BY <2>1, <2>4, <2>5
    <3> QED
      BY <3>1 DEF Extended
  <2>8. Block(SubSeq(text, 4 * i - 3, 4 * i)) = SubSeq(data, 3 * n + 1, upto(i))
    BY <1>4, <2>1, <2>5
  <2>9. decoded[i] = SubSeq(data, 1, upto(i))
    BY <2>2, <2>3, <2>6, <2>7, <2>8, SplitInTwo
  <2> QED
    BY <2>1, <2>9 DEF i, D
<1> HIDE DEF D
<1>9. N \in D
  BY <1>2, <1>7, <1>8, InductionUpTo DEF IsInductive
<1>10. Decode(text) = data
  <2>1. upto(N) = L
    BY <1>2
  <2> QED
    BY <1>2, <1>5, <1>6, <1>9, <2>1 DEF D
<1>11. DecodedSize(text) = L
  <2> DEFINE letters == Letters(data, 3 * N - 2)
  <2>1. /\ letters[3] = Pad <=> 3 * N - 1 > L
        /\ letters[4] = Pad <=> 3 * N > L
    <3>1. N \in 1 .. N /\ 3 * N - 2 + 1 = 3 * N - 1 /\ 3 * N - 2 + 2 = 3 * N
      BY <1>2
    <3> QED
      BY <1>4, <3>1, BlockRoundTrip DEF L
  <2>2. letters = SubSeq(text, 4 * N - 3, 4 * N)
    BY <1>1, <1>2
  <2> HIDE DEF letters
  <2>3. letters[3] = text[4 * N - 1] /\ letters[4] = text[4 * N]
    BY <1>1, <1>2, <2>2
  <2>4. (Len(text) + 3) \div 4 = N
    BY <1>1, <1>2
  <2>5. DecodedSize(text) = 3 * N - (IF text[4 * N] = Pad THEN 1 ELSE 0)
                                  - (IF text[4 * N - 1] = Pad THEN 1 ELSE 0)
    BY <1>1, <1>2, <2>4 DEF DecodedSize, Last
  <2> QED
    BY <1>2, <2>1, <2>3, <2>5
<1> QED
  BY <1>3, <1>10, <1>11 DEF text, L

(* base64_decode_ gives back what base64_encode_ was given, byte for byte, *)
(* and both sizes are what the other functions have said: for data of any  *)
(* length.                                                                 *)
THEOREM EncodingIsUndone == Spec => []Base64RoundTrip
<1>1. InputTyped => Base64RoundTrip
  <2> SUFFICES ASSUME InputTyped, kind = "bytes", input # <<>>
               PROVE  /\ Len(Encode(input)) = EncodedSize(Len(input))
                      /\ DecodedSize(Encode(input)) = Len(input)
                      /\ Decode(Encode(input)) = input
    BY DEF Base64RoundTrip
  <2>1. input \in Seq(Bytes)
    BY SymbolsAssumption DEF InputTyped, Bytes
  <2> QED
    BY <2>1, EncodedIsDecoded
<1> QED
  BY <1>1, InputAlways, PTL

-----------------------------------------------------------------------------
(* The numbering of accessories, services and characteristics.             *)

Counters == [aid : Nat, iid : Nat, at : Nat, ids : Seq(Nat \X Nat)]

\* A counter passes the id that it gave or found.
LEMMA CounterPasses ==
  ASSUME NEW next \in Nat, NEW id \in Nat
  PROVE  /\ NextAfter(next, id) \in Nat /\ Given(id, next) \in Nat
         /\ next <= NextAfter(next, id) /\ Given(id, next) < NextAfter(next, id)
         /\ id = 0 => Given(id, next) = next
BY DEF NextAfter, Given

LEMMA NumberedTyped ==
  ASSUME NEW s \in Counters, NEW x \in Symbols["ids"]
  PROVE  /\ Numbered(s, x) \in Counters
         /\ Len(Numbered(s, x).ids) = Len(s.ids) + 1
         /\ \A i \in 1 .. Len(s.ids) : Numbered(s, x).ids[i] = s.ids[i]
         /\ Numbered(s, x).ids[Len(s.ids) + 1] =
              IF x.level = "accessory" THEN <<Given(x.id, s.aid), 0>>
              ELSE <<s.at, Given(x.id, s.iid)>>
         /\ x.level = "accessory" => Numbered(s, x).aid = NextAfter(s.aid, x.id)
         /\ x.level # "accessory" => /\ Numbered(s, x).aid = s.aid
                                     /\ Numbered(s, x).iid = NextAfter(s.iid, x.id)
<1> DEFINE t == Numbered(s, x)
           new == IF x.level = "accessory" THEN <<Given(x.id, s.aid), 0>>
                  ELSE <<s.at, Given(x.id, s.iid)>>
<1>1. /\ s.aid \in Nat /\ s.iid \in Nat /\ s.at \in Nat /\ s.ids \in Seq(Nat \X Nat)
      /\ x.id \in Nat
  BY SymbolsAssumption DEF Counters
<1>2. /\ NextAfter(s.aid, x.id) \in Nat /\ Given(x.id, s.aid) \in Nat
      /\ NextAfter(s.iid, x.id) \in Nat /\ Given(x.id, s.iid) \in Nat
  BY <1>1, CounterPasses
<1>3. new \in Nat \X Nat
  BY <1>1, <1>2
<1>4. /\ t.ids = Append(s.ids, new)
      /\ t = [aid |-> t.aid, iid |-> t.iid, at |-> t.at, ids |-> t.ids]
      /\ t.aid \in Nat /\ t.iid \in Nat /\ t.at \in Nat
      /\ x.level = "accessory" => t.aid = NextAfter(s.aid, x.id)
      /\ x.level # "accessory" => t.aid = s.aid /\ t.iid = NextAfter(s.iid, x.id)
  <2>1. CASE x.level = "accessory"
    BY <1>1, <1>2, <2>1 DEF Numbered
  <2>2. CASE x.level # "accessory"
    BY <1>1, <1>2, <2>2 DEF Numbered, Counters
  <2> QED
    BY <2>1, <2>2
<1> HIDE DEF t, new
<1>5. /\ t.ids \in Seq(Nat \X Nat) /\ Len(t.ids) = Len(s.ids) + 1
      /\ \A i \in 1 .. Len(s.ids) : t.ids[i] = s.ids[i]
      /\ t.ids[Len(s.ids) + 1] = new
  BY <1>1, <1>3, <1>4
<1>6. t \in Counters
  BY <1>4, <1>5 DEF Counters
<1> QED
  BY <1>4, <1>5, <1>6 DEF t, new

LEMMA NumberingSteps ==
  ASSUME NEW config \in Seq(Symbols["ids"])
  PROVE  \E after :
           /\ Ids(config) = after[Len(config)].ids
           /\ after[0] = [aid |-> 1, iid |-> 1, at |-> 0, ids |-> <<>>]
           /\ \A n \in 0 .. Len(config) : after[n] \in Counters
           /\ \A n \in 1 .. Len(config) : after[n] = Numbered(after[n - 1], config[n])
<1> DEFINE N == Len(config)
           base == [aid |-> 1, iid |-> 1, at |-> 0, ids |-> <<>>]
           step == [n \in 1 .. N |-> [s \in Counters |-> Numbered(s, config[n])]]
           Body(g, n) == IF n = 0 THEN base ELSE Numbered(g[n - 1], config[n])
           IsAfter(g) == g = [n \in 0 .. N |-> Body(g, n)]
           after == CHOOSE g : IsAfter(g)
<1>1. N \in Nat /\ base \in Counters /\ \A n \in 1 .. N : config[n] \in Symbols["ids"]
  BY DEF Counters
<1>2. IsStep(step, N, Counters)
  <2>1. \A n \in 1 .. N : \A s \in Counters : Numbered(s, config[n]) \in Counters
    BY <1>1, NumberedTyped
  <2> QED
    BY <2>1 DEF IsStep
<1>3. PICK f : f \in [0 .. N -> Counters] /\ Follows(f, N, base, step)
  <2> HIDE DEF N, step, base
  <2> QED
    BY <1>1, <1>2, RecursionUpTo
<1>4. ASSUME NEW n \in 1 .. N
      PROVE  f[n - 1] \in Counters /\ f[n] = Numbered(f[n - 1], config[n])
  <2>1. f[n - 1] \in Counters
    <3> HIDE DEF N, step
    <3> QED
      BY <1>1, <1>3
  <2> QED
    BY <1>3, <2>1 DEF Follows
<1>5. IsAfter(f)
  <2>1. \A n \in 0 .. N : n = 0 \/ (n \in 1 .. N /\ n # 0)
    <3> HIDE DEF N
    <3> QED
      BY <1>1
  <2> HIDE DEF base
  <2>2. \A n \in 0 .. N : f[n] = Body(f, n)
    BY <1>3, <1>4, <2>1 DEF Follows
  <2> HIDE DEF Body
  <2> QED
    BY <1>3, <2>2
<1>6. IsAfter(after)
  <2> HIDE DEF IsAfter
  <2> QED
    BY <1>5
<1>7. Ids(config) = after[N].ids
  BY DEF Ids, Numbering
<1> HIDE DEF after, base, step
<1>8. \A n \in 0 .. N : after[n] = Body(after, n)
  <2> HIDE DEF Body
  <2> QED
    BY <1>6, Zenon
<1>9. 0 \in 0 .. N /\ \A n \in 1 .. N : n \in 0 .. N /\ n # 0
  <2> HIDE DEF N
  <2> QED
    BY <1>1
<1>10. after[0] = base /\ \A n \in 1 .. N : after[n] = Numbered(after[n - 1], config[n])
  BY <1>8, <1>9
<1>11. \A n \in 0 .. N : after[n] \in Counters
  <2> DEFINE D == {n \in 0 .. N : after[n] \in Counters}
  <2>1. 0 \in D
    BY <1>1, <1>9, <1>10
  <2> HIDE DEF N
  <2>2. ASSUME NEW n \in 0 .. N - 1, n \in D PROVE n + 1 \in D
    <3>1. n + 1 \in 1 .. N /\ n + 1 - 1 = n /\ n + 1 \in 0 .. N
      BY <1>1
    <3>2. after[n + 1] = Numbered(after[n], config[n + 1])
      BY <1>10, <3>1
    <3> QED
      BY <1>1, <2>2, <3>1, <3>2, NumberedTyped
  <2> HIDE DEF D
  <2>3. \A n \in 0 .. N : n \in D
    BY <1>1, <2>1, <2>2, InductionUpTo DEF IsInductive
  <2> QED
    BY <2>3 DEF D
<1> QED
  BY <1>7, <1>10, <1>11 DEF base

\* What has been numbered keeps its id, and the counters are past it: the one
\* of accessories for ever, the one of an accessory's objects until the next.
Passed(config, s, n) ==
  /\ Len(s.ids) = n
  /\ \A i \in 1 .. n : config[i].level = "accessory" => s.ids[i][1] < s.aid
  /\ \A i \in 1 .. n :
       (\A k \in i .. n : config[k].level # "accessory") => s.ids[i][2] < s.iid

LEMMA NumberedPassed ==
  ASSUME NEW config \in Seq(Symbols["ids"]), NEW n \in 0 .. Len(config) - 1,
         NEW s \in Counters, Passed(config, s, n)
  PROVE  /\ Passed(config, Numbered(s, config[n + 1]), n + 1)
         /\ \A i \in 1 .. n : Numbered(s, config[n + 1]).ids[i] = s.ids[i]
         /\ Numbered(s, config[n + 1]).ids[n + 1] =
              IF config[n + 1].level = "accessory" THEN <<Given(config[n + 1].id, s.aid), 0>>
              ELSE <<s.at, Given(config[n + 1].id, s.iid)>>
<1> DEFINE t == Numbered(s, config[n + 1])
           x == config[n + 1]
<1>1. n + 1 \in 1 .. Len(config) /\ n \in Nat /\ x \in Symbols["ids"]
  OBVIOUS
<1>2. /\ Len(s.ids) = n /\ s.aid \in Nat /\ s.iid \in Nat /\ s.ids \in Seq(Nat \X Nat)
      /\ x.id \in Nat
  BY <1>1, SymbolsAssumption DEF Passed, Counters
<1>3. /\ t \in Counters /\ Len(t.ids) = n + 1
      /\ \A i \in 1 .. n : t.ids[i] = s.ids[i]
      /\ t.ids[n + 1] = IF x.level = "accessory" THEN <<Given(x.id, s.aid), 0>>
                        ELSE <<s.at, Given(x.id, s.iid)>>
      /\ x.level = "accessory" => t.aid = NextAfter(s.aid, x.id)
      /\ x.level # "accessory" => t.aid = s.aid /\ t.iid = NextAfter(s.iid, x.id)
  BY <1>1, <1>2, NumberedTyped
<1>4. /\ s.aid <= NextAfter(s.aid, x.id) /\ Given(x.id, s.aid) < NextAfter(s.aid, x.id)
      /\ s.iid <= NextAfter(s.iid, x.id) /\ Given(x.id, s.iid) < NextAfter(s.iid, x.id)
      /\ NextAfter(s.aid, x.id) \in Nat /\ NextAfter(s.iid, x.id) \in Nat
  BY <1>2, CounterPasses
<1>5. \A i \in 1 .. n + 1 : i = n + 1 \/ i \in 1 .. n
  BY <1>1
<1>6. \A i \in 1 .. n : s.ids[i][1] \in Nat /\ s.ids[i][2] \in Nat
  <2>1. \A i \in 1 .. n : s.ids[i] \in Nat \X Nat
    BY <1>2
  <2>2. \A p \in Nat \X Nat : p[1] \in Nat /\ p[2] \in Nat
    OBVIOUS
  <2> QED
    BY <2>1, <2>2
<1> HIDE DEF t
<1>7. ASSUME NEW i \in 1 .. n + 1, config[i].level = "accessory"
      PROVE  t.ids[i][1] < t.aid
  <2>1. CASE i = n + 1
    BY <1>3, <1>4, <1>7, <2>1
  <2>2. CASE i \in 1 .. n
    <3>1. s.ids[i][1] < s.aid /\ t.ids[i] = s.ids[i]
      BY <1>3, <1>7, <2>2 DEF Passed
    <3>2. t.aid = s.aid \/ t.aid = NextAfter(s.aid, x.id)
      BY <1>3
    <3>3. \A v \in Nat : v < s.aid => v < t.aid
      BY <1>2, <1>4, <3>2
    <3> QED
      BY <1>6, <2>2, <3>1, <3>3
  <2> QED
    BY <1>5, <2>1, <2>2
<1>8. ASSUME NEW i \in 1 .. n + 1, \A k \in i .. n + 1 : config[k].level # "accessory"
      PROVE  t.ids[i][2] < t.iid
  <2>1. n + 1 \in i .. n + 1 /\ i .. n \subseteq i .. n + 1
    BY <1>1
  <2>2. x.level # "accessory" /\ \A k \in i .. n : config[k].level # "accessory"
    BY <1>8, <2>1
  <2>3. CASE i = n + 1
    BY <1>3, <1>4, <2>2, <2>3
  <2>4. CASE i \in 1 .. n
    <3>1. s.ids[i][2] < s.iid /\ t.ids[i] = s.ids[i] /\ t.iid = NextAfter(s.iid, x.id)
      BY <1>3, <2>2, <2>4 DEF Passed
    <3>2. \A v \in Nat : v < s.iid => v < t.iid
      BY <1>2, <1>4, <3>1
    <3> QED
      BY <1>6, <2>4, <3>1, <3>2
  <2> QED
    BY <1>5, <2>3, <2>4
<1> QED
  BY <1>3, <1>7, <1>8 DEF Passed, t

\* A number that is generated is that of no accessory before, and of nothing
\* before in the same accessory.
LEMMA GeneratedIdIsNew ==
  ASSUME NEW config \in Seq(Symbols["ids"]),
         NEW p \in 1 .. Len(config), NEW q \in p + 1 .. Len(config), config[q].id = 0,
         \/ config[p].level = "accessory" /\ config[q].level = "accessory"
         \/ \A k \in p .. q : config[k].level # "accessory"
  PROVE  Ids(config)[p] # Ids(config)[q]
<1> DEFINE N == Len(config)
<1>1. N \in Nat /\ p \in 1 .. N /\ q \in 1 .. N /\ p < q /\ p \in 1 .. q - 1
  OBVIOUS
<1>2. PICK after :
        /\ Ids(config) = after[N].ids
        /\ after[0] = [aid |-> 1, iid |-> 1, at |-> 0, ids |-> <<>>]
        /\ \A n \in 0 .. N : after[n] \in Counters
        /\ \A n \in 1 .. N : after[n] = Numbered(after[n - 1], config[n])
  BY NumberingSteps
<1> DEFINE D == {n \in 0 .. N : Passed(config, after[n], n)}
           E == {m \in 0 .. N : \A n \in 0 .. m : \A i \in 1 .. n :
                                  after[m].ids[i] = after[n].ids[i]}
<1>3. \A n \in 0 .. N - 1 : /\ n + 1 \in 1 .. N /\ n + 1 \in 0 .. N /\ n \in 0 .. N
                            /\ n + 1 - 1 = n
  BY <1>1
<1>4. \A n \in 0 .. N - 1 : after[n + 1] = Numbered(after[n], config[n + 1])
  BY <1>2, <1>3
<1>5. 0 \in D
  BY <1>1, <1>2 DEF Passed
<1>6. ASSUME NEW n \in 0 .. N - 1, n \in D PROVE n + 1 \in D
  <2>1. Passed(config, Numbered(after[n], config[n + 1]), n + 1)
    BY <1>2, <1>3, <1>6, NumberedPassed
  <2> QED
    BY <1>3, <1>4, <2>1
<1> HIDE DEF N
<1>7. \A n \in 0 .. N : Passed(config, after[n], n)
  <2> HIDE DEF D
  <2>1. \A n \in 0 .. N : n \in D
    BY <1>1, <1>5, <1>6, InductionUpTo DEF IsInductive
  <2> QED
    BY <2>1 DEF D
<1> HIDE DEF D
<1>8. 0 \in E
  BY <1>1
<1>9. ASSUME NEW m \in 0 .. N - 1, m \in E PROVE m + 1 \in E
  <2>1. \A i \in 1 .. m : after[m + 1].ids[i] = after[m].ids[i]
    <3>1. Passed(config, after[m], m) /\ after[m] \in Counters /\ m \in 0 .. Len(config) - 1
      BY <1>2, <1>3, <1>7 DEF N
    <3>2. \A i \in 1 .. m : Numbered(after[m], config[m + 1]).ids[i] = after[m].ids[i]
      BY <3>1, NumberedPassed
    <3> QED
      BY <1>4, <3>2
  <2>2. \A n \in 0 .. m + 1 : n = m + 1 \/ (n \in 0 .. m /\ 1 .. n \subseteq 1 .. m)
    OBVIOUS
  <2>3. \A n \in 0 .. m : \A i \in 1 .. n : after[m].ids[i] = after[n].ids[i]
    BY <1>9
  <2>4. ASSUME NEW n \in 0 .. m + 1, NEW i \in 1 .. n
        PROVE  after[m + 1].ids[i] = after[n].ids[i]
    <3>1. CASE n = m + 1
      BY <3>1
    <3>2. CASE n \in 0 .. m /\ 1 .. n \subseteq 1 .. m
      BY <2>1, <2>3, <2>4, <3>2
    <3> QED
      BY <2>2, <3>1, <3>2
  <2> QED
    BY <1>3, <2>4
<1>10. \A m \in 0 .. N : m \in E
  <2> HIDE DEF E
  <2> QED
    BY <1>1, <1>8, <1>9, InductionUpTo DEF IsInductive
<1> DEFINE s == after[q - 1]
<1>11. q - 1 \in 0 .. N /\ q \in 0 .. N /\ N \in 0 .. N /\ q - 1 \in 0 .. N - 1 /\ q - 1 + 1 = q
  BY <1>1
<1>12. Ids(config)[p] = s.ids[p] /\ Ids(config)[q] = after[q].ids[q]
  <2>1. q - 1 \in 0 .. N /\ q \in 0 .. N /\ q \in 1 .. q
    BY <1>1
  <2> QED
    BY <1>1, <1>2, <1>10, <1>11, <2>1
<1>13. /\ s \in Counters /\ Passed(config, s, q - 1) /\ after[q] = Numbered(s, config[q])
       /\ config[q] \in Symbols["ids"]
  BY <1>1, <1>2, <1>7, <1>11 DEF N
<1> HIDE DEF s, E
<1>14. after[q].ids[q] = IF config[q].level = "accessory" THEN <<Given(0, s.aid), 0>>
                         ELSE <<s.at, Given(0, s.iid)>>
  <2>1. q - 1 \in 0 .. Len(config) - 1
    BY <1>11 DEF N
  <2>2. Numbered(s, config[q - 1 + 1]).ids[q - 1 + 1] =
          IF config[q - 1 + 1].level = "accessory"
          THEN <<Given(config[q - 1 + 1].id, s.aid), 0>>
          ELSE <<s.at, Given(config[q - 1 + 1].id, s.iid)>>
    BY <1>13, <2>1, NumberedPassed
  <2> QED
    BY <1>11, <1>13, <2>2
<1>15. s.aid \in Nat /\ s.iid \in Nat /\ s.ids \in Seq(Nat \X Nat) /\ Len(s.ids) = q - 1
  BY <1>13 DEF Counters, Passed
<1>16. s.ids[p] \in Nat \X Nat
  BY <1>1, <1>15
<1>17. CASE config[p].level = "accessory" /\ config[q].level = "accessory"
  <2>1. s.ids[p][1] < s.aid
    BY <1>1, <1>13, <1>17 DEF Passed
  <2>2. after[q].ids[q][1] = s.aid
    BY <1>14, <1>17 DEF Given
  <2>3. s.ids[p][1] # s.aid
    BY <1>15, <1>16, <2>1
  <2> QED
    BY <1>12, <2>2, <2>3
<1>18. CASE \A k \in p .. q : config[k].level # "accessory"
  <2>1. p .. q - 1 \subseteq p .. q /\ q \in p .. q
    BY <1>1
  <2>2. s.ids[p][2] < s.iid
    BY <1>1, <1>13, <1>18, <2>1 DEF Passed
  <2>3. after[q].ids[q][2] = s.iid
    BY <1>14, <1>18, <2>1 DEF Given
  <2>4. s.ids[p][2] # s.iid
    <3>1. s.ids[p][2] \in Nat
      BY <1>16
    <3> QED
      BY <1>15, <2>2, <3>1
  <2> QED
    BY <1>12, <2>3, <2>4
<1> QED
  BY <1>17, <1>18

\* The accessory of i is the last one up to i: none follows it before i.
LEMMA LastAccessory ==
  ASSUME NEW config \in Seq(Symbols["ids"]), NEW i \in 1 .. Len(config),
         NEW a, a = SelectLastInSubSeq(config, 1, i, LAMBDA x : x.level = "accessory")
  PROVE  a \in 0 .. i /\ \A k \in 1 .. i : config[k].level = "accessory" => k <= a
<1> DEFINE I == {k \in 1 .. i : config[k].level = "accessory"}
<1>1. a = IF I # {} THEN Max(I) ELSE 0
  BY DEF SelectLastInSubSeq
<1>2. ASSUME I # {} PROVE Max(I) \in I /\ \A k \in I : k <= Max(I)
  <2>1. I \subseteq 0 .. i /\ i \in Nat
    OBVIOUS
  <2> HIDE DEF I
  <2>2. PICK m \in I : \A k \in I : k <= m
    BY <1>2, <2>1, LargestElement
  <2>3. \A k \in I : m >= k
    BY <2>1, <2>2
  <2>4. Max(I) \in I /\ \A k \in I : Max(I) >= k
    BY <2>2, <2>3, Zenon DEF Max
  <2> QED
    BY <2>1, <2>4
<1>3. /\ \A k \in 1 .. i : config[k].level = "accessory" => k \in I
      /\ I \subseteq 0 .. i /\ 0 \in 0 .. i
  OBVIOUS
<1> HIDE DEF I
<1> QED
  BY <1>1, <1>2, <1>3

\* The first of one is that one.
LEMMA MinOfOne ==
  ASSUME NEW i \in Int
  PROVE  Min({i}) = i
<1>1. i \in {i} /\ \A y \in {i} : i =< y
  OBVIOUS
<1>2. Min({i}) \in {i}
  BY <1>1, Zenon DEF Min
<1> QED
  BY <1>2

(* homekit_accessories_init gives no id twice, whatever ids the sketch has *)
(* given and in whatever order: an id occurs again only where the sketch   *)
(* repeats one; and where it does not, each characteristic is found by its *)
(* ids.                                                                    *)
THEOREM GeneratedIdsDoNotRepeat == Spec => []GeneratedIdsAreNew
<1>1. InputTyped => GeneratedIdsAreNew
  <2> SUFFICES ASSUME InputTyped, kind = "ids" PROVE GeneratedIdsAreNew
    BY DEF GeneratedIdsAreNew
  <2> DEFINE ids == Ids(input)
             Same(i, j) == ids[i] = ids[j]
                      /\ (input[i].level = "accessory" <=> input[j].level = "accessory")
             Accessory(i) ==
               SelectLastInSubSeq(input, 1, i, LAMBDA x : x.level = "accessory")
             Peers(i, j) == \/ input[i].level = "accessory" /\ input[j].level = "accessory"
                            \/ Accessory(i) = Accessory(j)
             Pairs == {p \in (DOMAIN input) \X (DOMAIN input) : p[1] < p[2]}
  <2>1. input \in Seq(Symbols["ids"]) /\ DOMAIN input = 1 .. Len(input) /\ Len(input) \in Nat
    BY DEF InputTyped
  <2>2. ASSUME NEW i \in DOMAIN input, NEW j \in DOMAIN input, i < j,
               Same(i, j), Peers(i, j), input[j].id = 0
        PROVE  FALSE
    <3>1. i \in 1 .. Len(input) /\ j \in i + 1 .. Len(input) /\ ids[i] = ids[j]
      BY <2>1, <2>2
    <3>2. CASE input[i].level = "accessory" /\ input[j].level = "accessory"
      BY <2>1, <2>2, <3>1, <3>2, GeneratedIdIsNew
    <3>3. CASE ~(input[i].level = "accessory" /\ input[j].level = "accessory")
      <4>1. input[i].level # "accessory" /\ Accessory(i) = Accessory(j)
        BY <2>2, <3>3
      <4>2. Accessory(j) \in 0 .. i
        BY <2>1, <3>1, <4>1, LastAccessory
      <4>3. \A k \in 1 .. j : input[k].level = "accessory" => k <= Accessory(j)
        BY <2>1, <2>2, LastAccessory
      <4> HIDE DEF Accessory
      <4>4. ASSUME NEW k \in i .. j PROVE input[k].level # "accessory"
        <5>1. CASE k = i
          BY <4>1, <5>1
        <5>2. CASE k # i
          <6>1. k \in 1 .. j /\ ~(k <= Accessory(j))
            BY <3>1, <4>2, <5>2
          <6> QED
            BY <4>3, <6>1
        <5> QED
          BY <5>1, <5>2
      <4> QED
        BY <2>1, <2>2, <3>1, <4>4, GeneratedIdIsNew
    <3> QED
      BY <3>2, <3>3
  <2>3. ASSUME NEW p \in Pairs, Same(p[1], p[2]), Peers(p[1], p[2])
        PROVE  input[p[2]].id # 0
    <3>1. p[1] \in DOMAIN input /\ p[2] \in DOMAIN input /\ p[1] < p[2]
      OBVIOUS
    <3> HIDE DEF Same, Peers, Pairs
    <3> QED
      BY <2>2, <2>3, <3>1
  <2>4. ASSUME \A p \in Pairs : ~Same(p[1], p[2]),
               NEW i \in DOMAIN input, input[i].level = "characteristic"
        PROVE  ByAidAndIid(input, ids[i]) = i
    <3> DEFINE labels == [k \in DOMAIN input |-> <<input[k].level, Ids(input)[k]>>]
               I == {k \in 1 .. Len(labels) : labels[k] = <<"characteristic", ids[i]>>}
    <3>1. ByAidAndIid(input, ids[i]) = IF I # {} THEN Min(I) ELSE 0
      BY DEF ByAidAndIid, SelectInSeq
    <3>2. Len(labels) = Len(input)
      BY <2>1
    <3>3. i \in I
      BY <2>1, <2>4, <3>2
    <3>4. ASSUME NEW k \in I PROVE k = i
      <4>1. k \in DOMAIN input /\ input[k].level = "characteristic" /\ ids[k] = ids[i]
        BY <2>1, <3>2, <3>4
      <4> HIDE DEF I, labels, ids
      <4>2. Same(k, i) /\ Same(i, k)
        BY <2>4, <4>1
      <4>3. CASE k < i
        <5>1. <<k, i>> \in Pairs
          BY <4>1, <4>3
        <5> HIDE DEF Pairs, Same
        <5> QED
          BY <2>4, <4>2, <5>1
      <4>4. CASE i < k
        <5>1. <<i, k>> \in Pairs
          BY <4>1, <4>4
        <5> HIDE DEF Pairs, Same
        <5> QED
          BY <2>4, <4>2, <5>1
      <4> QED
        BY <2>1, <4>1, <4>3, <4>4
    <3>5. I = {i}
      BY <3>3, <3>4
    <3> HIDE DEF I
    <3> QED
      BY <2>1, <3>1, <3>5, MinOfOne
  <2> QED
    BY <2>3, <2>4 DEF GeneratedIdsAreNew
<1> QED
  BY <1>1, InputAlways, PTL

-----------------------------------------------------------------------------
(* TLV.                                                                    *)

\* What is left of a sequence at a place in it.
Rest(s, i) == SubSeq(s, i, Len(s))

LEMMA RestTyped ==
  ASSUME NEW S, NEW s \in Seq(S), NEW i \in 1 .. Len(s) + 1
  PROVE  /\ Rest(s, i) \in Seq(S) /\ Len(Rest(s, i)) = Len(s) + 1 - i
         /\ \A k \in 1 .. Len(s) + 1 - i : Rest(s, i)[k] = s[i + k - 1]
BY DEF Rest

Begins(a, s) == Len(a) <= Len(s) /\ \A k \in 1 .. Len(a) : s[k] = a[k]

LEMMA BeginsPart ==
  ASSUME NEW S, NEW a \in Seq(S), NEW b \in Seq(S), NEW s \in Seq(S), Begins(a \o b, s)
  PROVE  Begins(a, s)
<1> DEFINE u == a \o b
<1>1. /\ Len(u) = Len(a) + Len(b)
      /\ \A k \in 1 .. Len(a) : u[k] = a[k]
  OBVIOUS
<1>2. Begins(u, s)
  OBVIOUS
<1> HIDE DEF u
<1> QED
  BY <1>1, <1>2 DEF Begins

LEMMA RestSplit ==
  ASSUME NEW S, NEW a \in Seq(S), NEW b \in Seq(S), NEW s \in Seq(S), Begins(a \o b, s)
  PROVE  Rest(s, Len(a) + 1) = b \o Rest(s, Len(a) + Len(b) + 1)
<1> DEFINE u == a \o b
           i == Len(a) + 1
           j == Len(a) + Len(b) + 1
           r == Rest(s, j)
           t == b \o r
<1>1. /\ Len(u) = Len(a) + Len(b) /\ Len(a) \in Nat /\ Len(b) \in Nat
      /\ \A k \in 1 .. Len(b) : u[Len(a) + k] = b[k]
  OBVIOUS
<1>2. Len(u) <= Len(s) /\ Len(s) \in Nat /\ \A k \in 1 .. Len(u) : s[k] = u[k]
  BY DEF Begins
<1> HIDE DEF u
<1>3. i \in 1 .. Len(s) + 1 /\ j \in 1 .. Len(s) + 1
  BY <1>1, <1>2
<1>4. /\ Rest(s, i) \in Seq(S) /\ Len(Rest(s, i)) = Len(s) + 1 - i
      /\ \A k \in 1 .. Len(s) + 1 - i : Rest(s, i)[k] = s[i + k - 1]
  BY <1>3, RestTyped
<1>5. /\ r \in Seq(S) /\ Len(r) = Len(s) + 1 - j
      /\ \A k \in 1 .. Len(s) + 1 - j : r[k] = s[j + k - 1]
  BY <1>3, RestTyped
<1> HIDE DEF r, i, j
<1>6. /\ t \in Seq(S) /\ Len(t) = Len(b) + Len(r)
      /\ \A k \in 1 .. Len(b) + Len(r) : t[k] = IF k <= Len(b) THEN b[k] ELSE r[k - Len(b)]
  <2>1. r \in Seq(S)
    BY <1>5
  <2> QED
    BY <2>1, ConcatProperties
<1> HIDE DEF t
<1>7. ASSUME NEW k \in 1 .. Len(s) + 1 - i PROVE Rest(s, i)[k] = t[k]
  <2>1. CASE k <= Len(b)
    <3>1. k \in 1 .. Len(b) /\ i + k - 1 = Len(a) + k /\ Len(a) + k \in 1 .. Len(u)
      BY <1>1, <1>3, <2>1 DEF i
    <3>2. k \in 1 .. Len(b) + Len(r)
      BY <1>1, <1>3, <1>5, <3>1
    <3> QED
      BY <1>1, <1>2, <1>4, <1>6, <2>1, <3>1, <3>2
  <2>2. CASE ~(k <= Len(b))
    <3>1. /\ k - Len(b) \in 1 .. Len(s) + 1 - j /\ j + (k - Len(b)) - 1 = i + k - 1
          /\ k \in 1 .. Len(b) + Len(r)
      BY <1>1, <1>3, <1>5, <2>2 DEF i, j
    <3> QED
      BY <1>4, <1>5, <1>6, <2>2, <3>1
  <2> QED
    BY <2>1, <2>2
<1>8. Rest(s, i) = t
  <2>1. Len(t) = Len(s) + 1 - i
    BY <1>1, <1>5, <1>6 DEF i, j
  <2> QED
    BY <1>4, <1>6, <1>7, <2>1, SeqEqual
<1> QED
  BY <1>8 DEF t, r, i, j

\* Where the pieces are in a concatenation.
LEMMA FlattenRests ==
  ASSUME NEW S, NEW pieces \in Seq(Seq(S)), pieces # <<>>
  PROVE  \E at :
           /\ at[1] = 1 /\ at[Len(pieces) + 1] = Len(FlattenSeq(pieces)) + 1
           /\ \A n \in 1 .. Len(pieces) :
                /\ at[n] \in 1 .. Len(FlattenSeq(pieces)) + 1
                /\ at[n + 1] = at[n] + Len(pieces[n])
                /\ Rest(FlattenSeq(pieces), at[n]) =
                     pieces[n] \o Rest(FlattenSeq(pieces), at[n + 1])
<1> DEFINE N == Len(pieces)
           s == FlattenSeq(pieces)
<1>1. PICK flat :
        /\ s = flat[N]
        /\ \A n \in 0 .. N : flat[n] \in Seq(S)
        /\ flat[0] = <<>>
        /\ \A n \in 1 .. N : flat[n] = flat[n - 1] \o pieces[n]
  BY FlattenSteps
<1>2. N \in Nat \ {0} /\ \A n \in 1 .. N : pieces[n] \in Seq(S)
  OBVIOUS
<1> HIDE DEF N, s
<1>3. s \in Seq(S)
  BY <1>1, <1>2
<1> DEFINE D == {k \in 0 .. N : Begins(flat[N - k], s)}
<1>4. 0 \in D
  <2>1. N - 0 = N /\ Begins(s, s) /\ 0 \in 0 .. N
    BY <1>2, <1>3 DEF Begins
  <2> QED
    BY <1>1, <2>1
<1>5. ASSUME NEW k \in 0 .. N - 1, k \in D PROVE k + 1 \in D
  <2>1. PICK m \in 1 .. N : N - k = m /\ N - (k + 1) = m - 1 /\ m - 1 \in 0 .. N
    <3>1. N - k \in 1 .. N /\ N - (k + 1) = N - k - 1 /\ N - k - 1 \in 0 .. N
      BY <1>2
    <3> QED
      BY <3>1
  <2>2. Begins(flat[m - 1] \o pieces[m], s)
    BY <1>1, <1>5, <2>1
  <2>3. Begins(flat[m - 1], s)
    BY <1>1, <1>2, <1>3, <2>1, <2>2, BeginsPart
  <2>4. k + 1 \in 0 .. N
    BY <1>2
  <2> QED
    BY <2>1, <2>3, <2>4
<1>6. \A k \in 0 .. N : Begins(flat[N - k], s)
  <2> HIDE DEF D
  <2>1. \A k \in 0 .. N : k \in D
    BY <1>2, <1>4, <1>5, InductionUpTo DEF IsInductive
  <2> QED
    BY <2>1 DEF D
<1>7. \A n \in 0 .. N : Begins(flat[n], s)
  <2>1. \A n \in 0 .. N : N - n \in 0 .. N /\ N - (N - n) = n
    BY <1>2
  <2> QED
    BY <1>6, <2>1
<1> DEFINE at == [n \in 1 .. N + 1 |-> Len(flat[n - 1]) + 1]
<1>8. \A n \in 0 .. N : n + 1 \in 1 .. N + 1 /\ n + 1 - 1 = n
  BY <1>2
<1>9. \A n \in 0 .. N : at[n + 1] = Len(flat[n]) + 1
  BY <1>8
<1> HIDE DEF at
<1>10. ASSUME NEW n \in 1 .. N
       PROVE  /\ at[n] \in 1 .. Len(s) + 1
              /\ at[n + 1] = at[n] + Len(pieces[n])
              /\ Rest(s, at[n]) = pieces[n] \o Rest(s, at[n + 1])
  <2> DEFINE a == flat[n - 1]
             b == pieces[n]
  <2>1. n - 1 \in 0 .. N /\ n \in 0 .. N /\ n - 1 + 1 = n
    BY <1>2
  <2>2. a \in Seq(S) /\ b \in Seq(S) /\ flat[n] = a \o b /\ Begins(a \o b, s) /\ Begins(a, s)
    BY <1>1, <1>2, <1>7, <2>1
  <2>3. at[n] = Len(a) + 1
    BY <1>9, <2>1
  <2>4. at[n + 1] = Len(a \o b) + 1
    BY <1>9, <2>1, <2>2
  <2> HIDE DEF a, b
  <2>5. Len(a \o b) = Len(a) + Len(b) /\ Len(a) \in Nat /\ Len(b) \in Nat
    BY <2>2
  <2>6. Rest(s, Len(a) + 1) = b \o Rest(s, Len(a) + Len(b) + 1)
    BY <1>3, <2>2, RestSplit
  <2>7. Len(a) + 1 \in 1 .. Len(s) + 1
    BY <1>3, <2>2, <2>5 DEF Begins
  <2>8. at[n + 1] = Len(a) + Len(b) + 1
    BY <2>4, <2>5
  <2>9. Rest(s, at[n]) = b \o Rest(s, at[n + 1])
    BY <2>3, <2>6, <2>8
  <2>10. at[n + 1] = at[n] + Len(b)
    BY <2>3, <2>5, <2>8
  <2>11. at[n] \in 1 .. Len(s) + 1
    BY <2>3, <2>7
  <2> QED
    BY <2>9, <2>10, <2>11 DEF b
<1>11. at[1] = 1 /\ at[N + 1] = Len(s) + 1
  <2>1. 0 \in 0 .. N /\ N \in 0 .. N /\ Len(flat[0]) = 0 /\ 0 + 1 = 1
    BY <1>1, <1>2
  <2>2. at[0 + 1] = Len(flat[0]) + 1
    BY <1>9, <2>1
  <2>3. at[N + 1] = Len(flat[N]) + 1
    BY <1>9, <2>1
  <2> QED
    BY <1>1, <2>1, <2>2, <2>3
<1> QED
  BY <1>10, <1>11 DEF N, s

LEMMA RemainderStep ==
  ASSUME NEW M \in Nat \ {0}, NEW a \in Nat, a > M
  PROVE  a % M = (a - M) % M
<1>1. a \div M = 1 + (a - M) \div M
  OBVIOUS
<1>2. /\ a \div M \in Int /\ (a - M) \div M \in Int
      /\ a = M * (a \div M) + (a % M) /\ a - M = M * ((a - M) \div M) + ((a - M) % M)
  OBVIOUS
<1>3. M * (a \div M) = M + M * ((a - M) \div M)
  BY <1>1, <1>2
<1> QED
  BY <1>2, <1>3

\* The size of the next chunk when "left" bytes are left.
ChunkSize(left) == IF left > MaxSize THEN MaxSize ELSE left

\* Chunk by chunk.
LEMMA ChunkSteps ==
  /\ Chunks(0) = 0
  /\ \A a \in Nat \ {0} :
       /\ ChunkSize(a) \in 1 .. MaxSize /\ ChunkSize(a) <= a
       /\ a - ChunkSize(a) \in Nat
       /\ Chunks(a) \in Nat /\ Chunks(a) = 1 + Chunks(a - ChunkSize(a))
       /\ ChunkSize(a) = a => (a % MaxSize = 0 <=> a = MaxSize)
       /\ ChunkSize(a) # a => /\ ChunkSize(a) = MaxSize
                              /\ a % MaxSize = (a - ChunkSize(a)) % MaxSize
<1> USE MaxSizeAssumption
<1>1. Chunks(0) = 0
  BY DEF Chunks
<1> SUFFICES ASSUME NEW a \in Nat \ {0}
             PROVE  /\ ChunkSize(a) \in 1 .. MaxSize /\ ChunkSize(a) <= a
                    /\ a - ChunkSize(a) \in Nat
                    /\ Chunks(a) \in Nat /\ Chunks(a) = 1 + Chunks(a - ChunkSize(a))
                    /\ ChunkSize(a) = a => (a % MaxSize = 0 <=> a = MaxSize)
                    /\ ChunkSize(a) # a => /\ ChunkSize(a) = MaxSize
                                           /\ a % MaxSize = (a - ChunkSize(a)) % MaxSize
  BY <1>1
<1>2. CASE a > MaxSize
  <2>1. ChunkSize(a) = MaxSize
    BY <1>2 DEF ChunkSize
  <2>2. Chunks(a) = 1 + Chunks(a - MaxSize) /\ Chunks(a) \in Nat
    BY <1>2 DEF Chunks
  <2>3. a % MaxSize = (a - MaxSize) % MaxSize
    BY <1>2, RemainderStep
  <2> QED
    BY <1>2, <2>1, <2>2, <2>3
<1>3. CASE ~(a > MaxSize)
  <2>1. ChunkSize(a) = a
    BY <1>3 DEF ChunkSize
  <2>2. Chunks(a) = 1 /\ Chunks(0) = 0 /\ a - a = 0
    BY <1>3 DEF Chunks
  <2>3. a % MaxSize = 0 <=> a = MaxSize
    BY <1>3
  <2> QED
    BY <1>3, <2>1, <2>2, <2>3
<1> QED
  BY <1>2, <1>3

Items == [type : Nat, value : Seq(Nat)]

\* The bytes of a chunk of an item, n bytes of which have been written.
Chunk(t, n) ==
  <<t.type, ChunkSize(Len(t.value) - n)>>
  \o SubSeq(t.value, n + 1, n + ChunkSize(Len(t.value) - n))

LEMMA DataTyped ==
  ASSUME NEW t \in Items, NEW n \in 0 .. Len(t.value) - 1
  PROVE  LET size == ChunkSize(Len(t.value) - n)
             data == SubSeq(t.value, n + 1, n + size)
         IN  data \in Seq(Nat) /\ Len(data) = size
<1> DEFINE size == ChunkSize(Len(t.value) - n)
           data == SubSeq(t.value, n + 1, n + size)
<1>1. t.value \in Seq(Nat) /\ Len(t.value) - n \in Nat \ {0}
  BY DEF Items
<1>2. size \in 1 .. MaxSize /\ size <= Len(t.value) - n
  BY <1>1, ChunkSteps
<1> HIDE DEF size
<1>3. MaxSize \in Nat /\ n + size \in n + 1 .. Len(t.value)
  BY <1>1, <1>2, MaxSizeAssumption
<1>4. data \in Seq(Nat) /\ Len(data) = size
  BY <1>1, <1>2, <1>3
<1> QED
  BY <1>4 DEF size

LEMMA ChunkTyped ==
  ASSUME NEW t \in Items, NEW n \in 0 .. Len(t.value) - 1
  PROVE  /\ ChunkSize(Len(t.value) - n) \in 1 .. MaxSize
         /\ n + ChunkSize(Len(t.value) - n) \in n + 1 .. Len(t.value)
         /\ Chunk(t, n) \in Seq(Nat)
         /\ Len(Chunk(t, n)) = ChunkSize(Len(t.value) - n) + 2
<1> DEFINE size == ChunkSize(Len(t.value) - n)
           head == <<t.type, size>>
           data == SubSeq(t.value, n + 1, n + size)
<1>1. t.value \in Seq(Nat) /\ t.type \in Nat /\ Len(t.value) - n \in Nat \ {0}
  BY DEF Items
<1>2. size \in 1 .. MaxSize /\ size <= Len(t.value) - n
  BY <1>1, ChunkSteps
<1>4. data \in Seq(Nat) /\ Len(data) = size
  BY DataTyped
<1> HIDE DEF size
<1>3. MaxSize \in Nat /\ n + size \in n + 1 .. Len(t.value)
  BY <1>1, <1>2, MaxSizeAssumption
<1>5. head \in Seq(Nat) /\ Len(head) = 2
  BY <1>1, <1>2, <1>3
<1> HIDE DEF data, head
<1>6. head \o data \in Seq(Nat) /\ Len(head \o data) = size + 2
  <2>1. /\ head \o data \in Seq(Nat) /\ Len(head \o data) = Len(head) + Len(data)
    BY <1>4, <1>5, ConcatProperties
  <2> QED
    BY <1>2, <1>3, <1>4, <1>5, <2>1
<1> QED
  BY <1>2, <1>3, <1>6 DEF Chunk, size, head, data

LEMMA WrittenSteps ==
  ASSUME NEW t \in Items, t.value # <<>>
  PROVE  \E written :
           /\ Item(t) = written[0] /\ written[Len(t.value)] = <<>>
           /\ \A n \in 0 .. Len(t.value) : written[n] \in Seq(Nat)
           /\ \A n \in 0 .. Len(t.value) - 1 :
                written[n] = Chunk(t, n) \o written[n + ChunkSize(Len(t.value) - n)]
<1> DEFINE N == Len(t.value)
           T == Seq(Nat)
           next == [n \in 0 .. N - 1 |-> n + ChunkSize(N - n)]
           step == [n \in 0 .. N - 1 |-> [s \in T |-> Chunk(t, n) \o s]]
           Body(g, n) == IF N - n = 0 THEN <<>> ELSE Chunk(t, n) \o g[n + ChunkSize(N - n)]
           IsWritten(g) == g = [n \in 0 .. N |-> Body(g, n)]
           written == CHOOSE g : IsWritten(g)
<1>1. N \in Nat \ {0} /\ <<>> \in T
  BY DEF Items
<1>2. \A n \in 0 .. N - 1 : /\ n + ChunkSize(N - n) \in 0 .. N /\ n < n + ChunkSize(N - n)
                            /\ Chunk(t, n) \in T
  BY <1>1, ChunkTyped
<1>3. Item(t) = written[0]
  BY DEF Item, Chunk, ChunkSize
<1> HIDE DEF N, written
<1>4. PICK f : f \in [0 .. N -> T] /\ Precedes(f, N, <<>>, step, next)
  <2>1. next \in [0 .. N - 1 -> 0 .. N] /\ \A n \in 0 .. N - 1 : n < next[n]
    BY <1>2
  <2>2. step \in [0 .. N - 1 -> [T -> T]]
    <3>1. \A n \in 0 .. N - 1 : \A s \in T : Chunk(t, n) \o s \in T
      BY <1>2
    <3> HIDE DEF T
    <3> QED
      BY <3>1
  <2> HIDE DEF step, next, T
  <2> QED
    BY <1>1, <2>1, <2>2, RecursionDownFrom
<1>5. \A n \in 0 .. N - 1 : /\ f[n + ChunkSize(N - n)] \in T
                            /\ f[n] = Chunk(t, n) \o f[n + ChunkSize(N - n)]
  <2> SUFFICES ASSUME NEW n \in 0 .. N - 1
               PROVE  /\ f[n + ChunkSize(N - n)] \in T
                      /\ f[n] = Chunk(t, n) \o f[n + ChunkSize(N - n)]
    OBVIOUS
  <2>1. next[n] = n + ChunkSize(N - n) /\ next[n] \in 0 .. N
    BY <1>2
  <2>2. f[n] = step[n][f[next[n]]]
    BY <1>4 DEF Precedes
  <2>3. f[next[n]] \in T
    BY <1>4, <2>1
  <2> HIDE DEF next, T
  <2>4. f[n] = Chunk(t, n) \o f[next[n]]
    BY <2>2, <2>3
  <2> QED
    BY <2>1, <2>3, <2>4
<1>6. \A n \in 0 .. N : (N - n = 0 <=> n = N) /\ (n # N => n \in 0 .. N - 1)
  BY <1>1
<1>7. IsWritten(f)
  <2> HIDE DEF T
  <2>1. \A n \in 0 .. N : f[n] = Body(f, n)
    BY <1>4, <1>5, <1>6 DEF Precedes
  <2> HIDE DEF Body
  <2> QED
    BY <1>4, <2>1
<1>8. IsWritten(written)
  <2> HIDE DEF IsWritten
  <2> QED
    BY <1>7 DEF written
<1>9. \A n \in 0 .. N : written[n] = Body(written, n)
  <2> HIDE DEF Body
  <2> QED
    BY <1>8, Zenon
<1>10. /\ written[N] = <<>>
       /\ \A n \in 0 .. N - 1 : written[n] = Chunk(t, n) \o written[n + ChunkSize(N - n)]
  <2>1. N \in 0 .. N /\ \A n \in 0 .. N - 1 : n \in 0 .. N /\ N - n # 0
    BY <1>1
  <2> QED
    BY <1>6, <1>9, <2>1
<1> DEFINE D == {n \in 0 .. N : written[n] \in T}
<1>11. IsInductiveDown(D, N)
  <2>1. N \in D
    <3>1. N \in 0 .. N
      BY <1>1
    <3> HIDE DEF T
    <3> QED
      BY <1>1, <1>10, <3>1
  <2>2. ASSUME NEW n \in 0 .. N - 1, n + 1 .. N \subseteq D PROVE n \in D
    <3>1. n + ChunkSize(N - n) \in n + 1 .. N /\ n \in 0 .. N
      BY <1>1, <1>2
    <3>2. written[n + ChunkSize(N - n)] \in T
      BY <2>2, <3>1
    <3>3. written[n] \in T
      <4>1. \A s \in T : Chunk(t, n) \o s \in T
        BY <1>2
      <4> HIDE DEF T
      <4> QED
        BY <1>10, <3>2, <4>1
    <3> HIDE DEF T
    <3> QED
      BY <3>1, <3>3
  <2> HIDE DEF D
  <2> QED
    BY <2>1, <2>2 DEF IsInductiveDown
<1>12. \A n \in 0 .. N : n \in D
  <2> HIDE DEF D
  <2> QED
    BY <1>1, <1>11, InductionDown
<1>13. \A n \in 0 .. N : written[n] \in T
  <2> HIDE DEF T
  <2> QED
    BY <1>12
<1> QED
  BY <1>3, <1>10, <1>13 DEF N

\* An item takes its bytes, and two for each chunk.
LEMMA ItemLength ==
  ASSUME NEW t \in Items, t.value # <<>>
  PROVE  /\ Item(t) \in Seq(Nat)
         /\ Len(Item(t)) = Len(t.value) + 2 * Chunks(Len(t.value))
<1> DEFINE N == Len(t.value)
<1>1. PICK written :
        /\ Item(t) = written[0] /\ written[N] = <<>>
        /\ \A n \in 0 .. N : written[n] \in Seq(Nat)
        /\ \A n \in 0 .. N - 1 : written[n] = Chunk(t, n) \o written[n + ChunkSize(N - n)]
  BY WrittenSteps
<1>2. N \in Nat
  BY DEF Items
<1>3. \A n \in 0 .. N - 1 : /\ n + ChunkSize(N - n) \in n + 1 .. N
                            /\ ChunkSize(N - n) \in Nat
                            /\ Chunk(t, n) \in Seq(Nat)
                            /\ Len(Chunk(t, n)) = ChunkSize(N - n) + 2
  <2>1. \A n \in 0 .. N - 1 : /\ n + ChunkSize(N - n) \in n + 1 .. N
                              /\ ChunkSize(N - n) \in 1 .. MaxSize
                              /\ Chunk(t, n) \in Seq(Nat)
                              /\ Len(Chunk(t, n)) = ChunkSize(N - n) + 2
    BY ChunkTyped
  <2>2. 1 .. MaxSize \subseteq Nat
    BY MaxSizeAssumption
  <2> QED
    BY <2>1, <2>2
<1> HIDE DEF N
<1> DEFINE D == {n \in 0 .. N : Len(written[n]) = (N - n) + 2 * Chunks(N - n)}
<1>4. IsInductiveDown(D, N)
  <2>1. N \in D
    <3>1. N \in 0 .. N /\ N - N = 0 /\ Len(<<>>) = 0
      BY <1>2
    <3>2. Len(written[N]) = 0 /\ Chunks(0) = 0
      BY <1>1, <3>1, ChunkSteps
    <3> QED
      BY <3>1, <3>2
  <2>2. ASSUME NEW n \in 0 .. N - 1, n + 1 .. N \subseteq D PROVE n \in D
    <3> DEFINE size == ChunkSize(N - n)
               next == n + size
    <3>1. next \in n + 1 .. N /\ next \in 0 .. N /\ size \in Nat /\ n \in 0 .. N
      BY <1>2, <1>3
    <3>2. Len(written[next]) = (N - next) + 2 * Chunks(N - next)
      BY <2>2, <3>1
    <3>3. Len(written[n]) = Len(Chunk(t, n)) + Len(written[next])
      <4> DEFINE a == Chunk(t, n)
                 b == written[next]
      <4>1. a \in Seq(Nat) /\ b \in Seq(Nat) /\ written[n] = a \o b
        BY <1>1, <1>3, <3>1
      <4> HIDE DEF a, b
      <4> QED
        BY <4>1 DEF a, b
    <3>4. N - n \in Nat \ {0} /\ N - next = (N - n) - size
      BY <1>2, <3>1
    <3>5. /\ Chunks(N - n) = 1 + Chunks(N - next) /\ Chunks(N - n) \in Nat
          /\ Len(Chunk(t, n)) = size + 2
      BY <1>3, <3>4, ChunkSteps
    <3>6. Chunks(N - next) \in Int
      <4>1. \A m \in n + 1 .. N : N - m \in Nat
        BY <1>2
      <4>2. N - next \in Nat
        BY <3>1, <4>1
      <4> HIDE DEF next
      <4> QED
        BY <4>2, ChunkSteps
    <3> HIDE DEF size, next
    <3>7. Len(written[n]) = (N - n) + 2 * Chunks(N - n)
      <4>1. Len(written[n]) = (size + 2) + ((N - next) + 2 * Chunks(N - next))
        BY <3>2, <3>3, <3>5
      <4>2. 2 * Chunks(N - n) = 2 + 2 * Chunks(N - next)
        BY <3>5, <3>6
      <4>3. (N - n) + (2 + 2 * Chunks(N - next))
              = (size + 2) + ((N - next) + 2 * Chunks(N - next))
        BY <1>2, <3>1, <3>4, <3>6
      <4> QED
        BY <4>1, <4>2, <4>3
    <3> QED
      BY <3>1, <3>7
  <2> HIDE DEF D
  <2> QED
    BY <2>1, <2>2 DEF IsInductiveDown
<1>5. 0 \in D
  <2> HIDE DEF D
  <2>1. 0 \in 0 .. N
    BY <1>2
  <2> QED
    BY <1>2, <1>4, <2>1, InductionDown
<1>6. N - 0 = N /\ 0 \in 0 .. N
  BY <1>2
<1> QED
  BY <1>1, <1>5, <1>6 DEF N

LEMMA RequiredSteps ==
  ASSUME NEW values \in Seq(Items)
  PROVE  \E after :
           /\ RequiredSize(values) = after[Len(values)] /\ after[0] = 0
           /\ \A n \in 1 .. Len(values) :
                after[n] = after[n - 1] + Len(values[n].value)
                           + 2 * Chunks(Len(values[n].value))
<1> DEFINE N == Len(values)
           size(n) == Len(values[n].value)
           step == [n \in 1 .. N |-> [s \in Nat |-> s + size(n) + 2 * Chunks(size(n))]]
           Body(g, n) == IF n = 0 THEN 0 ELSE g[n - 1] + size(n) + 2 * Chunks(size(n))
           IsAfter(g) == g = [n \in 0 .. N |-> Body(g, n)]
           after == CHOOSE g : IsAfter(g)
<1>1. N \in Nat /\ \A n \in 1 .. N : size(n) \in Nat /\ Chunks(size(n)) \in Nat
  <2>1. \A n \in 1 .. N : size(n) \in Nat
    BY DEF Items
  <2> HIDE DEF size
  <2> QED
    BY <2>1, ChunkSteps
<1>2. RequiredSize(values) = after[N]
  BY DEF RequiredSize
<1> HIDE DEF N, after
<1>3. PICK f : f \in [0 .. N -> Nat] /\ Follows(f, N, 0, step)
  <2>1. IsStep(step, N, Nat)
    <3>1. \A n \in 1 .. N : \A s \in Nat : s + size(n) + 2 * Chunks(size(n)) \in Nat
      <4> HIDE DEF size
      <4> QED
        BY <1>1
    <3> HIDE DEF size
    <3> QED
      BY <3>1 DEF IsStep
  <2> HIDE DEF step
  <2> QED
    BY <1>1, <2>1, RecursionUpTo
<1> HIDE DEF size
<1>4. \A n \in 0 .. N : f[n] = Body(f, n)
  <2>1. f[0] = 0
    BY <1>3 DEF Follows
  <2>2. ASSUME NEW n \in 1 .. N PROVE f[n] = f[n - 1] + size(n) + 2 * Chunks(size(n))
    <3>1. n - 1 \in 0 .. N
      BY <1>1
    <3>2. f[n - 1] \in Nat
      BY <1>3, <3>1
    <3> QED
      BY <1>3, <3>2 DEF Follows
  <2>3. \A n \in 0 .. N : n = 0 \/ (n \in 1 .. N /\ n # 0)
    BY <1>1
  <2> QED
    BY <2>1, <2>2, <2>3
<1>5. IsAfter(f)
  <2> HIDE DEF Body
  <2> QED
    BY <1>3, <1>4
<1>6. IsAfter(after)
  <2> HIDE DEF IsAfter
  <2> QED
    BY <1>5 DEF after
<1>7. \A n \in 0 .. N : after[n] = Body(after, n)
  <2> HIDE DEF Body
  <2> QED
    BY <1>6, Zenon
<1>8. 0 \in 0 .. N /\ \A n \in 1 .. N : n \in 0 .. N /\ n # 0
  BY <1>1
<1> QED
  BY <1>2, <1>7, <1>8 DEF N, size

\* What tlv_format writes is as long as it said, and is made of the items.
LEMMA FormatRests ==
  ASSUME NEW items \in Seq(Items), items # <<>>, \A i \in 1 .. Len(items) : items[i].value # <<>>
  PROVE  /\ Format(items) \in Seq(Nat) /\ Len(Format(items)) = RequiredSize(items)
         /\ \E at :
              /\ at[1] = 1 /\ at[Len(items) + 1] = Len(Format(items)) + 1
              /\ \A n \in 1 .. Len(items) :
                   /\ at[n] \in 1 .. Len(Format(items)) + 1
                   /\ at[n + 1] = at[n] + Len(Item(items[n]))
                   /\ Rest(Format(items), at[n]) =
                        Item(items[n]) \o Rest(Format(items), at[n + 1])
<1> DEFINE N == Len(items)
           pieces == [i \in DOMAIN items |-> Item(items[i])]
           text == FlattenSeq(pieces)
<1>1. N \in Nat \ {0} /\ DOMAIN items = 1 .. N /\ \A n \in 1 .. N : items[n] \in Items
  OBVIOUS
<1>2. \A n \in 1 .. N : /\ Item(items[n]) \in Seq(Nat)
                        /\ Len(Item(items[n])) =
                             Len(items[n].value) + 2 * Chunks(Len(items[n].value))
  BY <1>1, ItemLength
<1>3. Format(items) = text
  BY DEF Format
<1> HIDE DEF N
<1>4. pieces \in Seq(Seq(Nat)) /\ Len(pieces) = N /\ pieces # <<>>
  BY <1>1, <1>2
<1>5. \A n \in 1 .. N : pieces[n] = Item(items[n])
  BY <1>1
<1> HIDE DEF pieces
<1>6. text \in Seq(Nat)
  <2>1. PICK flat : text = flat[N] /\ \A n \in 0 .. N : flat[n] \in Seq(Nat)
    BY <1>4, FlattenSteps
  <2>2. N \in 0 .. N
    BY <1>1
  <2> QED
    BY <2>1, <2>2
<1>7. PICK at :
        /\ at[1] = 1 /\ at[N + 1] = Len(text) + 1
        /\ \A n \in 1 .. N : /\ at[n] \in 1 .. Len(text) + 1
                             /\ at[n + 1] = at[n] + Len(pieces[n])
                             /\ Rest(text, at[n]) = pieces[n] \o Rest(text, at[n + 1])
  <2>1. \E at :
          /\ at[1] = 1 /\ at[Len(pieces) + 1] = Len(text) + 1
          /\ \A n \in 1 .. Len(pieces) :
               /\ at[n] \in 1 .. Len(text) + 1
               /\ at[n + 1] = at[n] + Len(pieces[n])
               /\ Rest(text, at[n]) = pieces[n] \o Rest(text, at[n + 1])
    <3>1. pieces \in Seq(Seq(Nat)) /\ pieces # <<>>
      BY <1>4
    <3> QED
      BY <3>1, FlattenRests
  <2> QED
    BY <1>4, <2>1
<1>8. PICK after :
        /\ RequiredSize(items) = after[N] /\ after[0] = 0
        /\ \A n \in 1 .. N : after[n] = after[n - 1] + Len(items[n].value)
                                        + 2 * Chunks(Len(items[n].value))
  BY RequiredSteps DEF N
<1> HIDE DEF text
<1> DEFINE D == {n \in 0 .. N : after[n] \in Nat /\ at[n + 1] = after[n] + 1}
<1>9. 0 \in D
  BY <1>1, <1>7, <1>8
<1>10. ASSUME NEW n \in 0 .. N - 1, n \in D PROVE n + 1 \in D
  <2> DEFINE i == n + 1
             size == Len(items[i].value)
             chunks == Chunks(size)
  <2>1. i \in 1 .. N /\ i - 1 = n /\ i \in 0 .. N
    BY <1>1
  <2>2. size \in Nat /\ chunks \in Nat
    <3>1. size \in Nat
      BY <1>1, <2>1 DEF Items
    <3> HIDE DEF size
    <3> QED
      BY <3>1, ChunkSteps
  <2>3. Len(Item(items[i])) = size + 2 * chunks
    BY <1>2, <2>1
  <2>4. after[i] = after[n] + size + 2 * chunks
    BY <1>8, <2>1
  <2>5. at[i + 1] = at[i] + (size + 2 * chunks)
    BY <1>5, <1>7, <2>1, <2>3
  <2>6. after[n] \in Nat /\ at[i] = after[n] + 1
    BY <1>10
  <2> HIDE DEF size, chunks, i, D
  <2>7. after[i] \in Nat /\ at[i + 1] = after[i] + 1
    BY <2>2, <2>4, <2>5, <2>6
  <2> QED
    BY <2>1, <2>7 DEF D, i
<1>11. N \in D
  <2> HIDE DEF D
  <2> QED
    BY <1>1, <1>9, <1>10, InductionUpTo DEF IsInductive
<1>12. Len(text) = RequiredSize(items)
  <2>1. after[N] \in Nat /\ at[N + 1] = after[N] + 1 /\ Len(text) \in Nat
    BY <1>6, <1>11
  <2> QED
    BY <1>7, <1>8, <2>1
<1> QED
  BY <1>3, <1>5, <1>6, <1>7, <1>12 DEF N

\* What tlv_parse makes of a chunk and of what follows it.
WithChunk(type, data, rest) ==
  IF GoesOn(type, data, rest) THEN <<Tlv(type, data \o rest[1].value)>> \o Tail(rest)
  ELSE <<Tlv(type, data)>> \o rest

LEMMA WithChunkTyped ==
  ASSUME NEW B, NEW type \in B, NEW data \in Seq(B),
         NEW rest \in Seq([type : B, value : Seq(B)])
  PROVE  WithChunk(type, data, rest) \in Seq([type : B, value : Seq(B)])
<1> DEFINE R == [type : B, value : Seq(B)]
<1>1. CASE GoesOn(type, data, rest)
  <2>1. rest[1] \in R /\ Tail(rest) \in Seq(R)
    <3>1. rest # <<>> /\ rest \in Seq(R)
      BY <1>1 DEF GoesOn
    <3> HIDE DEF R
    <3> QED
      BY <3>1
  <2>2. data \o rest[1].value \in Seq(B)
    BY <2>1
  <2>3. <<Tlv(type, data \o rest[1].value)>> \in Seq(R)
    BY <2>2 DEF Tlv
  <2>4. WithChunk(type, data, rest) \in Seq(R)
    <3> HIDE DEF R
    <3> QED
      BY <1>1, <2>1, <2>3, ConcatProperties DEF WithChunk
  <2> QED
    BY <2>4
<1>2. CASE ~GoesOn(type, data, rest)
  <2>1. <<Tlv(type, data)>> \in Seq(R) /\ rest \in Seq(R)
    BY DEF Tlv
  <2>2. WithChunk(type, data, rest) \in Seq(R)
    <3> HIDE DEF R
    <3> QED
      BY <1>2, <2>1, ConcatProperties DEF WithChunk
  <2> QED
    BY <2>2
<1> QED
  BY <1>1, <1>2

LEMMA ParseSteps ==
  ASSUME NEW buffer \in Seq(Nat)
  PROVE  \E from :
           /\ Parse(buffer) = from[1]
           /\ \A i \in Nat : i >= Len(buffer) => from[i] = <<>>
           /\ \A i \in 1 .. Len(buffer) - 1 :
                from[i] = WithChunk(buffer[i], SubSeq(buffer, i + 2, i + 2 + buffer[i + 1] - 1),
                              from[i + 2 + buffer[i + 1]])
<1> DEFINE N == Len(buffer)
           B == {buffer[k] : k \in Nat}
           T == Seq([type : B, value : Seq(B)])
           after(i) == i + 2 + buffer[i + 1]
           data(i) == SubSeq(buffer, i + 2, after(i) - 1)
           next == [n \in 0 .. N - 1 |-> IF after(n) >= N THEN N ELSE after(n)]
           step == [n \in 0 .. N - 1 |-> [s \in T |-> WithChunk(buffer[n], data(n), s)]]
           Body(g, i) == IF i >= N THEN <<>> ELSE WithChunk(buffer[i], data(i), g[after(i)])
           IsFrom(g) == g = [i \in Nat |-> Body(g, i)]
           from == CHOOSE g : IsFrom(g)
<1>1. N \in Nat /\ \A n \in 0 .. N - 1 : buffer[n + 1] \in Nat
  OBVIOUS
<1>2. Parse(buffer) = from[1]
  BY DEF Parse, WithChunk
<1> HIDE DEF N, from
<1>3. \A n \in 0 .. N - 1 : /\ after(n) \in Nat /\ n < after(n)
                            /\ data(n) \in Seq(B) /\ buffer[n] \in B
  <2> SUFFICES ASSUME NEW n \in 0 .. N - 1
               PROVE  /\ after(n) \in Nat /\ n < after(n)
                      /\ data(n) \in Seq(B) /\ buffer[n] \in B
    OBVIOUS
  <2>1. after(n) \in Nat /\ n < after(n) /\ n \in Nat
    BY <1>1
  <2> HIDE DEF after
  <2>2. \A i \in n + 2 .. after(n) - 1 : buffer[i] \in B
    BY <2>1
  <2>3. buffer[n] \in B
    BY <2>1
  <2>4. n + 2 \in Int /\ after(n) - 1 \in Int
    BY <2>1
  <2> HIDE DEF B
  <2>5. data(n) \in Seq(B)
    BY <2>2, <2>4, SubSeqProperties
  <2> QED
    BY <2>1, <2>3, <2>5
<1> HIDE DEF after, data, B
<1>4. PICK f : f \in [0 .. N -> T] /\ Precedes(f, N, <<>>, step, next)
  <2>1. next \in [0 .. N - 1 -> 0 .. N] /\ \A n \in 0 .. N - 1 : n < next[n]
    BY <1>1, <1>3
  <2>2. step \in [0 .. N - 1 -> [T -> T]]
    <3>1. \A n \in 0 .. N - 1 : \A s \in T : WithChunk(buffer[n], data(n), s) \in T
      BY <1>3, WithChunkTyped
    <3> HIDE DEF T
    <3> QED
      BY <3>1
  <2>3. <<>> \in T
    OBVIOUS
  <2> HIDE DEF step, next, T
  <2> QED
    BY <1>1, <2>1, <2>2, <2>3, RecursionDownFrom
<1> DEFINE h == [i \in Nat |-> IF i >= N THEN <<>> ELSE f[i]]
<1>5. \A i \in Nat : h[i] = IF i >= N THEN <<>> ELSE f[i]
  OBVIOUS
<1>6. ASSUME NEW n \in 0 .. N - 1 PROVE f[n] = WithChunk(buffer[n], data(n), h[after(n)])
  <2>1. next[n] \in 0 .. N /\ next[n] = IF after(n) >= N THEN N ELSE after(n)
    BY <1>1, <1>3
  <2>2. f[n] = step[n][f[next[n]]] /\ f[N] = <<>>
    BY <1>4 DEF Precedes
  <2>3. f[next[n]] \in T
    BY <1>4, <2>1
  <2> HIDE DEF next, T, h
  <2>4. f[n] = WithChunk(buffer[n], data(n), f[next[n]])
    BY <2>2, <2>3
  <2>5. f[next[n]] = h[after(n)]
    BY <1>3, <1>5, <2>1, <2>2
  <2> QED
    BY <2>4, <2>5
<1>7. \A i \in Nat : i >= N \/ (i \in 0 .. N - 1 /\ ~(i >= N))
  BY <1>1
<1>8. \A i \in Nat : h[i] = Body(h, i)
  <2> HIDE DEF h
  <2> QED
    BY <1>5, <1>6, <1>7
<1>9. IsFrom(h)
  <2> HIDE DEF Body
  <2> QED
    BY <1>8
<1>10. IsFrom(from)
  <2> HIDE DEF IsFrom, h
  <2> QED
    BY <1>9 DEF from
<1>11. \A i \in Nat : from[i] = Body(from, i)
  <2> HIDE DEF Body
  <2> QED
    BY <1>10, Zenon
<1>12. \A i \in 1 .. N - 1 : i \in Nat /\ ~(i >= N)
  BY <1>1
<1>13. \A i \in 1 .. N - 1 : from[i] = WithChunk(buffer[i], data(i), from[after(i)])
  BY <1>11, <1>12
<1>14. \A i \in Nat : i >= N => from[i] = <<>>
  BY <1>11
<1>15. \A i \in 1 .. N - 1 :
         from[i] = WithChunk(buffer[i], SubSeq(buffer, i + 2, i + 2 + buffer[i + 1] - 1),
                             from[i + 2 + buffer[i + 1]])
  <2> SUFFICES ASSUME NEW i \in 1 .. N - 1
               PROVE  from[i] = WithChunk(buffer[i],
                                  SubSeq(buffer, i + 2, i + 2 + buffer[i + 1] - 1),
                                  from[i + 2 + buffer[i + 1]])
    OBVIOUS
  <2>1. after(i) = i + 2 + buffer[i + 1]
    BY DEF after
  <2>2. data(i) = SubSeq(buffer, i + 2, i + 2 + buffer[i + 1] - 1)
    <3>1. data(i) = SubSeq(buffer, i + 2, after(i) - 1)
      BY DEF data
    <3>2. after(i) - 1 = i + 2 + buffer[i + 1] - 1
      <4>1. i \in Nat /\ buffer[i + 1] \in Nat
        BY <1>1
      <4> QED
        BY <2>1, <4>1
    <3> QED
      BY <3>1, <3>2, Zenon
  <2>3. from[i] = WithChunk(buffer[i], data(i), from[after(i)])
    BY <1>13
  <2> QED
    BY <2>1, <2>2, <2>3
<1> QED
  BY <1>2, <1>14, <1>15 DEF N

\* What the items from one on are taken for, from what the next ones are.
WithItem(t, rest) ==
  IF Len(t.value) % MaxSize = 0 /\ rest # <<>> /\ rest[1].type = t.type
  THEN <<Tlv(t.type, t.value \o rest[1].value)>> \o Tail(rest)
  ELSE <<t>> \o rest

LEMMA WithItemTyped ==
  ASSUME NEW t \in Items, NEW rest \in Seq(Items)
  PROVE  /\ WithItem(t, rest) \in Seq(Items) /\ WithItem(t, rest) # <<>>
         /\ WithItem(t, rest)[1].type = t.type
<1> DEFINE joins == Len(t.value) % MaxSize = 0 /\ rest # <<>> /\ rest[1].type = t.type
<1>1. CASE joins
  <2>1. rest[1] \in Items /\ Tail(rest) \in Seq(Items)
    BY <1>1
  <2> DEFINE x == Tlv(t.type, t.value \o rest[1].value)
  <2>2. x \in Items /\ x.type = t.type
    BY <2>1 DEF Items, Tlv
  <2>3. WithItem(t, rest) = <<x>> \o Tail(rest)
    BY <1>1 DEF WithItem
  <2> HIDE DEF x
  <2> QED
    BY <2>1, <2>2, <2>3
<1>2. CASE ~joins
  <2>1. WithItem(t, rest) = <<t>> \o rest
    BY <1>2 DEF WithItem
  <2> QED
    BY <2>1
<1> QED
  BY <1>1, <1>2

LEMMA MergedSteps ==
  ASSUME NEW items \in Seq(Items)
  PROVE  \E from :
           /\ Merged(items) = from[1] /\ from[Len(items) + 1] = <<>>
           /\ \A i \in 1 .. Len(items) + 1 : from[i] \in Seq(Items)
           /\ \A i \in 1 .. Len(items) : from[i] = WithItem(items[i], from[i + 1])
<1> DEFINE N == Len(items)
           T == Seq(Items)
           next == [n \in 0 .. N - 1 |-> n + 1]
           step == [n \in 0 .. N - 1 |-> [s \in T |-> WithItem(items[n + 1], s)]]
           Body(g, i) == IF i > N THEN <<>> ELSE WithItem(items[i], g[i + 1])
           IsFrom(g) == g = [i \in 1 .. N + 1 |-> Body(g, i)]
           from == CHOOSE g : IsFrom(g)
<1>1. N \in Nat /\ \A i \in 1 .. N : items[i] \in Items
  OBVIOUS
<1>2. Merged(items) = from[1]
  BY DEF Merged, WithItem
<1> HIDE DEF N, from
<1>3. \A n \in 0 .. N - 1 : /\ n + 1 \in 1 .. N /\ n + 1 \in 0 .. N /\ n \in 0 .. N
                            /\ items[n + 1] \in Items
  BY <1>1
<1>4. PICK f : f \in [0 .. N -> T] /\ Precedes(f, N, <<>>, step, next)
  <2>1. next \in [0 .. N - 1 -> 0 .. N] /\ \A n \in 0 .. N - 1 : n < next[n]
    BY <1>3
  <2>2. step \in [0 .. N - 1 -> [T -> T]]
    <3>1. \A n \in 0 .. N - 1 : \A s \in T : WithItem(items[n + 1], s) \in T
      BY <1>3, WithItemTyped
    <3> HIDE DEF T
    <3> QED
      BY <3>1
  <2>3. <<>> \in T
    OBVIOUS
  <2> HIDE DEF step, next, T
  <2> QED
    BY <1>1, <2>1, <2>2, <2>3, RecursionDownFrom
<1>5. \A n \in 0 .. N - 1 : f[n] = WithItem(items[n + 1], f[n + 1])
  <2> SUFFICES ASSUME NEW n \in 0 .. N - 1 PROVE f[n] = WithItem(items[n + 1], f[n + 1])
    OBVIOUS
  <2>1. f[n] = step[n][f[next[n]]]
    BY <1>4 DEF Precedes
  <2>2. next[n] = n + 1 /\ f[n + 1] \in T
    BY <1>3, <1>4
  <2> HIDE DEF next, T
  <2> QED
    BY <2>1, <2>2
<1> HIDE DEF step, next
<1> DEFINE h == [i \in 1 .. N + 1 |-> f[i - 1]]
<1>6. \A i \in 1 .. N + 1 : h[i] = Body(h, i)
  <2>1. ASSUME NEW i \in 1 .. N PROVE h[i] = WithItem(items[i], h[i + 1])
    <3>1. h[i] = f[i - 1] /\ h[i + 1] = f[i + 1 - 1] /\ i - 1 \in 0 .. N - 1
      BY <1>1
    <3>2. i - 1 + 1 = i /\ i + 1 - 1 = i
      OBVIOUS
    <3> HIDE DEF h
    <3>3. f[i - 1] = WithItem(items[i - 1 + 1], f[i - 1 + 1])
      BY <1>5, <3>1
    <3> QED
      BY <3>1, <3>2, <3>3
  <2>2. h[N + 1] = <<>>
    <3>1. PICK i \in 1 .. N + 1 : i = N + 1 /\ i - 1 = N
      BY <1>1
    <3>2. f[N] = <<>>
      BY <1>4 DEF Precedes
    <3>3. h[i] = f[i - 1]
      OBVIOUS
    <3> HIDE DEF h
    <3> QED
      BY <3>1, <3>2, <3>3
  <2>3. \A i \in 1 .. N + 1 : (i = N + 1 /\ i > N) \/ (i \in 1 .. N /\ ~(i > N))
    BY <1>1
  <2> HIDE DEF h
  <2> QED
    BY <2>1, <2>2, <2>3
<1>7. IsFrom(h)
  <2> HIDE DEF Body
  <2> QED
    BY <1>6
<1>8. IsFrom(from)
  <2> HIDE DEF IsFrom, h
  <2> QED
    BY <1>7 DEF from
<1>9. \A i \in 1 .. N + 1 : from[i] = Body(from, i)
  <2> HIDE DEF Body
  <2> QED
    BY <1>8, Zenon
<1>10. /\ from[N + 1] = <<>>
       /\ \A i \in 1 .. N : from[i] = WithItem(items[i], from[i + 1])
  <2>1. N + 1 \in 1 .. N + 1 /\ N + 1 > N /\ \A i \in 1 .. N : i \in 1 .. N + 1 /\ ~(i > N)
    BY <1>1
  <2> QED
    BY <1>9, <2>1
<1> DEFINE E == {i \in 0 .. N : from[i + 1] \in T}
<1>11. IsInductiveDown(E, N)
  <2>1. N \in E
    <3>1. N \in 0 .. N /\ <<>> \in T
      BY <1>1
    <3> HIDE DEF T
    <3> QED
      BY <1>10, <3>1
  <2>2. ASSUME NEW m \in 0 .. N - 1, m + 1 .. N \subseteq E PROVE m \in E
    <3>1. m + 1 \in 1 .. N /\ m + 1 \in m + 1 .. N /\ m \in 0 .. N
      BY <1>1
    <3>2. from[m + 1 + 1] \in T
      BY <2>2, <3>1
    <3> HIDE DEF T
    <3>3. from[m + 1] \in T
      BY <1>1, <1>10, <3>1, <3>2, WithItemTyped DEF T
    <3> QED
      BY <3>1, <3>3
  <2> HIDE DEF E
  <2> QED
    BY <2>1, <2>2 DEF IsInductiveDown
<1>12. \A i \in 0 .. N : i \in E
  <2> HIDE DEF E
  <2> QED
    BY <1>1, <1>11, InductionDown
<1>13. \A i \in 1 .. N + 1 : from[i] \in T
  <2>1. \A i \in 1 .. N + 1 : i - 1 \in 0 .. N /\ i - 1 + 1 = i
    BY <1>1
  <2> HIDE DEF T
  <2> QED
    BY <1>12, <2>1
<1> QED
  BY <1>2, <1>10, <1>13 DEF N

IsAssociative(a, b, c) == (a \o b) \o c = a \o (b \o c)

LEMMA ConcatIsAssociative ==
  ASSUME NEW S, NEW a \in Seq(S), NEW b \in Seq(S), NEW c \in Seq(S)
  PROVE  IsAssociative(a, b, c)
BY DEF IsAssociative

\* At p there is a, and then b.
IsAt(text, p, a, b) ==
  /\ p + Len(a) \in 1 .. Len(text) + 1
  /\ \A k \in 1 .. Len(a) : text[p + k - 1] = a[k]
  /\ SubSeq(text, p, p + Len(a) - 1) = a
  /\ Rest(text, p + Len(a)) = b

LEMMA RestOfRest ==
  ASSUME NEW S, NEW text \in Seq(S), NEW p \in 1 .. Len(text) + 1,
         NEW a \in Seq(S), NEW b \in Seq(S), Rest(text, p) = a \o b
  PROVE  IsAt(text, p, a, b)
<1>1. /\ a \o b \in Seq(S) /\ Len(a \o b) = Len(a) + Len(b)
      /\ \A i \in 1 .. Len(a) + Len(b) :
           (a \o b)[i] = IF i <= Len(a) THEN a[i] ELSE b[i - Len(a)]
  BY ConcatProperties
<1>2. /\ Len(Rest(text, p)) = Len(text) + 1 - p
      /\ \A k \in 1 .. Len(text) + 1 - p : Rest(text, p)[k] = text[p + k - 1]
  BY RestTyped
<1>3. Len(a) \in Nat /\ Len(b) \in Nat /\ Len(text) \in Nat
  OBVIOUS
<1>4. Len(a) + Len(b) = Len(text) + 1 - p
  BY <1>1, <1>2
<1>5. \A k \in 1 .. Len(a) + Len(b) :
        text[p + k - 1] = IF k <= Len(a) THEN a[k] ELSE b[k - Len(a)]
  BY <1>1, <1>2, <1>4
<1>6. p + Len(a) \in 1 .. Len(text) + 1 /\ Len(text) + 1 - (p + Len(a)) = Len(b)
  BY <1>3, <1>4
<1>7. \A k \in 1 .. Len(a) : text[p + k - 1] = a[k]
  BY <1>3, <1>5
<1>8. SubSeq(text, p, p + Len(a) - 1) = a
  <2> DEFINE u == SubSeq(text, p, p + Len(a) - 1)
  <2>1. /\ u \in Seq(S) /\ Len(u) = Len(a)
        /\ \A k \in 1 .. Len(a) : u[k] = text[p + k - 1]
    BY <1>3, <1>6
  <2> HIDE DEF u
  <2>2. u = a
    BY <1>7, <2>1, SeqEqual
  <2> QED
    BY <2>2 DEF u
<1>9. Rest(text, p + Len(a)) = b
  <2> DEFINE q == p + Len(a)
             u == Rest(text, q)
  <2>1. /\ u \in Seq(S) /\ Len(u) = Len(text) + 1 - q
        /\ \A k \in 1 .. Len(text) + 1 - q : u[k] = text[q + k - 1]
    BY <1>6, RestTyped
  <2> HIDE DEF u
  <2>2. ASSUME NEW k \in 1 .. Len(b) PROVE u[k] = b[k]
    <3>1. /\ Len(a) + k \in 1 .. Len(a) + Len(b) /\ ~(Len(a) + k <= Len(a))
          /\ (Len(a) + k) - Len(a) = k /\ p + (Len(a) + k) - 1 = q + k - 1
      BY <1>3
    <3>2. text[p + (Len(a) + k) - 1] = b[(Len(a) + k) - Len(a)]
      BY <1>5, <3>1
    <3>3. k \in 1 .. Len(text) + 1 - q
      BY <1>6
    <3> QED
      BY <2>1, <3>1, <3>2, <3>3
  <2>3. Len(u) = Len(b)
    BY <1>6, <2>1
  <2>4. u = b
    BY <2>1, <2>2, <2>3, SeqEqual
  <2> QED
    BY <2>4 DEF u
<1> QED
  BY <1>6, <1>7, <1>8, <1>9 DEF IsAt

\* A chunk of an item is at p, and then the rest.
IsChunkAt(text, p, t, n, rest) ==
  LET size == ChunkSize(Len(t.value) - n)
  IN  /\ p \in 1 .. Len(text) - 1 /\ p + 2 + size \in 1 .. Len(text) + 1
      /\ text[p] = t.type /\ text[p + 1] = size
      /\ SubSeq(text, p + 2, p + 2 + size - 1) = SubSeq(t.value, n + 1, n + size)
      /\ Rest(text, p + 2 + size) = rest

LEMMA ChunkRead ==
  ASSUME NEW t \in Items, NEW n \in 0 .. Len(t.value) - 1,
         NEW text \in Seq(Nat), NEW p \in 1 .. Len(text) + 1,
         NEW rest \in Seq(Nat), Rest(text, p) = Chunk(t, n) \o rest
  PROVE  IsChunkAt(text, p, t, n, rest)
<1> DEFINE size == ChunkSize(Len(t.value) - n)
           head == <<t.type, size>>
           data == SubSeq(t.value, n + 1, n + size)
<1>1. /\ t.value \in Seq(Nat) /\ t.type \in Nat /\ n \in Nat
      /\ size \in Nat /\ n + size <= Len(t.value)
  <2>1. t.value \in Seq(Nat) /\ t.type \in Nat
    BY DEF Items
  <2>2. size \in 1 .. MaxSize /\ n + size \in n + 1 .. Len(t.value)
    BY ChunkTyped
  <2> HIDE DEF size
  <2> QED
    BY <2>1, <2>2, MaxSizeAssumption
<1>2. Chunk(t, n) = head \o data
  BY DEF Chunk
<1> HIDE DEF size
<1>3. data \in Seq(Nat) /\ Len(data) = size
  BY DataTyped DEF size
<1>4. head \in Seq(Nat) /\ Len(head) = 2 /\ head[1] = t.type /\ head[2] = size
  BY <1>1
<1> DEFINE S == Nat
<1> HIDE DEF head, data
<1>5. /\ head \in Seq(S) /\ data \in Seq(S) /\ rest \in Seq(S) /\ text \in Seq(S)
      /\ data \o rest \in Seq(S)
  BY <1>3, <1>4, ConcatProperties
<1> HIDE DEF S
<1>6. Rest(text, p) = head \o (data \o rest)
  <2>1. Rest(text, p) = (head \o data) \o rest
    BY <1>2
  <2>2. IsAssociative(head, data, rest)
    BY <1>5, ConcatIsAssociative, Zenon
  <2> QED
    BY <2>1, <2>2 DEF IsAssociative
<1>7. /\ p + Len(head) \in 1 .. Len(text) + 1
      /\ \A k \in 1 .. Len(head) : text[p + k - 1] = head[k]
      /\ Rest(text, p + Len(head)) = data \o rest
  <2>1. IsAt(text, p, head, data \o rest)
    BY <1>5, <1>6, RestOfRest, Zenon
  <2> QED
    BY <2>1 DEF IsAt
<1>8. /\ p + 2 \in 1 .. Len(text) + 1 /\ text[p] = t.type /\ text[p + 1] = size
      /\ Rest(text, p + 2) = data \o rest
  <2>1. 1 \in 1 .. 2 /\ 2 \in 1 .. 2 /\ p + 1 - 1 = p /\ p + 2 - 1 = p + 1
    OBVIOUS
  <2>2. text[p + 1 - 1] = head[1] /\ text[p + 2 - 1] = head[2]
    BY <1>4, <1>7, <2>1
  <2> QED
    BY <1>4, <1>7, <2>1, <2>2
<1>9. /\ (p + 2) + Len(data) \in 1 .. Len(text) + 1
      /\ SubSeq(text, p + 2, (p + 2) + Len(data) - 1) = data
      /\ Rest(text, (p + 2) + Len(data)) = rest
  <2>1. PICK q \in 1 .. Len(text) + 1 : q = p + 2 /\ Rest(text, q) = data \o rest
    BY <1>8
  <2>2. IsAt(text, q, data, rest)
    BY <1>5, <2>1, RestOfRest, Zenon
  <2> QED
    BY <2>1, <2>2 DEF IsAt
<1>10. p \in 1 .. Len(text) - 1
  BY <1>8
<1> QED
  BY <1>3, <1>8, <1>9, <1>10 DEF size, data, IsChunkAt

\* The last chunk of an item.
LEMMA LastChunk ==
  ASSUME NEW type, NEW data, NEW rest, Len(data) % MaxSize = 0 <=> Len(data) = MaxSize
  PROVE  WithChunk(type, data, rest) = WithItem(Tlv(type, data), rest)
BY DEF WithChunk, GoesOn, WithItem, Tlv

\* A chunk before others of its item.
IsJoined(type, a, b, rest) ==
  WithChunk(type, a, WithItem(Tlv(type, b), rest)) = WithItem(Tlv(type, a \o b), rest)

LEMMA FullChunk ==
  ASSUME NEW type \in Nat, NEW a \in Seq(Nat), NEW b \in Seq(Nat), NEW rest \in Seq(Items),
         Len(a) = MaxSize, Len(a \o b) % MaxSize = Len(b) % MaxSize
  PROVE  IsJoined(type, a, b, rest)
<1> DEFINE u == Tlv(type, b)
           w == WithItem(u, rest)
           joins == Len(b) % MaxSize = 0 /\ rest # <<>> /\ rest[1].type = type
<1>1. u \in Items /\ u.type = type /\ u.value = b
  BY DEF Items, Tlv
<1>2. w # <<>> /\ w[1].type = type
  BY <1>1, WithItemTyped
<1>3. WithChunk(type, a, w) = <<Tlv(type, a \o w[1].value)>> \o Tail(w)
  BY <1>2 DEF WithChunk, GoesOn
<1>4. CASE joins
  <2> DEFINE x == Tlv(type, b \o rest[1].value)
  <2>1. rest[1] \in Items /\ Tail(rest) \in Seq(Items)
    BY <1>4
  <2>2. rest[1].value \in Seq(Nat)
    BY <2>1 DEF Items
  <2>3. b \o rest[1].value \in Seq(Nat)
    BY <2>2, ConcatProperties
  <2>4. x \in Items /\ x.value = b \o rest[1].value
    BY <2>3 DEF Items, Tlv
  <2>5. w = <<x>> \o Tail(rest)
    BY <1>1, <1>4 DEF WithItem
  <2> HIDE DEF x
  <2>6. w[1] = x /\ Tail(w) = Tail(rest)
    BY <2>1, <2>4, <2>5
  <2>7. a \o w[1].value = (a \o b) \o rest[1].value
    <3>1. IsAssociative(a, b, rest[1].value)
      BY <2>2, ConcatIsAssociative, Zenon
    <3>2. a \o (b \o rest[1].value) = (a \o b) \o rest[1].value
      BY <3>1 DEF IsAssociative
    <3> HIDE DEF w
    <3> QED
      BY <2>4, <2>6, <3>2
  <2>8. WithItem(Tlv(type, a \o b), rest)
          = <<Tlv(type, (a \o b) \o rest[1].value)>> \o Tail(rest)
    BY <1>4 DEF WithItem, Tlv
  <2> HIDE DEF w
  <2> QED
    BY <1>3, <2>6, <2>7, <2>8 DEF w, u, IsJoined
<1>5. CASE ~joins
  <2>1. w = <<u>> \o rest
    BY <1>1, <1>5 DEF WithItem
  <2> HIDE DEF u
  <2>2. w[1] = u /\ Tail(w) = rest
    BY <1>1, <2>1
  <2>3. WithItem(Tlv(type, a \o b), rest) = <<Tlv(type, a \o b)>> \o rest
    BY <1>5 DEF WithItem, Tlv
  <2> HIDE DEF w
  <2> QED
    BY <1>1, <1>3, <2>2, <2>3 DEF w, u, IsJoined
<1> QED
  BY <1>4, <1>5 DEF IsJoined

\* A tail of a value is a chunk, and a shorter tail.
IsTailSplit(S, v, n, m) ==
  /\ SubSeq(v, n + 1, m) \in Seq(S) /\ Len(SubSeq(v, n + 1, m)) = m - n
  /\ SubSeq(v, m + 1, Len(v)) \in Seq(S) /\ Len(SubSeq(v, m + 1, Len(v))) = Len(v) - m
  /\ SubSeq(v, n + 1, m) \o SubSeq(v, m + 1, Len(v)) = SubSeq(v, n + 1, Len(v))

LEMMA TailSplit ==
  ASSUME NEW S, NEW v \in Seq(S), NEW n \in 0 .. Len(v), NEW m \in n .. Len(v)
  PROVE  IsTailSplit(S, v, n, m)
<1> DEFINE a == SubSeq(v, n + 1, m)
           b == SubSeq(v, m + 1, Len(v))
           c == SubSeq(v, n + 1, Len(v))
<1>1. /\ a \in Seq(S) /\ Len(a) = m - n
      /\ \A k \in 1 .. m - n : a[k] = v[n + k]
  OBVIOUS
<1>2. /\ b \in Seq(S) /\ Len(b) = Len(v) - m
      /\ \A k \in 1 .. Len(v) - m : b[k] = v[m + k]
  OBVIOUS
<1>3. /\ c \in Seq(S) /\ Len(c) = Len(v) - n
      /\ \A k \in 1 .. Len(v) - n : c[k] = v[n + k]
  OBVIOUS
<1> HIDE DEF a, b, c
<1>4. /\ a \o b \in Seq(S) /\ Len(a \o b) = Len(a) + Len(b)
      /\ \A k \in 1 .. Len(a) + Len(b) :
           (a \o b)[k] = IF k <= Len(a) THEN a[k] ELSE b[k - Len(a)]
  BY <1>1, <1>2, ConcatProperties
<1> DEFINE u == a \o b
<1> HIDE DEF u
<1>5. Len(u) = Len(v) - n /\ u \in Seq(S)
  BY <1>1, <1>2, <1>4 DEF u
<1>6. ASSUME NEW k \in 1 .. Len(v) - n PROVE u[k] = c[k]
  <2>1. k \in 1 .. Len(a) + Len(b)
    BY <1>1, <1>2
  <2>2. u[k] = IF k <= Len(a) THEN a[k] ELSE b[k - Len(a)]
    BY <1>4, <2>1 DEF u
  <2>3. CASE k <= m - n
    BY <1>1, <1>3, <2>2, <2>3
  <2>4. CASE ~(k <= m - n)
    <3>1. k - (m - n) \in 1 .. Len(v) - m /\ m + (k - (m - n)) = n + k
      BY <2>4
    <3> QED
      BY <1>1, <1>2, <1>3, <2>2, <2>4, <3>1
  <2> QED
    BY <2>3, <2>4
<1>7. u = c
  BY <1>3, <1>5, <1>6, SeqEqual
<1> QED
  BY <1>1, <1>2, <1>7 DEF a, b, c, u, IsTailSplit

\* What is read from each place is what tlv_parse reads there.
ReadsFrom(from, text) ==
  \A i \in 1 .. Len(text) - 1 :
    from[i] = WithChunk(text[i], SubSeq(text, i + 2, i + 2 + text[i + 1] - 1),
                        from[i + 2 + text[i + 1]])

\* What is read from p on is t, and then what is read from q on.
IsItemRead(from, t, p, q) == from[p] = WithItem(t, from[q])

\* The chunks of an item are read as that item.
LEMMA ItemParsed ==
  ASSUME NEW t \in Items, t.value # <<>>, NEW text \in Seq(Nat),
         NEW p \in 1 .. Len(text) + 1, NEW q \in 1 .. Len(text) + 1,
         Rest(text, p) = Item(t) \o Rest(text, q),
         NEW from, ReadsFrom(from, text), from[q] \in Seq(Items)
  PROVE  IsItemRead(from, t, p, q)
<1> DEFINE N == Len(t.value)
           end == Rest(text, q)
           Left(n) == SubSeq(t.value, n + 1, N)
           Taken(n) == IF n = N THEN from[q] ELSE WithItem(Tlv(t.type, Left(n)), from[q])
<1>1. PICK written :
        /\ Item(t) = written[0] /\ written[N] = <<>>
        /\ \A n \in 0 .. N : written[n] \in Seq(Nat)
        /\ \A n \in 0 .. N - 1 : written[n] = Chunk(t, n) \o written[n + ChunkSize(N - n)]
  BY WrittenSteps
<1>2. N \in Nat \ {0} /\ t.value \in Seq(Nat) /\ t.type \in Nat
  BY DEF Items
<1>3. end \in Seq(Nat)
  BY RestTyped
<1> DEFINE D == {n \in 0 .. N : \A x \in 1 .. Len(text) + 1 :
                                  Rest(text, x) = written[n] \o end => from[x] = Taken(n)}
<1>4. N \in D
  <2>1. ASSUME NEW x \in 1 .. Len(text) + 1, Rest(text, x) = written[N] \o end
        PROVE  x = q
    <3>1. Rest(text, x) = end
      BY <1>1, <1>3, <2>1
    <3>2. Len(Rest(text, x)) = Len(text) + 1 - x /\ Len(Rest(text, q)) = Len(text) + 1 - q
      BY RestTyped
    <3> QED
      BY <3>1, <3>2
  <2>2. N \in 0 .. N /\ Taken(N) = from[q]
    BY <1>2
  <2> HIDE DEF N, Taken, end
  <2> QED
    BY <2>1, <2>2
<1>5. ASSUME NEW n \in 0 .. N - 1, n + 1 .. N \subseteq D PROVE n \in D
  <2> DEFINE size == ChunkSize(N - n)
             next == n + size
             data == SubSeq(t.value, n + 1, n + size)
  <2>1. /\ size \in 1 .. MaxSize /\ next \in n + 1 .. N /\ next \in n .. N
        /\ n \in 0 .. N /\ next \in 0 .. N /\ N - n \in Nat \ {0} /\ MaxSize \in Nat
    <3>1. size \in 1 .. MaxSize /\ next \in n + 1 .. N
      BY ChunkTyped
    <3> HIDE DEF size, N
    <3>2. next \in n .. N /\ n \in 0 .. N /\ next \in 0 .. N /\ N - n \in Nat \ {0}
      <4> HIDE DEF next
      <4> QED
        BY <1>2, <3>1
    <3> QED
      BY <3>1, <3>2, MaxSizeAssumption
  <2>2. ASSUME NEW x \in 1 .. Len(text) + 1, Rest(text, x) = written[n] \o end
        PROVE  from[x] = WithChunk(t.type, data, Taken(next))
    <3> DEFINE y == x + 2 + size
               rest == written[next] \o end
    <3>1. rest \in Seq(Nat)
      BY <1>1, <1>3, <2>1, ConcatProperties
    <3>2. Rest(text, x) = Chunk(t, n) \o rest
      <4>1. Chunk(t, n) \in Seq(Nat) /\ written[next] \in Seq(Nat)
        BY <1>1, <2>1, ChunkTyped
      <4>2. IsAssociative(Chunk(t, n), written[next], end)
        BY <1>3, <4>1, ConcatIsAssociative, Zenon
      <4>3. written[n] = Chunk(t, n) \o written[next]
        BY <1>1
      <4> HIDE DEF end, next
      <4> QED
        BY <2>2, <4>2, <4>3 DEF IsAssociative
    <3> HIDE DEF rest, end
    <3>3. /\ x \in 1 .. Len(text) - 1 /\ y \in 1 .. Len(text) + 1
          /\ text[x] = t.type /\ text[x + 1] = size
          /\ SubSeq(text, x + 2, x + 2 + size - 1) = data
          /\ Rest(text, y) = rest
      <4>1. IsChunkAt(text, x, t, n, rest)
        BY <3>1, <3>2, ChunkRead, Zenon
      <4> QED
        BY <4>1 DEF IsChunkAt
    <3>4. from[y] = Taken(next)
      <4>1. next \in D
        BY <1>5, <2>1
      <4> HIDE DEF Taken, next, y
      <4> QED
        BY <3>3, <4>1 DEF rest
    <3>5. from[x] = WithChunk(t.type, data, from[y])
      BY <3>3 DEF ReadsFrom
    <3> QED
      BY <3>4, <3>5
  <2>3. /\ data \in Seq(Nat) /\ Len(data) = size
        /\ Left(next) \in Seq(Nat) /\ Len(Left(next)) = N - next
        /\ Left(n) = data \o Left(next) /\ Len(Left(n)) = N - n
    <3>1. n \in 0 .. Len(t.value) /\ next \in n .. Len(t.value)
      BY <2>1
    <3>2. next - n = size
      BY <1>2, <2>1
    <3>3. /\ data \in Seq(Nat) /\ Len(data) = next - n
          /\ Left(next) \in Seq(Nat) /\ Len(Left(next)) = N - next
          /\ data \o Left(next) = Left(n)
      <4>1. IsTailSplit(Nat, t.value, n, next)
        BY <1>2, <3>1, TailSplit, Zenon
      <4> QED
        BY <4>1 DEF IsTailSplit
    <3>4. Len(Left(n)) = N - n
      BY <1>2, <2>1
    <3> QED
      BY <3>2, <3>3, <3>4
  <2>4. WithChunk(t.type, data, Taken(next)) = Taken(n)
    <3>1. Taken(n) = WithItem(Tlv(t.type, Left(n)), from[q])
      BY <2>1
    <3> HIDE DEF size, data, Left, D
    <3>2. CASE next = N
      <4>1. size = N - n
        BY <1>2, <2>1, <3>2
      <4>2. Left(n) = data
        BY <3>2 DEF data, Left
      <4>3. Len(data) % MaxSize = 0 <=> Len(data) = MaxSize
        BY <2>1, <2>3, <4>1, ChunkSteps DEF size
      <4>4. WithChunk(t.type, data, from[q]) = WithItem(Tlv(t.type, data), from[q])
        BY <4>3, LastChunk
      <4> QED
        BY <3>1, <3>2, <4>2, <4>4
    <3>3. CASE next # N
      <4>1. size # N - n /\ N - next = N - n - size
        <5> HIDE DEF N
        <5> QED
          BY <1>2, <2>1, <3>3
      <4>2. size = MaxSize /\ (N - n) % MaxSize = (N - n - size) % MaxSize
        BY <2>1, <4>1, ChunkSteps DEF size
      <4>3. Len(data) = MaxSize /\ Len(data \o Left(next)) % MaxSize = Len(Left(next)) % MaxSize
        BY <2>3, <4>1, <4>2
      <4>4. IsJoined(t.type, data, Left(next), from[q])
        BY <1>2, <2>3, <4>3, FullChunk, Zenon
      <4> HIDE DEF next
      <4> QED
        BY <2>3, <3>1, <3>3, <4>4 DEF IsJoined
    <3> QED
      BY <3>2, <3>3
  <2> HIDE DEF Taken, data, next
  <2> QED
    BY <2>1, <2>2, <2>4
<1>6. 0 \in D
  <2> HIDE DEF D, N
  <2>1. IsInductiveDown(D, N)
    BY <1>4, <1>5 DEF IsInductiveDown
  <2>2. 0 \in 0 .. N
    BY <1>2
  <2> QED
    BY <1>2, <2>1, <2>2, InductionDown
<1>7. Tlv(t.type, Left(0)) = t
  <2>1. Left(0) = t.value
    BY <1>2
  <2> QED
    BY <2>1 DEF Tlv, Items
<1>8. from[p] = Taken(0)
  BY <1>1, <1>6
<1> QED
  BY <1>2, <1>7, <1>8 DEF IsItemRead

\* What was written is read, but for the items that are taken for one.
LEMMA FormatParsed ==
  ASSUME NEW items \in Seq(Items), items # <<>>,
         \A i \in 1 .. Len(items) : items[i].value # <<>>
  PROVE  Parse(Format(items)) = Merged(items)
<1> DEFINE N == Len(items)
           text == Format(items)
<1>1. /\ N \in Nat \ {0} /\ text \in Seq(Nat) /\ Len(text) \in Nat
      /\ \A n \in 1 .. N : items[n] \in Items
  BY FormatRests
<1>2. PICK at :
        /\ at[1] = 1 /\ at[N + 1] = Len(text) + 1
        /\ \A n \in 1 .. N : /\ at[n] \in 1 .. Len(text) + 1
                             /\ Rest(text, at[n]) = Item(items[n]) \o Rest(text, at[n + 1])
  BY FormatRests
<1> HIDE DEF text
<1>3. PICK from : /\ Parse(text) = from[1]
                  /\ \A i \in Nat : i >= Len(text) => from[i] = <<>>
                  /\ ReadsFrom(from, text)
  BY <1>1, ParseSteps DEF ReadsFrom
<1>4. PICK merged : /\ Merged(items) = merged[1] /\ merged[N + 1] = <<>>
                    /\ \A i \in 1 .. N + 1 : merged[i] \in Seq(Items)
                    /\ \A i \in 1 .. N : merged[i] = WithItem(items[i], merged[i + 1])
  BY MergedSteps
<1> HIDE DEF N
<1> DEFINE D == {n \in 0 .. N : /\ at[n + 1] \in 1 .. Len(text) + 1
                                /\ from[at[n + 1]] = merged[n + 1]}
<1>5. N \in D
  <2>1. Len(text) + 1 \in Nat /\ Len(text) + 1 >= Len(text) /\ N \in 0 .. N
    BY <1>1
  <2>2. from[Len(text) + 1] = <<>>
    BY <1>3, <2>1
  <2>3. Len(text) + 1 \in 1 .. Len(text) + 1
    BY <1>1
  <2> QED
    BY <1>2, <1>4, <2>1, <2>2, <2>3
<1>6. ASSUME NEW n \in 0 .. N - 1, n + 1 .. N \subseteq D PROVE n \in D
  <2> DEFINE i == n + 1
             t == items[i]
             p == at[i]
             q == at[i + 1]
  <2>1. i \in 1 .. N /\ i \in n + 1 .. N /\ n \in 0 .. N /\ i + 1 \in 1 .. N + 1
    BY <1>1
  <2>2. p \in 1 .. Len(text) + 1 /\ Rest(text, p) = Item(t) \o Rest(text, q)
    BY <1>2, <2>1
  <2>3. i \in D
    BY <1>6, <2>1
  <2>4. q \in 1 .. Len(text) + 1 /\ from[q] = merged[i + 1]
    BY <2>3
  <2>5. from[q] \in Seq(Items)
    BY <1>4, <2>1, <2>4
  <2>6. t \in Items /\ t.value # <<>>
    BY <1>1, <2>1 DEF N
  <2>7. from[p] = WithItem(t, from[q])
    <3> HIDE DEF t, p, q
    <3>1. text \in Seq(Nat) /\ ReadsFrom(from, text)
      BY <1>1, <1>3
    <3>2. IsItemRead(from, t, p, q)
      BY <2>2, <2>4, <2>5, <2>6, <3>1, ItemParsed, Zenon
    <3> QED
      BY <3>2 DEF IsItemRead
  <2>8. from[p] = merged[i]
    <3> HIDE DEF p, q
    <3> QED
      BY <1>4, <2>1, <2>4, <2>7
  <2> QED
    BY <2>1, <2>2, <2>8
<1>7. 0 \in D
  <2> HIDE DEF D
  <2>1. IsInductiveDown(D, N)
    BY <1>5, <1>6 DEF IsInductiveDown
  <2>2. 0 \in 0 .. N /\ N \in Nat
    BY <1>1
  <2> QED
    BY <2>1, <2>2, InductionDown
<1>8. from[1] = merged[1]
  <2>1. 0 + 1 = 1
    OBVIOUS
  <2>2. from[at[0 + 1]] = merged[0 + 1]
    BY <1>7
  <2> QED
    BY <1>2, <2>1, <2>2
<1> QED
  BY <1>3, <1>4, <1>8 DEF text

\* No items, no bytes.
LEMMA NothingFormatted ==
  /\ Format(<<>>) = <<>> /\ RequiredSize(<<>>) = 0
  /\ Parse(<<>>) = <<>> /\ Merged(<<>>) = <<>>
<1>1. RequiredSize(<<>>) = 0
  <2>1. <<>> \in Seq(Items) /\ Len(<<>>) = 0
    OBVIOUS
  <2> QED
    BY <2>1, RequiredSteps
<1>2. Parse(<<>>) = <<>>
  <2>1. <<>> \in Seq(Nat) /\ Len(<<>>) = 0 /\ 1 \in Nat /\ 1 >= 0
    OBVIOUS
  <2> QED
    BY <2>1, ParseSteps
<1>3. Merged(<<>>) = <<>>
  <2>1. <<>> \in Seq(Items) /\ Len(<<>>) + 1 = 1
    OBVIOUS
  <2> QED
    BY <2>1, MergedSteps
<1>4. Format(<<>>) = <<>>
  <2> DEFINE none == [i \in DOMAIN <<>> |-> Item(<<>>[i])]
  <2>1. none = <<>>
    OBVIOUS
  <2>2. Format(<<>>) = FlattenSeq(none)
    BY DEF Format
  <2> HIDE DEF none
  <2>3. FlattenSeq(<<>>) = <<>>
    BY DEF FlattenSeq
  <2> QED
    BY <2>1, <2>2, <2>3
<1> QED
  BY <1>1, <1>2, <1>3, <1>4

(* What tlv_format writes for items that are not empty is as long as it    *)
(* said, and tlv_parse reads the same items, joining those of one type     *)
(* that follow one of whole chunks: of items of every number and size.     *)
THEOREM FormattedIsParsed == Spec => []TlvRoundTrip
<1>1. InputTyped => TlvRoundTrip
  <2> SUFFICES ASSUME InputTyped, kind = "tlv" PROVE TlvRoundTrip
    BY DEF TlvRoundTrip
  <2> DEFINE value(i) == [k \in 1 .. input[i][2] |-> (i + k) % 4]
             items == [i \in DOMAIN input |-> Tlv(input[i][1], value(i))]
  <2>1. /\ input \in Seq(Symbols["tlv"])
        /\ \A i \in 1 .. Len(input) : input[i][1] \in Nat /\ input[i][2] \in Nat \ {0}
    BY SymbolsAssumption DEF InputTyped
  <2>2. ASSUME NEW i \in 1 .. Len(input)
        PROVE  value(i) \in Seq(Nat) /\ value(i) # <<>>
    <3>1. i \in Nat /\ input[i][2] \in Nat \ {0}
      BY <2>1
    <3>2. \A k \in 1 .. input[i][2] : (i + k) % 4 \in Nat
      BY <3>1
    <3>3. value(i) \in Seq(Nat) /\ Len(value(i)) = input[i][2]
      BY <3>1, <3>2
    <3> QED
      BY <3>1, <3>3
  <2>3. /\ items \in Seq(Items) /\ Len(items) = Len(input)
        /\ \A i \in 1 .. Len(items) : items[i].value # <<>>
    <3> HIDE DEF value
    <3>1. \A i \in 1 .. Len(input) : /\ Tlv(input[i][1], value(i)) \in Items
                                    /\ Tlv(input[i][1], value(i)).value # <<>>
      BY <2>1, <2>2 DEF Items, Tlv
    <3>2. DOMAIN input = 1 .. Len(input) /\ Len(input) \in Nat
      BY <2>1
    <3> HIDE DEF Items, Tlv
    <3> QED
      BY <3>1, <3>2
  <2> HIDE DEF items, value
  <2>4. Len(Format(items)) = RequiredSize(items) /\ Parse(Payload(items)) = Merged(items)
    <3>1. CASE items = <<>>
      <4>1. SubSeq(<<>>, 1, 0) = <<>>
        OBVIOUS
      <4> QED
        BY <3>1, <4>1, NothingFormatted DEF Payload
    <3>2. CASE items # <<>>
      <4>1. Format(items) \in Seq(Nat) /\ Len(Format(items)) = RequiredSize(items)
        BY <2>3, <3>2, FormatRests
      <4>2. Payload(items) = Format(items)
        <5>1. \A s \in Seq(Nat) : SubSeq(s, 1, Len(s)) = s
          OBVIOUS
        <5>2. Payload(items) = SubSeq(Format(items), 1, Len(Format(items)))
          BY <4>1 DEF Payload
        <5> QED
          BY <4>1, <5>1, <5>2
      <4> QED
        BY <2>3, <3>2, <4>1, <4>2, FormatParsed
    <3> QED
      BY <3>1, <3>2
  <2> QED
    BY <2>4 DEF TlvRoundTrip, items, value
<1> QED
  BY <1>1, InputAlways, PTL

-----------------------------------------------------------------------------
(* The parameters of a query.                                              *)

\* j is where the text from i on has the first character that stops, its end
\* being at n.
Stops(s, n, i, stops, j) ==
  /\ j \in i .. n /\ (j < n => s[j] \in stops)
  /\ \A k \in i .. j - 1 : s[k] \notin stops

LEMMA StopsOnce ==
  ASSUME NEW s, NEW n \in Nat, NEW i \in 1 .. n, NEW stops, NEW j, NEW m,
         Stops(s, n, i, stops, j), Stops(s, n, i, stops, m)
  PROVE  j = m
<1>1. j \in Int /\ m \in Int
  BY DEF Stops
<1>2. ~(j < m)
  <2> SUFFICES ASSUME j < m PROVE FALSE
    OBVIOUS
  <2>1. j \in i .. m - 1 /\ j < n
    BY <1>1 DEF Stops
  <2> QED
    BY <2>1 DEF Stops
<1>3. ~(m < j)
  <2> SUFFICES ASSUME m < j PROVE FALSE
    OBVIOUS
  <2>1. m \in i .. j - 1 /\ m < n
    BY <1>1 DEF Stops
  <2> QED
    BY <2>1 DEF Stops
<1> QED
  BY <1>1, <1>2, <1>3

LEMMA StopIs ==
  ASSUME NEW C, NEW s \in Seq(C), NEW stops, Null \in stops, Null \notin C,
         NEW i \in 1 .. Len(s) + 1
  PROVE  Stops(s, Len(s) + 1, i, stops, Stop(s, i, stops))
<1> DEFINE N == Len(s)
           Is(j) == Char(s, j) \in stops /\ \A k \in i .. j - 1 : Char(s, k) \notin stops
           T == {j \in i .. N + 1 : Char(s, j) \in stops}
<1>1. N \in Nat /\ i \in 1 .. N + 1 /\ \A k \in 1 .. N : Char(s, k) = s[k]
  BY DEF Char
<1>2. Char(s, N + 1) = Null
  BY <1>1 DEF Char
<1>3. PICK j \in T : \A k \in T : j <= k
  <2>1. T \subseteq Nat /\ N + 1 \in T
    BY <1>1, <1>2
  <2> HIDE DEF T
  <2> QED
    BY <2>1, LeastElement
<1> HIDE DEF N
<1>4. j \in i .. i + N /\ Is(j)
  <2>1. j \in i .. N + 1 /\ Char(s, j) \in stops
    OBVIOUS
  <2>2. ASSUME NEW k \in i .. j - 1 PROVE Char(s, k) \notin stops
    <3>1. k \in i .. N + 1 /\ ~(j <= k)
      BY <1>1, <2>1
    <3> QED
      BY <1>3, <3>1
  <2> QED
    BY <1>1, <2>1, <2>2
<1> HIDE DEF T
<1> DEFINE m == Stop(s, i, stops)
<1>5. m \in i .. i + N /\ Is(m)
  <2>1. m = CHOOSE x \in i .. i + N : Is(x)
    BY Zenon DEF Stop, N
  <2> HIDE DEF m, Is
  <2> QED
    BY <1>4, <2>1
<1> HIDE DEF m
<1>6. m <= N + 1
  <2> SUFFICES ASSUME ~(m <= N + 1) PROVE FALSE
    OBVIOUS
  <2>1. N + 1 \in i .. m - 1
    BY <1>1, <1>5
  <2> QED
    BY <1>2, <1>5, <2>1
<1>7. Stops(s, N + 1, i, stops, m)
  <2>1. m \in i .. N + 1
    BY <1>1, <1>5, <1>6
  <2>2. m < N + 1 => s[m] \in stops
    <3>1. m < N + 1 => Char(s, m) = s[m]
      BY <1>1, <2>1
    <3> QED
      BY <1>5, <3>1
  <2>3. ASSUME NEW k \in i .. m - 1 PROVE s[k] \notin stops
    <3>1. Char(s, k) = s[k]
      BY <1>1, <2>1
    <3> QED
      BY <1>5, <3>1
  <2> QED
    BY <2>1, <2>2, <2>3 DEF Stops
<1> QED
  BY <1>7 DEF m, N

\* Where the name that starts at i ends, and where what it has for a value.
NameEnd(s, i) == Stop(s, i, ValueStops \cup {"="})
ParamEnd(s, i) ==
  IF Char(s, NameEnd(s, i)) = "=" THEN Stop(s, NameEnd(s, i) + 1, ValueStops) ELSE NameEnd(s, i)
ParamAt(s, i) ==
  Param(SubSeq(s, i, NameEnd(s, i) - 1), SubSeq(s, NameEnd(s, i) + 1, ParamEnd(s, i) - 1))

LEMMA ParamEnds ==
  ASSUME NEW C, NEW s \in Seq(C), Null \notin C, NEW i \in 1 .. Len(s) + 1
  PROVE  /\ NameEnd(s, i) \in i .. Len(s) + 1 /\ ParamEnd(s, i) \in NameEnd(s, i) .. Len(s) + 1
         /\ Stops(s, Len(s) + 1, i, ValueStops \cup {"="}, NameEnd(s, i))
         /\ Char(s, NameEnd(s, i)) = "=" =>
              /\ NameEnd(s, i) \in 1 .. Len(s)
              /\ Stops(s, Len(s) + 1, NameEnd(s, i) + 1, ValueStops, ParamEnd(s, i))
         /\ Char(s, NameEnd(s, i)) # "=" => ParamEnd(s, i) = NameEnd(s, i)
<1> DEFINE N == Len(s)
           m == NameEnd(s, i)
<1>1. N \in Nat /\ Null \in ValueStops /\ Null \in ValueStops \cup {"="} /\ Null # "="
  BY DEF ValueStops, Null
<1>2. Stops(s, N + 1, i, ValueStops \cup {"="}, m)
  BY <1>1, StopIs DEF NameEnd
<1>3. m \in i .. N + 1
  BY <1>2 DEF Stops
<1> HIDE DEF m, N
<1>4. Char(s, m) = "=" =>
        /\ m \in 1 .. N /\ m + 1 \in 1 .. N + 1
        /\ Stops(s, N + 1, m + 1, ValueStops, Stop(s, m + 1, ValueStops))
  <2> SUFFICES ASSUME Char(s, m) = "="
               PROVE  /\ m \in 1 .. N /\ m + 1 \in 1 .. N + 1
                      /\ Stops(s, N + 1, m + 1, ValueStops, Stop(s, m + 1, ValueStops))
    OBVIOUS
  <2>1. m # N + 1
    BY <1>1 DEF Char, N
  <2>2. m \in 1 .. N /\ m + 1 \in 1 .. N + 1
    BY <1>1, <1>3, <2>1 DEF N
  <2> QED
    BY <1>1, <2>2, StopIs DEF N
<1>5. ParamEnd(s, i) = IF Char(s, m) = "=" THEN Stop(s, m + 1, ValueStops) ELSE m
  BY Zenon DEF ParamEnd, m
<1> HIDE DEF Stops
<1>6. ParamEnd(s, i) \in m .. N + 1
  <2>1. CASE Char(s, m) = "="
    <3>1. Stop(s, m + 1, ValueStops) \in m + 1 .. N + 1
      BY <1>4, <2>1 DEF Stops
    <3> QED
      BY <1>1, <1>3, <1>5, <2>1, <3>1 DEF N
  <2>2. CASE Char(s, m) # "="
    BY <1>1, <1>3, <1>5, <2>2 DEF N
  <2> QED
    BY <2>1, <2>2
<1> QED
  BY <1>2, <1>3, <1>4, <1>5, <1>6, Zenon DEF m, N

QueryLetters == Symbols["query"]
Params == [name : Seq(QueryLetters), value : Seq(QueryLetters)]
Scans == [beyond : BOOLEAN, params : Seq(Params)]
Beyond == [beyond |-> TRUE, params |-> <<>>]

\* What the scan from i on finds, given what it finds further on.
FurtherFrom(s, i) == IF NameEnd(s, i) = i THEN i + 1 ELSE ParamEnd(s, i)
Scanned(s, i, scan) ==
  IF NameEnd(s, i) = i THEN scan
  ELSE IF Char(s, ParamEnd(s, i)) \in {Null, "#"}
       THEN [beyond |-> FALSE, params |-> <<ParamAt(s, i)>>]
  ELSE [scan EXCEPT !.params = Append(@, ParamAt(s, i))]

LEMMA ScannedTyped ==
  ASSUME NEW s \in Seq(QueryLetters), NEW i \in 1 .. Len(s) + 1, NEW scan \in Scans
  PROVE  Scanned(s, i, scan) \in Scans /\ FurtherFrom(s, i) \in i + 1 .. Len(s) + 2
<1>1. Null \notin QueryLetters
  BY SymbolsAssumption DEF QueryLetters
<1> DEFINE m == NameEnd(s, i)
           n == ParamEnd(s, i)
<1>2. Len(s) \in Nat /\ m \in i .. Len(s) + 1 /\ n \in m .. Len(s) + 1
  BY <1>1, ParamEnds
<1>3. FurtherFrom(s, i) = IF m = i THEN i + 1 ELSE n
  BY Zenon DEF FurtherFrom
<1>5. ParamAt(s, i) = Param(SubSeq(s, i, m - 1), SubSeq(s, m + 1, n - 1))
  BY Zenon DEF ParamAt
<1> HIDE DEF m, n
<1>6. SubSeq(s, i, m - 1) \in Seq(QueryLetters) /\ SubSeq(s, m + 1, n - 1) \in Seq(QueryLetters)
  BY <1>2
<1>7. ParamAt(s, i) \in Params
  BY <1>5, <1>6 DEF Param, Params
<1> DEFINE p == ParamAt(s, i)
           one == [beyond |-> FALSE, params |-> <<p>>]
           more == [scan EXCEPT !.params = Append(@, p)]
<1>8. Scanned(s, i, scan) = scan \/ Scanned(s, i, scan) = one \/ Scanned(s, i, scan) = more
  BY Zenon DEF Scanned
<1>9. p \in Params
  BY <1>7
<1> HIDE DEF p
<1>10. <<p>> \in Seq(Params) /\ scan.params \in Seq(Params) /\ scan.beyond \in BOOLEAN
  BY <1>9 DEF Scans
<1>11. one \in Scans
  BY <1>10 DEF Scans
<1>12. Append(scan.params, p) \in Seq(Params)
  BY <1>9, <1>10, AppendProperties
<1>13. more \in Scans
  <2> DEFINE q == Append(scan.params, p)
  <2>1. more = [scan EXCEPT !.params = q]
    OBVIOUS
  <2> HIDE DEF more, q
  <2>2. q \in Seq(Params)
    BY <1>12 DEF q
  <2> QED
    BY <2>1, <2>2 DEF Scans
<1> HIDE DEF one, more
<1>14. Scanned(s, i, scan) \in Scans
  BY <1>8, <1>11, <1>13
<1>15. FurtherFrom(s, i) \in i + 1 .. Len(s) + 2
  BY <1>2, <1>3
<1> QED
  BY <1>14, <1>15

LEMMA FurtherTyped ==
  ASSUME NEW s \in Seq(QueryLetters), NEW i \in 1 .. Len(s) + 1
  PROVE  FurtherFrom(s, i) \in Int
<1>1. Beyond \in Scans
  BY DEF Beyond, Scans
<1>2. FurtherFrom(s, i) \in i + 1 .. Len(s) + 2
  BY <1>1, ScannedTyped
<1> HIDE DEF FurtherFrom
<1> QED
  BY <1>2

LEMMA ParsedSteps ==
  ASSUME NEW s \in Seq(QueryLetters)
  PROVE  \E from :
           /\ Parsed(s) = from[1]
           /\ \A i \in 1 .. Len(s) + 2 : from[i] \in Scans
           /\ \A i \in 1 .. Len(s) + 1 : from[i] = Scanned(s, i, from[FurtherFrom(s, i)])
<1> DEFINE N == Len(s)
           M == N + 1
           T == Scans
           next == [n \in 0 .. M - 1 |-> FurtherFrom(s, n + 1) - 1]
           step == [n \in 0 .. M - 1 |-> [r \in T |-> Scanned(s, n + 1, r)]]
           Seen(g, i) ==
             LET name  == Stop(s, i, ValueStops \cup {"="})
                 value == IF Char(s, name) = "=" THEN Stop(s, name + 1, ValueStops) ELSE name
                 param == Param(SubSeq(s, i, name - 1), SubSeq(s, name + 1, value - 1))
             IN  IF i > Len(s) + 1 THEN [beyond |-> TRUE, params |-> <<>>]
                 ELSE IF name = i THEN g[i + 1]
                 ELSE IF Char(s, value) \in {Null, "#"}
                      THEN [beyond |-> FALSE, params |-> <<param>>]
                 ELSE [g[value] EXCEPT !.params = Append(@, param)]
           Body(g, i) == IF i > M THEN Beyond ELSE Scanned(s, i, g[FurtherFrom(s, i)])
           IsFrom(g) == g = [i \in 1 .. Len(s) + 2 |-> Seen(g, i)]
           from == CHOOSE g : IsFrom(g)
<1>1. N \in Nat /\ M \in Nat
  OBVIOUS
<1>2. Parsed(s) = from[1]
  BY Zenon DEF Parsed
<1>3. \A g, i : Seen(g, i) = Body(g, i)
  <2> SUFFICES ASSUME NEW g, NEW i PROVE Seen(g, i) = Body(g, i)
    OBVIOUS
  <2> DEFINE name == NameEnd(s, i)
             value == ParamEnd(s, i)
  <2>1. Seen(g, i) = IF i > Len(s) + 1 THEN Beyond
                      ELSE IF name = i THEN g[i + 1]
                      ELSE IF Char(s, value) \in {Null, "#"}
                           THEN [beyond |-> FALSE, params |-> <<ParamAt(s, i)>>]
                      ELSE [g[value] EXCEPT !.params = Append(@, ParamAt(s, i))]
    BY Zenon DEF NameEnd, ParamEnd, ParamAt, Beyond
  <2> HIDE DEF Seen
  <2> QED
    BY <2>1, Zenon DEF Scanned, FurtherFrom
<1> HIDE DEF from, Seen
<1>4. \A n \in 0 .. M - 1 : /\ n + 1 \in 1 .. M /\ n \in 0 .. M
                            /\ FurtherFrom(s, n + 1) - 1 \in 0 .. M
                            /\ n < FurtherFrom(s, n + 1) - 1
  <2> SUFFICES ASSUME NEW n \in 0 .. M - 1
               PROVE  /\ n + 1 \in 1 .. M /\ n \in 0 .. M
                      /\ FurtherFrom(s, n + 1) - 1 \in 0 .. M
                      /\ n < FurtherFrom(s, n + 1) - 1
    OBVIOUS
  <2>1. n + 1 \in 1 .. Len(s) + 1 /\ Beyond \in Scans
    BY <1>1 DEF Beyond, Scans
  <2>2. FurtherFrom(s, n + 1) \in n + 1 + 1 .. Len(s) + 2
    BY <2>1, ScannedTyped
  <2> QED
    BY <1>1, <2>1, <2>2
<1>5. \A i \in 1 .. M : \A r \in T : Scanned(s, i, r) \in T
  BY ScannedTyped
<1>6. Beyond \in T
  BY DEF Beyond, Scans
<1> HIDE DEF M, N, T
<1>7. PICK f : f \in [0 .. M -> T] /\ Precedes(f, M, Beyond, step, next)
  <2>1. next \in [0 .. M - 1 -> 0 .. M] /\ \A n \in 0 .. M - 1 : n < next[n]
    BY <1>4
  <2>2. step \in [0 .. M - 1 -> [T -> T]]
    BY <1>4, <1>5
  <2> HIDE DEF step, next
  <2> QED
    BY <1>1, <1>6, <2>1, <2>2, RecursionDownFrom
<1>8. \A n \in 0 .. M - 1 : f[n] = Scanned(s, n + 1, f[FurtherFrom(s, n + 1) - 1])
  <2> SUFFICES ASSUME NEW n \in 0 .. M - 1
               PROVE  f[n] = Scanned(s, n + 1, f[FurtherFrom(s, n + 1) - 1])
    OBVIOUS
  <2>1. f[n] = step[n][f[next[n]]]
    BY <1>7 DEF Precedes
  <2>2. next[n] = FurtherFrom(s, n + 1) - 1 /\ f[next[n]] \in T
    BY <1>4, <1>7
  <2> HIDE DEF next
  <2> QED
    BY <2>1, <2>2
<1> HIDE DEF step, next
<1> DEFINE h == [i \in 1 .. M + 1 |-> f[i - 1]]
<1>9. \A i \in 1 .. M + 1 : h[i] = f[i - 1] /\ h[i] \in T
  BY <1>1, <1>7
<1>10. \A i \in 1 .. M + 1 : h[i] = Body(h, i)
  <2>1. ASSUME NEW i \in 1 .. M PROVE h[i] = Scanned(s, i, h[FurtherFrom(s, i)])
    <3>1. i - 1 \in 0 .. M - 1 /\ i - 1 + 1 = i
      BY <1>1
    <3> DEFINE k == FurtherFrom(s, i)
    <3>2. k - 1 \in 0 .. M /\ i \in 1 .. Len(s) + 1
      BY <1>4, <3>1 DEF M, N
    <3>3. k \in Int
      BY <3>2, FurtherTyped
    <3> HIDE DEF k, h
    <3>4. k \in 1 .. M + 1 /\ i \in 1 .. M + 1
      BY <1>1, <3>2, <3>3
    <3>5. h[i] = f[i - 1] /\ h[k] = f[k - 1]
      BY <1>9, <3>4
    <3>6. f[i - 1] = Scanned(s, i, f[k - 1])
      BY <1>8, <3>1 DEF k
    <3> QED
      BY <3>5, <3>6 DEF k
  <2>2. h[M + 1] = Beyond
    <3>1. PICK i \in 1 .. M + 1 : i = M + 1 /\ i - 1 = M
      BY <1>1
    <3>2. f[M] = Beyond
      BY <1>7 DEF Precedes
    <3> HIDE DEF h
    <3> QED
      BY <1>9, <3>1, <3>2
  <2>3. \A i \in 1 .. M + 1 : (i = M + 1 /\ i > M) \/ (i \in 1 .. M /\ ~(i > M))
    BY <1>1
  <2> HIDE DEF h
  <2> QED
    BY <2>1, <2>2, <2>3
<1>11. IsFrom(h)
  <2>1. 1 .. M + 1 = 1 .. Len(s) + 2
    BY <1>1 DEF M, N
  <2> HIDE DEF Body
  <2>2. h = [i \in 1 .. M + 1 |-> Seen(h, i)]
    BY <1>3, <1>9, <1>10
  <2> QED
    BY <2>1, <2>2
<1>12. IsFrom(from)
  <2> HIDE DEF IsFrom, h
  <2> QED
    BY <1>11 DEF from
<1>13. \A i \in 1 .. M + 1 : from[i] = Body(from, i)
  <2>1. 1 .. M + 1 = 1 .. Len(s) + 2
    BY <1>1 DEF M, N
  <2> HIDE DEF Body
  <2>2. \A i \in 1 .. Len(s) + 2 : from[i] = Seen(from, i)
    BY <1>12, Zenon
  <2> QED
    BY <1>3, <2>1, <2>2
<1>14. /\ from[M + 1] = Beyond
       /\ \A i \in 1 .. M : from[i] = Scanned(s, i, from[FurtherFrom(s, i)])
  <2>1. M + 1 \in 1 .. M + 1 /\ M + 1 > M /\ \A i \in 1 .. M : i \in 1 .. M + 1 /\ ~(i > M)
    BY <1>1
  <2> QED
    BY <1>13, <2>1
<1> DEFINE E == {n \in 0 .. M : from[n + 1] \in T}
<1>15. IsInductiveDown(E, M)
  <2>1. M \in E
    BY <1>1, <1>6, <1>14
  <2>2. ASSUME NEW m \in 0 .. M - 1, m + 1 .. M \subseteq E PROVE m \in E
    <3> DEFINE k == FurtherFrom(s, m + 1)
    <3>1. k - 1 \in 0 .. M /\ m < k - 1 /\ m + 1 \in 1 .. M /\ m \in 0 .. M
      BY <1>4
    <3>2. k \in Int
      <4>1. m + 1 \in 1 .. Len(s) + 1
        BY <3>1 DEF M, N
      <4> QED
        BY <4>1, FurtherTyped
    <3> HIDE DEF k
    <3>3. k - 1 \in m + 1 .. M /\ k - 1 + 1 = k
      BY <1>1, <3>1, <3>2
    <3>4. from[k] \in T
      BY <2>2, <3>3
    <3>5. from[m + 1] \in T
      BY <1>5, <1>14, <3>1, <3>4 DEF k
    <3> QED
      BY <3>1, <3>5
  <2> HIDE DEF E
  <2> QED
    BY <2>1, <2>2 DEF IsInductiveDown
<1>16. \A n \in 0 .. M : n \in E
  <2> HIDE DEF E
  <2> QED
    BY <1>1, <1>15, InductionDown
<1>17. \A i \in 1 .. M + 1 : from[i] \in T
  <2>1. \A i \in 1 .. M + 1 : i - 1 \in 0 .. M /\ i - 1 + 1 = i
    BY <1>1
  <2> QED
    BY <1>16, <2>1
<1>18. M = Len(s) + 1 /\ M + 1 = Len(s) + 2
  BY <1>1 DEF M, N
<1> QED
  BY <1>2, <1>14, <1>17, <1>18 DEF T

\* The fields, character by character.
Texts == Seq(QueryLetters)
WithLetter(c, fields) ==
  IF c = "&" THEN << <<>> >> \o fields ELSE << <<c>> \o Head(fields) >> \o Tail(fields)

LEMMA WithLetterTyped ==
  ASSUME NEW c \in QueryLetters, NEW fields \in Seq(Texts) \ {<<>>}
  PROVE  WithLetter(c, fields) \in Seq(Texts) \ {<<>>}
<1>1. Head(fields) \in Texts /\ Tail(fields) \in Seq(Texts)
  OBVIOUS
<1> DEFINE f == Head(fields)
           g == Tail(fields)
           cf == <<c>> \o f
<1>2. <<>> \in Texts /\ cf \in Texts
  BY <1>1 DEF Texts
<1>3. WithLetter(c, fields) = << <<>> >> \o fields \/ WithLetter(c, fields) = <<cf>> \o g
  BY Zenon DEF WithLetter
<1> HIDE DEF Texts, f, g, cf
<1>4. << <<>> >> \o fields \in Seq(Texts) \ {<<>>}
  <2> DEFINE e == <<>>
  <2>1. e \in Texts
    BY <1>2
  <2> HIDE DEF e
  <2>2. <<e>> \o fields \in Seq(Texts) /\ Len(<<e>> \o fields) = 1 + Len(fields)
    BY <2>1
  <2>3. <<e>> \o fields # <<>>
    BY <2>2
  <2> QED
    BY <2>2, <2>3 DEF e
<1>5. <<cf>> \o g \in Seq(Texts) \ {<<>>}
  <2>1. g \in Seq(Texts)
    BY <1>1 DEF g
  <2>2. <<cf>> \o g \in Seq(Texts) /\ Len(<<cf>> \o g) = 1 + Len(g)
    BY <1>2, <2>1
  <2> QED
    BY <2>1, <2>2
<1> QED
  BY <1>3, <1>4, <1>5

LEMMA FieldsSteps ==
  ASSUME NEW text \in Texts
  PROVE  \E rest :
           /\ Fields(text) = rest[1] /\ rest[Len(text) + 1] = << <<>> >>
           /\ \A i \in 1 .. Len(text) + 1 : rest[i] \in Seq(Texts) \ {<<>>}
           /\ \A i \in 1 .. Len(text) : rest[i] = WithLetter(text[i], rest[i + 1])
<1> DEFINE N == Len(text)
           T == Seq(Texts) \ {<<>>}
           base == << <<>> >>
           next == [n \in 0 .. N - 1 |-> n + 1]
           step == [n \in 0 .. N - 1 |-> [r \in T |-> WithLetter(text[n + 1], r)]]
           Body(g, i) == IF i > N THEN base ELSE WithLetter(text[i], g[i + 1])
           IsFrom(g) == g = [i \in 1 .. N + 1 |-> Body(g, i)]
           from == CHOOSE g : IsFrom(g)
<1>1. N \in Nat /\ \A i \in 1 .. N : text[i] \in QueryLetters
  BY DEF Texts
<1>2. Fields(text) = from[1]
  BY Zenon DEF Fields, WithLetter
<1>3. base \in T
  BY DEF Texts
<1> HIDE DEF N, from, base
<1>4. \A n \in 0 .. N - 1 : /\ n + 1 \in 1 .. N /\ n + 1 \in 0 .. N /\ n \in 0 .. N
                            /\ text[n + 1] \in QueryLetters
  BY <1>1
<1>5. \A i \in 1 .. N : \A r \in T : WithLetter(text[i], r) \in T
  BY <1>1, WithLetterTyped
<1> HIDE DEF T
<1>6. PICK f : f \in [0 .. N -> T] /\ Precedes(f, N, base, step, next)
  <2>1. next \in [0 .. N - 1 -> 0 .. N] /\ \A n \in 0 .. N - 1 : n < next[n]
    BY <1>4
  <2>2. step \in [0 .. N - 1 -> [T -> T]]
    BY <1>4, <1>5
  <2> HIDE DEF step, next
  <2> QED
    BY <1>1, <1>3, <2>1, <2>2, RecursionDownFrom
<1>7. \A n \in 0 .. N - 1 : f[n] = WithLetter(text[n + 1], f[n + 1])
  <2> SUFFICES ASSUME NEW n \in 0 .. N - 1 PROVE f[n] = WithLetter(text[n + 1], f[n + 1])
    OBVIOUS
  <2>1. f[n] = step[n][f[next[n]]]
    BY <1>6 DEF Precedes
  <2>2. next[n] = n + 1 /\ f[n + 1] \in T
    BY <1>4, <1>6
  <2> HIDE DEF next
  <2> QED
    BY <2>1, <2>2
<1> HIDE DEF step, next
<1> DEFINE h == [i \in 1 .. N + 1 |-> f[i - 1]]
<1>8. \A i \in 1 .. N + 1 : h[i] = f[i - 1]
  OBVIOUS
<1>9. \A i \in 1 .. N + 1 : h[i] = Body(h, i)
  <2>1. ASSUME NEW i \in 1 .. N PROVE h[i] = WithLetter(text[i], h[i + 1])
    <3>1. i \in 1 .. N + 1 /\ i + 1 \in 1 .. N + 1 /\ i - 1 \in 0 .. N - 1
      BY <1>1
    <3>2. i - 1 + 1 = i /\ i + 1 - 1 = i
      OBVIOUS
    <3>3. h[i] = f[i - 1] /\ h[i + 1] = f[i + 1 - 1]
      BY <1>8, <3>1
    <3> HIDE DEF h
    <3>4. f[i - 1] = WithLetter(text[i - 1 + 1], f[i - 1 + 1])
      BY <1>7, <3>1
    <3> QED
      BY <3>2, <3>3, <3>4
  <2>2. h[N + 1] = base
    <3>1. PICK i \in 1 .. N + 1 : i = N + 1 /\ i - 1 = N
      BY <1>1
    <3>2. f[N] = base
      BY <1>6 DEF Precedes
    <3> HIDE DEF h
    <3> QED
      BY <1>8, <3>1, <3>2
  <2>3. \A i \in 1 .. N + 1 : (i = N + 1 /\ i > N) \/ (i \in 1 .. N /\ ~(i > N))
    BY <1>1
  <2> HIDE DEF h
  <2> QED
    BY <2>1, <2>2, <2>3
<1>10. IsFrom(h)
  <2> HIDE DEF Body
  <2> QED
    BY <1>9
<1>11. IsFrom(from)
  <2> HIDE DEF IsFrom, h
  <2> QED
    BY <1>10 DEF from
<1>12. \A i \in 1 .. N + 1 : from[i] = Body(from, i)
  <2> HIDE DEF Body
  <2> QED
    BY <1>11, Zenon
<1>13. /\ from[N + 1] = base
       /\ \A i \in 1 .. N : from[i] = WithLetter(text[i], from[i + 1])
  <2>1. N + 1 \in 1 .. N + 1 /\ N + 1 > N /\ \A i \in 1 .. N : i \in 1 .. N + 1 /\ ~(i > N)
    BY <1>1
  <2> QED
    BY <1>12, <2>1
<1> DEFINE E == {n \in 0 .. N : from[n + 1] \in T}
<1>14. IsInductiveDown(E, N)
  <2>1. N \in E
    BY <1>1, <1>3, <1>13
  <2>2. ASSUME NEW m \in 0 .. N - 1, m + 1 .. N \subseteq E PROVE m \in E
    <3>1. m + 1 \in 1 .. N /\ m + 1 \in m + 1 .. N /\ m \in 0 .. N
      BY <1>1
    <3>2. from[m + 1 + 1] \in T
      BY <2>2, <3>1
    <3>3. from[m + 1] \in T
      BY <1>5, <1>13, <3>1, <3>2
    <3> QED
      BY <3>1, <3>3
  <2> HIDE DEF E
  <2> QED
    BY <2>1, <2>2 DEF IsInductiveDown
<1>15. \A n \in 0 .. N : n \in E
  <2> HIDE DEF E
  <2> QED
    BY <1>1, <1>14, InductionDown
<1>16. \A i \in 1 .. N + 1 : from[i] \in T
  <2>1. \A i \in 1 .. N + 1 : i - 1 \in 0 .. N /\ i - 1 + 1 = i
    BY <1>1
  <2> QED
    BY <1>15, <2>1
<1> QED
  BY <1>2, <1>13, <1>16 DEF N, T, base

\* A letter before the field that starts behind it.
LEMMA FieldGrows ==
  ASSUME NEW text \in Texts, NEW i \in 1 .. Len(text), NEW j \in i + 1 .. Len(text) + 1
  PROVE  <<text[i]>> \o SubSeq(text, i + 1, j - 1) = SubSeq(text, i, j - 1)
<1> DEFINE a == SubSeq(text, i + 1, j - 1)
           b == SubSeq(text, i, j - 1)
           c == <<text[i]>> \o a
<1>1. /\ a \in Seq(QueryLetters) /\ Len(a) = j - 1 - i
      /\ \A k \in 1 .. j - 1 - i : a[k] = text[i + k]
      /\ b \in Seq(QueryLetters) /\ Len(b) = j - i /\ \A k \in 1 .. j - i : b[k] = text[i + k - 1]
  BY DEF Texts
<1>2. text[i] \in QueryLetters
  BY DEF Texts
<1> HIDE DEF a, b
<1>3. c \in Seq(QueryLetters) /\ Len(c) = j - i
  BY <1>1, <1>2
<1>4. ASSUME NEW k \in 1 .. j - i PROVE c[k] = b[k]
  <2>1. CASE k = 1
    BY <1>1, <1>2, <2>1
  <2>2. CASE k # 1
    <3>1. k - 1 \in 1 .. j - 1 - i
      BY <2>2
    <3>2. c[k] = a[k - 1]
      BY <1>1, <1>2, <3>1
    <3>3. a[k - 1] = text[i + (k - 1)] /\ b[k] = text[i + k - 1] /\ i + (k - 1) = i + k - 1
      BY <1>1, <3>1
    <3> QED
      BY <3>2, <3>3
  <2> QED
    BY <2>1, <2>2
<1> HIDE DEF c
<1>5. c = b
  BY <1>1, <1>3, <1>4, SeqEqual
<1> QED
  BY <1>5 DEF a, b, c

\* "rest" holds the fields from each letter on.
IsFields(text, rest) ==
  /\ rest[Len(text) + 1] = << <<>> >>
  /\ \A i \in 1 .. Len(text) + 1 : rest[i] \in Seq(Texts) \ {<<>>}
  /\ \A i \in 1 .. Len(text) : rest[i] = WithLetter(text[i], rest[i + 1])

\* The field from i on ends at j.
Splits(text, rest, i, j) ==
  /\ Stops(text, Len(text) + 1, i, {"&"}, j)
  /\ rest[i] = <<SubSeq(text, i, j - 1)>> \o (IF j = Len(text) + 1 THEN <<>> ELSE rest[j + 1])

LEMMA OneBefore ==
  ASSUME NEW S, NEW f \in S, NEW g \in Seq(S)
  PROVE  Head(<<f>> \o g) = f /\ Tail(<<f>> \o g) = g
<1> DEFINE s == <<f>> \o g
<1>1. s \in Seq(S) /\ Len(s) = 1 + Len(g) /\ s[1] = f /\ \A k \in 1 .. Len(g) : s[k + 1] = g[k]
  OBVIOUS
<1> HIDE DEF s
<1>2. Tail(s) \in Seq(S) /\ Len(Tail(s)) = Len(g) /\ \A k \in 1 .. Len(g) : Tail(s)[k] = s[k + 1]
  BY <1>1
<1>3. Tail(s) = g
  <2> DEFINE u == Tail(s)
  <2>1. u \in Seq(S) /\ Len(u) = Len(g) /\ \A k \in 1 .. Len(u) : u[k] = g[k]
    BY <1>1, <1>2
  <2> HIDE DEF u
  <2>2. u = g
    BY <2>1, SeqEqual
  <2> QED
    BY <2>2 DEF u
<1>4. Head(s) = f
  BY <1>1
<1> QED
  BY <1>3, <1>4 DEF s

LEMMA FieldsSplit ==
  ASSUME NEW text \in Texts, NEW rest, IsFields(text, rest)
  PROVE  \A i \in 1 .. Len(text) + 1 : \E j : Splits(text, rest, i, j)
<1> DEFINE N == Len(text)
           D == {n \in 0 .. N : \E j : Splits(text, rest, n + 1, j)}
<1>1. N \in Nat
  BY DEF Texts
<1>2. ASSUME NEW i, i = N + 1 PROVE Splits(text, rest, i, i)
  <2>1. SubSeq(text, i, i - 1) = <<>>
    BY <1>1, <1>2 DEF Texts
  <2>2. Stops(text, N + 1, i, {"&"}, i)
    BY <1>1, <1>2 DEF Stops
  <2>3. rest[i] = << <<>> >>
    BY <1>2 DEF IsFields
  <2>4. <<SubSeq(text, i, i - 1)>> \o <<>> = << <<>> >>
    <3> DEFINE e == SubSeq(text, i, i - 1)
    <3> HIDE DEF e
    <3>1. <<e>> \o <<>> = <<e>>
      OBVIOUS
    <3> QED
      BY <2>1, <3>1 DEF e
  <2> QED
    BY <1>2, <2>2, <2>3, <2>4, Zenon DEF Splits, N
<1>3. ASSUME NEW i \in 1 .. N, NEW m, Splits(text, rest, i + 1, m)
      PROVE  \E j : Splits(text, rest, i, j)
  <2>1. rest[i] = WithLetter(text[i], rest[i + 1]) /\ rest[i + 1] \in Seq(Texts)
    BY <1>1 DEF IsFields
  <2>2. CASE text[i] = "&"
    <3>1. Stops(text, N + 1, i, {"&"}, i) /\ i # N + 1
      BY <1>1, <2>2 DEF Stops
    <3>2. SubSeq(text, i, i - 1) = <<>>
      BY <1>1 DEF Texts
    <3>3. rest[i] = << <<>> >> \o rest[i + 1]
      BY <2>1, <2>2, Zenon DEF WithLetter
    <3> QED
      BY <3>1, <3>2, <3>3, Zenon DEF Splits, N
  <2>3. CASE text[i] # "&"
    <3> DEFINE f == SubSeq(text, i + 1, m - 1)
               g == IF m = N + 1 THEN <<>> ELSE rest[m + 1]
    <3>1. /\ m \in i + 1 .. N + 1 /\ (m < N + 1 => text[m] \in {"&"})
          /\ \A k \in i + 1 .. m - 1 : text[k] \notin {"&"}
      BY <1>3, Zenon DEF Splits, Stops, N
    <3>2. Stops(text, N + 1, i, {"&"}, m)
      BY <1>1, <2>3, <3>1 DEF Stops
    <3>3. f \in Texts
      BY <1>1, <3>1 DEF Texts
    <3>4. g \in Seq(Texts)
      <4>1. m # N + 1 => m + 1 \in 1 .. N + 1
        BY <1>1, <3>1
      <4>2. m # N + 1 => rest[m + 1] \in Seq(Texts)
        BY <4>1 DEF IsFields
      <4> QED
        BY <4>2
    <3>5. rest[i + 1] = <<f>> \o g
      BY <1>3, Zenon DEF Splits, N
    <3>6. Head(rest[i + 1]) = f /\ Tail(rest[i + 1]) = g
      <4> HIDE DEF f, g
      <4> QED
        BY <3>3, <3>4, <3>5, OneBefore
    <3>7. <<text[i]>> \o f = SubSeq(text, i, m - 1)
      BY <3>1, FieldGrows DEF N
    <3>8. rest[i] = <<SubSeq(text, i, m - 1)>> \o g
      BY <2>1, <2>3, <3>6, <3>7, Zenon DEF WithLetter
    <3> QED
      BY <3>2, <3>8, Zenon DEF Splits, N
  <2> QED
    BY <2>2, <2>3
<1> HIDE DEF N
<1>4. IsInductiveDown(D, N)
  <2>1. N \in D
    BY <1>1, <1>2
  <2>2. ASSUME NEW n \in 0 .. N - 1, n + 1 .. N \subseteq D PROVE n \in D
    <3>1. n + 1 \in 1 .. N /\ n + 1 \in D /\ n \in 0 .. N
      BY <1>1, <2>2
    <3>2. PICK m : Splits(text, rest, n + 1 + 1, m)
      BY <3>1
    <3> QED
      BY <1>3, <3>1, <3>2
  <2> HIDE DEF D
  <2> QED
    BY <2>1, <2>2 DEF IsInductiveDown
<1>5. \A n \in 0 .. N : n \in D
  <2> HIDE DEF D
  <2> QED
    BY <1>1, <1>4, InductionDown
<1>6. \A i \in 1 .. N + 1 : i - 1 \in 0 .. N /\ i - 1 + 1 = i
  BY <1>1
<1>7. \A i \in 1 .. N + 1 : \E j : Splits(text, rest, i, j)
  BY <1>5, <1>6
<1> QED
  BY <1>7 DEF N

\* A part of a part.
LEMMA PartOfPart ==
  ASSUME NEW s \in Texts, NEW i \in 1 .. Len(s) + 1, NEW e \in i .. Len(s) + 1,
         NEW a \in 1 .. e - i + 1, NEW b \in a .. e - i + 1
  PROVE  SubSeq(SubSeq(s, i, e - 1), a, b - 1) = SubSeq(s, i + a - 1, i + b - 1 - 1)
<1> DEFINE f == SubSeq(s, i, e - 1)
           u == SubSeq(f, a, b - 1)
           v == SubSeq(s, i + a - 1, i + b - 1 - 1)
<1>1. f \in Seq(QueryLetters) /\ Len(f) = e - i /\ \A k \in 1 .. e - i : f[k] = s[i + k - 1]
  BY DEF Texts
<1>2. v \in Seq(QueryLetters) /\ Len(v) = b - a /\ \A k \in 1 .. b - a : v[k] = s[i + a - 1 + k - 1]
  BY DEF Texts
<1> HIDE DEF f, v
<1>3. u \in Seq(QueryLetters) /\ Len(u) = b - a /\ \A k \in 1 .. b - a : u[k] = f[a + k - 1]
  BY <1>1
<1>4. ASSUME NEW k \in 1 .. b - a PROVE u[k] = v[k]
  <2>1. a + k - 1 \in 1 .. e - i /\ i + (a + k - 1) - 1 = i + a - 1 + k - 1
    OBVIOUS
  <2> QED
    BY <1>1, <1>2, <1>3, <2>1
<1> HIDE DEF u
<1>5. u = v
  BY <1>2, <1>3, <1>4, SeqEqual
<1> QED
  BY <1>5 DEF u, v, f

LEMMA MinIs ==
  ASSUME NEW S, S \subseteq Int, NEW x \in S, \A y \in S : x <= y
  PROVE  Min(S) = x
<1> DEFINE m == Min(S)
<1>1. m \in S /\ \A y \in S : m <= y
  BY Zenon DEF Min
<1> HIDE DEF m
<1>2. m <= x /\ x <= m /\ m \in Int /\ x \in Int
  BY <1>1
<1>3. m = x
  BY <1>2
<1> QED
  BY <1>3 DEF m

LEMMA MaxIs ==
  ASSUME NEW n \in Nat, NEW S, S \subseteq 0 .. n, S # {}
  PROVE  Max(S) \in S /\ \A y \in S : y <= Max(S)
<1>1. PICK x \in S : \A y \in S : y <= x
  BY LargestElement
<1>2. \A y \in S : x >= y
  BY <1>1
<1>3. Max(S) \in S /\ \A y \in S : Max(S) >= y
  BY <1>2, Zenon DEF Max
<1> QED
  BY <1>3

\* The first of the letters c.
FirstIs(f, c, p) ==
  /\ p = 0 => \A k \in 1 .. Len(f) : f[k] # c
  /\ p # 0 => p \in 1 .. Len(f) /\ f[p] = c /\ \A k \in 1 .. p - 1 : f[k] # c

LEMMA SelectIs ==
  ASSUME NEW f \in Texts, NEW c, NEW I, I = {k \in 1 .. Len(f) : f[k] = c},
         NEW p, p = IF I # {} THEN Min(I) ELSE 0
  PROVE  FirstIs(f, c, p)
<1>1. I \subseteq Nat /\ I \subseteq Int /\ I \subseteq 1 .. Len(f)
  OBVIOUS
<1>2. \A k \in 1 .. Len(f) : k \in I <=> f[k] = c
  OBVIOUS
<1>3. CASE I = {}
  <2>1. p = 0 /\ \A k \in 1 .. Len(f) : f[k] # c
    BY <1>2, <1>3
  <2> QED
    BY <2>1, Zenon DEF FirstIs
<1>4. CASE I # {}
  <2>1. PICK m \in I : \A k \in I : m <= k
    BY <1>1, <1>4, LeastElement
  <2>2. p = m
    <3>1. p = Min(I)
      BY <1>4
    <3>2. Min(I) = m
      BY <1>1, <2>1, MinIs
    <3> QED
      BY <3>1, <3>2
  <2>3. m \in 1 .. Len(f) /\ f[m] = c
    BY <1>1, <1>2
  <2>4. ASSUME NEW k \in 1 .. m - 1 PROVE f[k] # c
    <3>1. k \in 1 .. Len(f) /\ ~(m <= k)
      BY <2>3
    <3> QED
      BY <1>2, <2>1, <3>1
  <2>5. m # 0
    BY <2>3
  <2> QED
    BY <2>2, <2>3, <2>4, <2>5, Zenon DEF FirstIs
<1> QED
  BY <1>3, <1>4

\* The parameter of a field is the one that the scan finds.
LEMMA FieldIs ==
  ASSUME NEW s \in Texts, NEW i \in 1 .. Len(s) + 1,
         NEW e, Stops(s, Len(s) + 1, i, ValueStops, e)
  PROVE  /\ Field(SubSeq(s, i, e - 1)) = ParamAt(s, i) /\ ParamEnd(s, i) = e
         /\ ParamAt(s, i).name # <<>> => NameEnd(s, i) # i
<1> DEFINE N == Len(s)
           f == SubSeq(s, i, e - 1)
           m == NameEnd(s, i)
           p == SelectInSeq(f, LAMBDA x : x = "=")
<1>1. /\ N \in Nat /\ e \in i .. N + 1
      /\ f \in Texts /\ Len(f) = e - i /\ \A k \in 1 .. e - i : f[k] = s[i + k - 1]
  BY DEF Texts, Stops
<1>2. /\ m \in i .. N + 1 /\ Stops(s, N + 1, i, ValueStops \cup {"="}, m)
      /\ Char(s, m) = "=" =>
           m \in 1 .. N /\ Stops(s, N + 1, m + 1, ValueStops, ParamEnd(s, i))
      /\ Char(s, m) # "=" => ParamEnd(s, i) = m
  <2>1. Null \notin QueryLetters
    BY SymbolsAssumption DEF QueryLetters
  <2> QED
    BY <2>1, ParamEnds, Zenon DEF Texts
<1>3. "=" \notin ValueStops
  BY DEF ValueStops, Null
<1>4. /\ p = 0 => \A k \in 1 .. Len(f) : f[k] # "="
      /\ p # 0 => p \in 1 .. Len(f) /\ f[p] = "=" /\ \A k \in 1 .. p - 1 : f[k] # "="
  <2> DEFINE I == {k \in 1 .. Len(f) : f[k] = "="}
  <2>1. p = IF I # {} THEN Min(I) ELSE 0
    BY DEF SelectInSeq
  <2> HIDE DEF p, f
  <2>2. FirstIs(f, "=", p)
    BY <1>1, <2>1, SelectIs
  <2> QED
    BY <2>2 DEF FirstIs
<1>5. Field(f) = IF p = 0 THEN Param(f, <<>>)
                 ELSE Param(SubSeq(f, 1, p - 1), SubSeq(f, p + 1, Len(f)))
  BY Zenon DEF Field
<1>6. ParamAt(s, i) = Param(SubSeq(s, i, m - 1), SubSeq(s, m + 1, ParamEnd(s, i) - 1))
  BY Zenon DEF ParamAt
<1>7. m \in 1 .. N => Char(s, m) = s[m]
  BY <1>1 DEF Char
<1>8. /\ e < N + 1 => s[e] \in ValueStops
      /\ \A k \in i .. e - 1 : s[k] \notin ValueStops
      /\ m < N + 1 => s[m] \in ValueStops \cup {"="}
      /\ \A k \in i .. m - 1 : s[k] \notin ValueStops \cup {"="}
  BY <1>2 DEF Stops
<1> HIDE DEF N, f, m, p
<1>9. m <= e
  <2> SUFFICES ASSUME ~(m <= e) PROVE FALSE
    OBVIOUS
  <2>1. e \in i .. m - 1 /\ e < N + 1
    BY <1>1, <1>2
  <2> QED
    BY <1>8, <2>1
<1>10. CASE Char(s, m) = "="
  <2>1. m \in 1 .. N /\ s[m] = "=" /\ m < e
    <3>1. m \in 1 .. N /\ s[m] = "="
      BY <1>2, <1>7, <1>10
    <3>2. m # e
      BY <1>1, <1>3, <1>8, <3>1
    <3> QED
      BY <1>1, <1>9, <3>1, <3>2
  <2>2. p = m - i + 1
    <3> DEFINE q == m - i + 1
    <3>1. q \in 1 .. e - i /\ i + q - 1 = m
      BY <1>1, <1>2, <2>1
    <3>2. f[q] = "="
      BY <1>1, <2>1, <3>1
    <3>3. ASSUME NEW k \in 1 .. q - 1 PROVE f[k] # "="
      <4>1. k \in 1 .. e - i /\ i + k - 1 \in i .. m - 1
        BY <1>1, <1>2, <3>1
      <4> QED
        BY <1>1, <1>8, <4>1
    <3> HIDE DEF q
    <3>4. p # 0
      BY <1>1, <1>4, <3>1, <3>2
    <3>5. ~(p < q)
      BY <1>1, <1>4, <3>1, <3>3, <3>4
    <3>6. ~(q < p)
      <4> SUFFICES ASSUME q < p PROVE FALSE
        OBVIOUS
      <4>1. q \in 1 .. p - 1
        BY <1>1, <1>4, <3>1, <3>4
      <4> QED
        BY <1>4, <3>2, <3>4, <4>1
    <3> QED
      BY <1>1, <1>4, <3>1, <3>4, <3>5, <3>6 DEF q
  <2>3. ParamEnd(s, i) = e
    <3>1. m + 1 \in 1 .. N + 1 /\ e \in m + 1 .. N + 1 /\ N + 1 \in Nat
      BY <1>1, <2>1
    <3>2. Stops(s, N + 1, m + 1, ValueStops, e)
      BY <1>1, <1>2, <1>8, <3>1 DEF Stops
    <3> QED
      BY <1>2, <1>10, <3>1, <3>2, StopsOnce
  <2>4. SubSeq(f, 1, p - 1) = SubSeq(s, i, m - 1)
    <3>1. 1 \in 1 .. e - i + 1 /\ p \in 1 .. e - i + 1 /\ i + 1 - 1 = i /\ i + p - 1 - 1 = m - 1
      BY <1>1, <1>2, <2>1, <2>2
    <3>2. SubSeq(SubSeq(s, i, e - 1), 1, p - 1) = SubSeq(s, i + 1 - 1, i + p - 1 - 1)
      BY <1>1, <3>1, PartOfPart DEF N
    <3> QED
      BY <3>1, <3>2 DEF f
  <2>5. SubSeq(f, p + 1, Len(f)) = SubSeq(s, m + 1, e - 1)
    <3> DEFINE a == p + 1
               b == e - i + 1
    <3>1. a \in 1 .. e - i + 1 /\ b \in a .. e - i + 1 /\ b - 1 = Len(f)
      BY <1>1, <1>2, <2>1, <2>2
    <3>2. i + a - 1 = m + 1 /\ i + b - 1 - 1 = e - 1
      BY <1>1, <1>2, <2>1, <2>2
    <3> HIDE DEF a, b
    <3>3. SubSeq(SubSeq(s, i, e - 1), a, b - 1) = SubSeq(s, i + a - 1, i + b - 1 - 1)
      BY <1>1, <3>1, PartOfPart DEF N
    <3> QED
      BY <3>1, <3>2, <3>3, Zenon DEF f, a
  <2>6. p # 0
    BY <1>1, <1>2, <2>1, <2>2
  <2>7. Field(f) = ParamAt(s, i)
    BY <1>5, <1>6, <2>3, <2>4, <2>5, <2>6, Zenon
  <2>8. m = i => SubSeq(s, i, m - 1) = <<>>
    BY DEF Texts
  <2>9. ParamAt(s, i).name # <<>> => m # i
    BY <1>6, <2>8 DEF Param
  <2> QED
    BY <2>3, <2>7, <2>9 DEF f, m
<1>11. CASE Char(s, m) # "="
  <2>1. Stops(s, N + 1, i, ValueStops, m)
    <3>1. m < N + 1 => s[m] \in ValueStops
      <4>1. m < N + 1 => m \in 1 .. N
        BY <1>1, <1>2
      <4> QED
        BY <1>7, <1>8, <1>11, <4>1
    <3> QED
      BY <1>2, <1>8, <3>1 DEF Stops
  <2>2. m = e /\ ParamEnd(s, i) = e
    <3>1. N + 1 \in Nat /\ i \in 1 .. N + 1
      BY <1>1 DEF N
    <3>2. m = e
      BY <2>1, <3>1, StopsOnce DEF N
    <3> QED
      BY <1>2, <1>11, <3>2
  <2>3. p = 0
    <3> SUFFICES ASSUME p # 0 PROVE FALSE
      OBVIOUS
    <3>1. i + p - 1 \in i .. m - 1 /\ f[p] = s[i + p - 1]
      BY <1>1, <1>4, <2>2
    <3> QED
      BY <1>4, <1>8, <3>1
  <2>4. SubSeq(s, e + 1, e - 1) = <<>>
    BY <1>1 DEF Texts
  <2>5. Field(f) = ParamAt(s, i)
    BY <1>5, <1>6, <2>2, <2>3, <2>4, Zenon DEF f
  <2>6. m = i => SubSeq(s, i, m - 1) = <<>>
    BY DEF Texts
  <2>7. ParamAt(s, i).name # <<>> => m # i
    BY <1>6, <2>6 DEF Param
  <2> QED
    BY <2>2, <2>5, <2>7 DEF f, m
<1> QED
  BY <1>10, <1>11

LEMMA FieldTyped ==
  ASSUME NEW f \in Texts
  PROVE  Field(f) \in Params
<1> DEFINE p == SelectInSeq(f, LAMBDA x : x = "=")
           I == {k \in 1 .. Len(f) : f[k] = "="}
<1>1. p = IF I # {} THEN Min(I) ELSE 0
  BY DEF SelectInSeq
<1>2. Field(f) = IF p = 0 THEN Param(f, <<>>)
                 ELSE Param(SubSeq(f, 1, p - 1), SubSeq(f, p + 1, Len(f)))
  BY Zenon DEF Field
<1> HIDE DEF p
<1>3. FirstIs(f, "=", p)
  BY <1>1, SelectIs
<1>4. p # 0 => p \in 1 .. Len(f)
  BY <1>3 DEF FirstIs
<1>5. f \in Seq(QueryLetters) /\ <<>> \in Seq(QueryLetters)
  BY DEF Texts
<1>6. p # 0 => /\ SubSeq(f, 1, p - 1) \in Seq(QueryLetters)
               /\ SubSeq(f, p + 1, Len(f)) \in Seq(QueryLetters)
  BY <1>4, <1>5
<1>7. Field(f) \in Params
  BY <1>2, <1>5, <1>6 DEF Param, Params
<1> QED
  BY <1>7

\* The parameters of fields.
FieldParams(fields) == [k \in DOMAIN fields |-> Field(fields[k])]
AllNamed(fields) == \A k \in DOMAIN fields : Field(fields[k]).name # <<>>

LEMMA FieldParamsGrow ==
  ASSUME NEW f \in Texts, NEW g \in Seq(Texts)
  PROVE  /\ FieldParams(<<f>> \o g) = <<Field(f)>> \o FieldParams(g)
         /\ FieldParams(g) \in Seq(Params)
         /\ AllNamed(<<f>> \o g) => Field(f).name # <<>> /\ AllNamed(g)
<1> DEFINE fg == <<f>> \o g
           a == FieldParams(fg)
           b == FieldParams(g)
           c == <<Field(f)>> \o b
<1>1. Field(f) \in Params /\ \A k \in 1 .. Len(g) : Field(g[k]) \in Params
  BY FieldTyped
<1>2. /\ fg \in Seq(Texts) /\ Len(fg) = 1 + Len(g) /\ fg[1] = f
      /\ \A k \in 1 .. Len(g) : fg[k + 1] = g[k]
  OBVIOUS
<1>3. b \in Seq(Params) /\ Len(b) = Len(g) /\ \A k \in 1 .. Len(g) : b[k] = Field(g[k])
  BY <1>1 DEF FieldParams
<1> HIDE DEF fg, b
<1>4. \A k \in 1 .. Len(fg) : Field(fg[k]) \in Params
  BY <1>2, FieldTyped
<1>5. a \in Seq(Params) /\ Len(a) = Len(fg) /\ \A k \in 1 .. Len(fg) : a[k] = Field(fg[k])
  BY <1>2, <1>4 DEF FieldParams
<1>6. c \in Seq(Params) /\ Len(c) = 1 + Len(g) /\ c[1] = Field(f)
      /\ \A k \in 1 .. Len(g) : c[k + 1] = Field(g[k])
  BY <1>1, <1>3
<1> HIDE DEF a, c
<1>7. ASSUME NEW k \in 1 .. Len(a) PROVE a[k] = c[k]
  <2>1. CASE k = 1
    BY <1>2, <1>5, <1>6, <2>1
  <2>2. CASE k # 1
    <3>1. k - 1 \in 1 .. Len(g) /\ k - 1 + 1 = k /\ k \in 1 .. Len(fg)
      BY <1>2, <1>5, <2>2
    <3> QED
      BY <1>2, <1>5, <1>6, <3>1
  <2> QED
    BY <2>1, <2>2
<1>8. a = c
  BY <1>2, <1>5, <1>6, <1>7, SeqEqual
<1>9. AllNamed(fg) => Field(f).name # <<>> /\ AllNamed(g)
  <2> SUFFICES ASSUME AllNamed(fg) PROVE Field(f).name # <<>> /\ AllNamed(g)
    OBVIOUS
  <2>1. \A k \in 1 .. Len(fg) : Field(fg[k]).name # <<>>
    BY <1>2 DEF AllNamed
  <2>2. 1 \in 1 .. Len(fg) /\ \A k \in 1 .. Len(g) : k + 1 \in 1 .. Len(fg)
    BY <1>2
  <2>3. \A k \in 1 .. Len(g) : Field(g[k]).name # <<>>
    BY <1>2, <2>1, <2>2
  <2>4. DOMAIN g = 1 .. Len(g)
    OBVIOUS
  <2> QED
    BY <1>2, <2>1, <2>2, <2>3, <2>4 DEF AllNamed
<1> QED
  BY <1>3, <1>8, <1>9 DEF fg, a, b, c

LEMMA ReverseGrows ==
  ASSUME NEW S, NEW p \in S, NEW g \in Seq(S)
  PROVE  /\ Reverse(<<p>> \o g) = Append(Reverse(g), p) /\ Reverse(g) \in Seq(S)
<1> DEFINE n == Len(g)
           pg == <<p>> \o g
           a == Reverse(pg)
           r == Reverse(g)
           b == Append(r, p)
<1>1. n \in Nat /\ \A k \in 1 .. n : n - k + 1 \in 1 .. n /\ g[k] \in S
  OBVIOUS
<1>2. pg \in Seq(S) /\ Len(pg) = n + 1 /\ pg[1] = p /\ \A k \in 1 .. n : pg[k + 1] = g[k]
  OBVIOUS
<1>3. r \in Seq(S) /\ Len(r) = n /\ \A k \in 1 .. n : r[k] = g[n - k + 1]
  <2>1. r = [k \in 1 .. n |-> g[n - k + 1]]
    BY DEF Reverse
  <2> HIDE DEF r, n
  <2> QED
    BY <1>1, <2>1
<1>4. a \in Seq(S) /\ Len(a) = n + 1 /\ \A k \in 1 .. n + 1 : a[k] = pg[n + 1 - k + 1]
  <2>1. a = [k \in 1 .. n + 1 |-> pg[n + 1 - k + 1]]
    BY <1>2 DEF Reverse
  <2>2. \A k \in 1 .. n + 1 : n + 1 - k + 1 \in 1 .. n + 1 /\ pg[n + 1 - k + 1] \in S
    BY <1>1, <1>2
  <2> HIDE DEF a, n, pg
  <2> QED
    BY <1>1, <2>1, <2>2
<1> HIDE DEF a, r, pg, n
<1>5. b \in Seq(S) /\ Len(b) = n + 1 /\ b[n + 1] = p /\ \A k \in 1 .. n : b[k] = r[k]
  BY <1>3, <1>1
<1> HIDE DEF b
<1>6. ASSUME NEW k \in 1 .. Len(a) PROVE a[k] = b[k]
  <2>1. k \in 1 .. n + 1
    BY <1>1, <1>4
  <2>2. CASE k = n + 1
    <3>1. n + 1 - k + 1 = 1
      BY <1>1, <2>2
    <3> QED
      BY <1>2, <1>4, <1>5, <2>1, <2>2, <3>1
  <2>3. CASE k # n + 1
    <3> DEFINE m == n - k + 1
    <3>1. k \in 1 .. n /\ m \in 1 .. n /\ n + 1 - k + 1 = m + 1
      BY <1>1, <2>1, <2>3
    <3>2. a[k] = pg[n + 1 - k + 1] /\ b[k] = r[k] /\ r[k] = g[m]
      BY <1>3, <1>4, <1>5, <2>1, <3>1
    <3>3. pg[m + 1] = g[m]
      BY <1>2, <3>1
    <3> HIDE DEF m
    <3> QED
      BY <3>1, <3>2, <3>3
  <2> QED
    BY <2>2, <2>3
<1>7. a = b
  BY <1>1, <1>4, <1>5, <1>6, SeqEqual
<1> QED
  BY <1>3, <1>7 DEF a, b, r, pg

\* q is the text up to its first "#", which is at h.
IsQuery(s, q, h) == Stops(s, Len(s) + 1, 1, {"#"}, h) /\ q = SubSeq(s, 1, h - 1)

LEMMA QueryIs ==
  ASSUME NEW s \in Texts
  PROVE  \E h : IsQuery(s, Query(s), h)
<1> DEFINE p == SelectInSeq(s, LAMBDA x : x = "#")
           I == {k \in 1 .. Len(s) : s[k] = "#"}
           N == Len(s)
<1>1. p = IF I # {} THEN Min(I) ELSE 0
  BY DEF SelectInSeq
<1>2. Query(s) = IF p = 0 THEN s ELSE SubSeq(s, 1, p - 1)
  BY Zenon DEF Query
<1>3. N \in Nat
  BY DEF Texts
<1> HIDE DEF p
<1>4. FirstIs(s, "#", p)
  BY <1>1, SelectIs
<1>5. CASE p = 0
  <2>1. \A k \in 1 .. N : s[k] # "#"
    BY <1>4, <1>5 DEF FirstIs
  <2> DEFINE h == N + 1
  <2>2. Stops(s, Len(s) + 1, 1, {"#"}, h)
    BY <1>3, <2>1 DEF Stops
  <2>3. s = SubSeq(s, 1, h - 1)
    <3> DEFINE u == SubSeq(s, 1, h - 1)
    <3>1. u \in Seq(QueryLetters) /\ Len(u) = N /\ \A k \in 1 .. N : u[k] = s[k]
      BY <1>3 DEF Texts
    <3>2. s \in Seq(QueryLetters) /\ \A k \in 1 .. Len(s) : s[k] = u[k]
      BY <3>1 DEF Texts
    <3> HIDE DEF u
    <3>3. s = u
      BY <3>1, <3>2, SeqEqual
    <3> QED
      BY <3>3 DEF u
  <2> HIDE DEF h
  <2> QED
    BY <1>2, <1>5, <2>2, <2>3 DEF IsQuery
<1>6. CASE p # 0
  <2>1. p \in 1 .. Len(s) /\ s[p] = "#" /\ \A k \in 1 .. p - 1 : s[k] # "#"
    BY <1>4, <1>6 DEF FirstIs
  <2>2. Stops(s, Len(s) + 1, 1, {"#"}, p)
    BY <1>3, <2>1 DEF Stops
  <2> QED
    BY <1>2, <1>6, <2>2 DEF IsQuery
<1> QED
  BY <1>5, <1>6

\* A field of the query ends where a value of the text ends.
LEMMA FieldEnds ==
  ASSUME NEW s \in Texts, NEW q, NEW h, IsQuery(s, q, h),
         NEW i \in 1 .. h, NEW j, Stops(q, Len(q) + 1, i, {"&"}, j)
  PROVE  /\ q \in Texts /\ Len(q) + 1 = h /\ h \in 1 .. Len(s) + 1 /\ i \in 1 .. Len(s) + 1
         /\ j \in i .. h /\ Stops(s, Len(s) + 1, i, ValueStops, j)
         /\ SubSeq(q, i, j - 1) = SubSeq(s, i, j - 1)
         /\ Char(s, j) \in {Null, "#"} <=> j = h
         /\ j # h => s[j] = "&"
<1> DEFINE N == Len(s)
<1>0. Stops(s, Len(s) + 1, 1, {"#"}, h) /\ q = SubSeq(s, 1, h - 1)
  BY DEF IsQuery
<1>1. N \in Nat /\ h \in 1 .. N + 1 /\ \A k \in 1 .. N : s[k] \in QueryLetters /\ Char(s, k) = s[k]
  BY <1>0 DEF Stops, Texts, Char
<1>2. Null \notin QueryLetters /\ Null # "#" /\ Null # "&" /\ Char(s, N + 1) = Null
  BY SymbolsAssumption, <1>1 DEF QueryLetters, Null, Char
<1>3. q \in Texts /\ Len(q) + 1 = h /\ \A k \in 1 .. h - 1 : q[k] = s[k]
  BY <1>0, <1>1 DEF Texts
<1> HIDE DEF N
<1>4. /\ j \in i .. h /\ (j < h => q[j] = "&") /\ \A k \in i .. j - 1 : q[k] # "&"
      /\ (h < N + 1 => s[h] = "#") /\ \A k \in 1 .. h - 1 : s[k] # "#"
  BY <1>0, <1>3 DEF Stops, N
<1>5. j < h => j \in 1 .. h - 1 /\ j \in 1 .. N /\ s[j] = "&"
  BY <1>1, <1>3, <1>4
<1>6. j = h => j = N + 1 \/ s[j] = "#"
  BY <1>1, <1>4
<1>7. j < N + 1 => s[j] \in ValueStops
  <2>1. j < h \/ j = h
    BY <1>1, <1>4
  <2> QED
    BY <1>1, <1>5, <1>6, <2>1 DEF ValueStops
<1>8. ASSUME NEW k \in i .. j - 1 PROVE s[k] \notin ValueStops
  <2>1. k \in 1 .. h - 1 /\ k \in 1 .. N
    BY <1>1, <1>4
  <2> QED
    BY <1>1, <1>2, <1>3, <1>4, <2>1 DEF ValueStops
<1>9. Stops(s, N + 1, i, ValueStops, j)
  BY <1>1, <1>4, <1>7, <1>8 DEF Stops
<1>10. SubSeq(q, i, j - 1) = SubSeq(s, i, j - 1)
  <2>1. h \in 1 .. Len(s) + 1 /\ 1 \in 1 .. Len(s) + 1 /\ h \in 1 .. Len(s) + 1
    BY <1>1 DEF N
  <2>2. i \in 1 .. h - 1 + 1 /\ j \in i .. h - 1 + 1
    BY <1>1, <1>4
  <2>3. SubSeq(SubSeq(s, 1, h - 1), i, j - 1) = SubSeq(s, 1 + i - 1, 1 + j - 1 - 1)
    BY <2>1, <2>2, PartOfPart
  <2>4. 1 + i - 1 = i /\ 1 + j - 1 - 1 = j - 1
    BY <1>1, <1>4
  <2> QED
    BY <1>0, <2>3, <2>4
<1>11. Char(s, j) \in {Null, "#"} <=> j = h
  <2>1. CASE j = h
    <3>1. j = N + 1 \/ (j \in 1 .. N /\ s[j] = "#")
      BY <1>1, <1>6, <2>1
    <3> QED
      BY <1>1, <1>2, <2>1, <3>1
  <2>2. CASE j < h
    <3>1. Char(s, j) = "&" /\ j # h
      BY <1>1, <1>5, <2>2
    <3> QED
      BY <1>2, <3>1
  <2> QED
    BY <1>1, <1>4, <2>1, <2>2
<1>12. j # h => s[j] = "&"
  BY <1>1, <1>4, <1>5
<1>13. i \in 1 .. N + 1
  BY <1>1
<1> QED
  BY <1>1, <1>3, <1>4, <1>9, <1>10, <1>11, <1>12, <1>13 DEF N

\* "from" holds what the scan finds from each place on.
IsScan(s, from) ==
  /\ \A i \in 1 .. Len(s) + 2 : from[i] \in Scans
  /\ \A i \in 1 .. Len(s) + 1 : from[i] = Scanned(s, i, from[FurtherFrom(s, i)])

Reversed(fields) == [beyond |-> FALSE, params |-> Reverse(FieldParams(fields))]

\* At a "&" the scan goes on behind it.
LEMMA NothingAtSeparator ==
  ASSUME NEW s \in Texts, NEW from, IsScan(s, from), NEW j \in 1 .. Len(s), s[j] = "&"
  PROVE  from[j] = from[j + 1]
<1> DEFINE N == Len(s)
<1>1. N \in Nat /\ j \in 1 .. N + 1 /\ N + 1 \in Nat
  BY DEF Texts
<1>2. Null \notin QueryLetters
  BY SymbolsAssumption DEF QueryLetters
<1>3. Stops(s, N + 1, j, ValueStops \cup {"="}, NameEnd(s, j))
  BY <1>1, <1>2, ParamEnds, Zenon DEF Texts
<1>4. Stops(s, N + 1, j, ValueStops \cup {"="}, j)
  BY <1>1 DEF Stops, ValueStops
<1> HIDE DEF N
<1>5. NameEnd(s, j) = j
  BY <1>1, <1>3, <1>4, StopsOnce
<1>6. FurtherFrom(s, j) = j + 1
  BY <1>5, Zenon DEF FurtherFrom
<1>7. Scanned(s, j, from[j + 1]) = from[j + 1]
  BY <1>5, Zenon DEF Scanned
<1>8. from[j] = Scanned(s, j, from[FurtherFrom(s, j)])
  BY <1>1 DEF IsScan, N
<1> QED
  BY <1>6, <1>7, <1>8

LEMMA ParamAdded ==
  ASSUME NEW scan, NEW r \in Seq(Params), NEW p \in Params,
         scan = [beyond |-> FALSE, params |-> r]
  PROVE  [scan EXCEPT !.params = Append(@, p)] = [beyond |-> FALSE, params |-> Append(r, p)]
<1> DEFINE ap == Append(r, p)
           more == [scan EXCEPT !.params = ap]
<1>1. scan.params = r
  OBVIOUS
<1>2. [scan EXCEPT !.params = Append(@, p)] = [scan EXCEPT !.params = ap]
  BY <1>1
<1>3. ap \in Seq(Params)
  BY AppendProperties
<1> HIDE DEF ap
<1>4. scan \in Scans /\ scan.beyond = FALSE
  BY DEF Scans
<1>5. more \in Scans /\ more.beyond = FALSE /\ more.params = ap
  BY <1>3, <1>4 DEF Scans
<1> HIDE DEF more
<1>6. more = [beyond |-> FALSE, params |-> ap]
  BY <1>5 DEF Scans
<1> QED
  BY <1>2, <1>6 DEF ap, more

\* One field more.
LEMMA ScanGrows ==
  ASSUME NEW s \in Texts, NEW from, IsScan(s, from),
         NEW q, NEW h, IsQuery(s, q, h), NEW rest, IsFields(q, rest),
         NEW i \in 1 .. h, NEW j, Splits(q, rest, i, j), AllNamed(rest[i]),
         j # h /\ AllNamed(rest[j + 1]) => from[j + 1] = Reversed(rest[j + 1])
  PROVE  from[i] = Reversed(rest[i])
<1> DEFINE f == SubSeq(q, i, j - 1)
           p == Field(f)
           g == IF j = h THEN <<>> ELSE rest[j + 1]
<1>1. Stops(q, Len(q) + 1, i, {"&"}, j)
  BY Zenon DEF Splits
<1>2. /\ q \in Texts /\ Len(q) + 1 = h /\ h \in 1 .. Len(s) + 1 /\ i \in 1 .. Len(s) + 1
      /\ j \in i .. h /\ Stops(s, Len(s) + 1, i, ValueStops, j)
      /\ f = SubSeq(s, i, j - 1)
      /\ Char(s, j) \in {Null, "#"} <=> j = h
      /\ j # h => s[j] = "&"
  BY <1>1, FieldEnds, Zenon
<1>3. rest[i] = <<f>> \o g
  BY <1>2, Zenon DEF Splits
<1>4. g \in Seq(Texts)
  <2>1. j # h => j + 1 \in 1 .. Len(q) + 1
    BY <1>2
  <2> QED
    BY <1>2, <2>1 DEF IsFields
<1>5. f \in Texts
  BY <1>2 DEF Texts
<1>6. Field(f) = ParamAt(s, i) /\ ParamEnd(s, i) = j
      /\ (ParamAt(s, i).name # <<>> => NameEnd(s, i) # i)
  BY <1>2, FieldIs
<1> HIDE DEF f, g
<1>7. /\ FieldParams(rest[i]) = <<p>> \o FieldParams(g) /\ FieldParams(g) \in Seq(Params)
      /\ p.name # <<>> /\ AllNamed(g)
  BY <1>3, <1>4, <1>5, FieldParamsGrow
<1>8. p \in Params
  BY <1>5, FieldTyped
<1>9. p = ParamAt(s, i) /\ NameEnd(s, i) # i
  BY <1>6, <1>7
<1> HIDE DEF p
<1>10. FurtherFrom(s, i) = j
  BY <1>6, <1>9, Zenon DEF FurtherFrom
<1>11. from[i] = Scanned(s, i, from[j])
  BY <1>2, <1>10 DEF IsScan
<1> DEFINE r == Reverse(FieldParams(g))
<1>12. Reverse(FieldParams(rest[i])) = Append(r, p) /\ r \in Seq(Params)
  BY <1>7, <1>8, ReverseGrows
<1>13. CASE j = h
  <2>1. from[i] = [beyond |-> FALSE, params |-> <<p>>]
    BY <1>2, <1>6, <1>9, <1>11, <1>13, Zenon DEF Scanned
  <2>2. r = <<>>
    <3>1. FieldParams(g) = <<>>
      BY <1>13 DEF g, FieldParams
    <3> QED
      BY <3>1 DEF Reverse
  <2>3. Append(r, p) = <<p>>
    BY <2>2
  <2> QED
    BY <1>12, <2>1, <2>3, Zenon DEF Reversed
<1>14. CASE j # h
  <2>1. from[i] = [from[j] EXCEPT !.params = Append(@, p)]
    BY <1>2, <1>6, <1>9, <1>11, <1>14, Zenon DEF Scanned
  <2>2. j \in 1 .. Len(s) /\ s[j] = "&"
    BY <1>2, <1>14
  <2>3. from[j] = from[j + 1]
    BY <2>2, NothingAtSeparator
  <2>4. g = rest[j + 1]
    BY <1>14 DEF g
  <2>5. from[j] = Reversed(g)
    BY <1>7, <1>14, <2>3, <2>4
  <2> DEFINE ap == Append(r, p)
  <2>6. from[i] = [beyond |-> FALSE, params |-> ap]
    <3>1. from[j] = [beyond |-> FALSE, params |-> r]
      BY <2>5, Zenon DEF Reversed
    <3> DEFINE scan == from[j]
    <3>2. from[i] = [scan EXCEPT !.params = Append(@, p)]
      BY <2>1
    <3> HIDE DEF r, scan
    <3>3. scan = [beyond |-> FALSE, params |-> r]
      BY <3>1 DEF scan
    <3>4. [scan EXCEPT !.params = Append(@, p)] = [beyond |-> FALSE, params |-> Append(r, p)]
      BY <1>8, <1>12, <3>3, ParamAdded
    <3> QED
      BY <3>2, <3>4, Zenon
  <2> QED
    BY <1>12, <2>6, Zenon DEF Reversed
<1> QED
  BY <1>13, <1>14

\* What the scan finds from each of the query's letters on.
LEMMA ScanIs ==
  ASSUME NEW s \in Texts, NEW from, IsScan(s, from),
         NEW q, NEW h, IsQuery(s, q, h), NEW rest, IsFields(q, rest)
  PROVE  \A i \in 1 .. h : AllNamed(rest[i]) => from[i] = Reversed(rest[i])
<1>1. h \in 1 .. Len(s) + 1 /\ Len(s) \in Nat
  BY DEF IsQuery, Stops, Texts
<1>2. q \in Texts /\ Len(q) + 1 = h
  BY <1>1 DEF IsQuery, Texts
<1> DEFINE M == h - 1
           E == {n \in 0 .. M : AllNamed(rest[n + 1]) => from[n + 1] = Reversed(rest[n + 1])}
<1>3. M \in Nat /\ M + 1 = h
  BY <1>1
<1>4. ASSUME NEW m \in 0 .. M, \A n \in m + 1 .. M : n \in E PROVE m \in E
  <2>1. m + 1 \in 1 .. h
    BY <1>3
  <2>2. PICK j : Splits(q, rest, m + 1, j)
    BY <1>2, <2>1, FieldsSplit
  <2>3. j \in m + 1 .. h
    BY <1>2, <2>2 DEF Splits, Stops
  <2>4. j # h => j \in m + 1 .. M
    BY <1>3, <2>3
  <2>5. j # h /\ AllNamed(rest[j + 1]) => from[j + 1] = Reversed(rest[j + 1])
    BY <1>4, <2>4
  <2>6. AllNamed(rest[m + 1]) => from[m + 1] = Reversed(rest[m + 1])
    <3> DEFINE i == m + 1
    <3> HIDE DEF E, M
    <3> SUFFICES ASSUME AllNamed(rest[i]) PROVE from[i] = Reversed(rest[i])
      OBVIOUS
    <3>1. i \in 1 .. h /\ Splits(q, rest, i, j)
      BY <2>1, <2>2
    <3> HIDE DEF i
    <3> QED
      BY <2>5, <3>1, ScanGrows
  <2> QED
    BY <2>6
<1> HIDE DEF M
<1>5. IsInductiveDown(E, M)
  <2>1. M \in E
    <3>1. M \in 0 .. M /\ \A n \in M + 1 .. M : FALSE
      BY <1>3
    <3> HIDE DEF E
    <3> QED
      BY <1>4, <3>1
  <2>2. ASSUME NEW m \in 0 .. M - 1, m + 1 .. M \subseteq E PROVE m \in E
    <3>1. m \in 0 .. M
      BY <1>3
    <3> HIDE DEF E
    <3>2. \A n \in m + 1 .. M : n \in E
      BY <2>2
    <3> QED
      BY <1>4, <3>1, <3>2
  <2> HIDE DEF E
  <2> QED
    BY <2>1, <2>2 DEF IsInductiveDown
<1>6. \A n \in 0 .. M : n \in E
  <2> HIDE DEF E
  <2> QED
    BY <1>3, <1>5, InductionDown
<1>7. \A i \in 1 .. h : i - 1 \in 0 .. M /\ i - 1 + 1 = i
  BY <1>3
<1> QED
  BY <1>6, <1>7

\* The parameter found is the last of its name.
LEMMA FindIs ==
  ASSUME NEW S, NEW params \in Seq(S), NEW k \in DOMAIN params,
         NEW same, same = {m \in DOMAIN params : params[m].name = params[k].name}
  PROVE  Find(Reverse(params), params[k].name) = <<params[Max(same)]>>
<1> DEFINE n == Len(params)
           r == Reverse(params)
           name == params[k].name
           found == {m \in DOMAIN r : r[m].name = name}
           x == Max(same)
           y == n - x + 1
<1>1. n \in Nat /\ DOMAIN params = 1 .. n
  OBVIOUS
<1>2. same \subseteq 0 .. n /\ k \in same
  BY <1>1
<1>3. x \in same /\ \A m \in same : m <= x
  BY <1>1, <1>2, MaxIs
<1>4. Find(r, name) = IF found = {} THEN <<>> ELSE <<r[Min(found)]>>
  BY Zenon DEF Find
<1>5. DOMAIN r = 1 .. n /\ \A m \in 1 .. n : r[m] = params[n - m + 1]
  BY <1>1 DEF Reverse
<1> HIDE DEF r, name, x, n
<1>6. x \in 1 .. n /\ params[x].name = name
  BY <1>1, <1>3 DEF name
<1>7. y \in 1 .. n /\ n - y + 1 = x
  BY <1>1, <1>6
<1>8. y \in found /\ r[y] = params[x]
  BY <1>5, <1>6, <1>7
<1>9. ASSUME NEW m \in found PROVE y <= m
  <2>1. m \in 1 .. n /\ params[n - m + 1].name = name
    BY <1>5
  <2>2. n - m + 1 \in 1 .. n
    BY <1>1, <2>1
  <2>3. n - m + 1 \in same
    BY <1>1, <2>1, <2>2 DEF name
  <2>4. n - m + 1 <= x
    BY <1>3, <2>3
  <2> QED
    BY <1>1, <1>6, <2>1, <2>4
<1>10. found \subseteq Int
  BY <1>1, <1>5
<1> HIDE DEF found, y
<1>11. Min(found) = y
  BY <1>8, <1>9, <1>10, MinIs
<1>12. found # {}
  BY <1>8
<1> QED
  BY <1>4, <1>8, <1>11, <1>12 DEF r, name, x

LEMMA QuerySplit ==
  ASSUME NEW s \in Texts, NEW params, params = FieldParams(Fields(Query(s))),
         \A k \in DOMAIN params : params[k].name # <<>>
  PROVE  /\ Parsed(s) = [beyond |-> FALSE, params |-> Reverse(params)]
         /\ \A k \in DOMAIN params :
              LET same == {m \in DOMAIN params : params[m].name = params[k].name}
              IN  Find(Parsed(s).params, params[k].name) = <<params[Max(same)]>>
<1> DEFINE q == Query(s)
           fields == Fields(q)
<1>1. PICK h : IsQuery(s, q, h)
  BY QueryIs
<1>2. q \in Texts /\ 1 \in 1 .. h
  BY <1>1 DEF IsQuery, Texts, Stops
<1> HIDE DEF q
<1>3. PICK rest : fields = rest[1] /\ IsFields(q, rest)
  <2> HIDE DEF fields
  <2>1. fields = Fields(q)
    BY DEF fields
  <2> QED
    BY <1>2, <2>1, FieldsSteps, Zenon DEF IsFields
<1>4. PICK from : Parsed(s) = from[1] /\ IsScan(s, from)
  BY ParsedSteps, Zenon DEF IsScan, Texts
<1> HIDE DEF fields
<1>5. \A i \in 1 .. h : AllNamed(rest[i]) => from[i] = Reversed(rest[i])
  BY <1>1, <1>3, <1>4, ScanIs
<1>6. fields \in Seq(Texts)
  <2>1. 1 \in 1 .. Len(q) + 1
    BY <1>2 DEF Texts
  <2> QED
    BY <1>3, <2>1 DEF IsFields
<1>7. params = FieldParams(fields)
  BY DEF q, fields
<1>8. DOMAIN params = DOMAIN fields /\ \A k \in DOMAIN fields : params[k] = Field(fields[k])
  BY <1>7 DEF FieldParams
<1>9. params \in Seq(Params)
  <2>1. \A k \in 1 .. Len(fields) : Field(fields[k]) \in Params
    BY <1>6, FieldTyped
  <2> QED
    BY <1>6, <1>7, <2>1 DEF FieldParams
<1>10. AllNamed(fields)
  BY <1>8 DEF AllNamed
<1>11. Parsed(s) = [beyond |-> FALSE, params |-> Reverse(params)]
  BY <1>2, <1>3, <1>4, <1>5, <1>7, <1>10 DEF Reversed
<1>12. Parsed(s).params = Reverse(params)
  BY <1>11
<1>13. ASSUME NEW k \in DOMAIN params,
             NEW same, same = {m \in DOMAIN params : params[m].name = params[k].name}
      PROVE  Find(Parsed(s).params, params[k].name) = <<params[Max(same)]>>
  BY <1>9, <1>12, <1>13, FindIs
<1> QED
  BY <1>11, <1>13, Zenon

(* Whatever characters a controller sends as the parameters of a request,  *)
(* query_params_parse stops at the end of the text, splits it at each "&"  *)
(* and each field at its first "=", and query_params_find finds the last   *)
(* of the parameters of a name, if no field lacks a name.                  *)
THEOREM QueriesReadBack == Spec => []QueriesAreSplit
<1>1. ASSUME InputTyped PROVE QueriesAreSplit
  <2> SUFFICES ASSUME kind = "query" PROVE QueriesAreSplit
    BY DEF QueriesAreSplit
  <2> DEFINE fields == Fields(Query(input))
             params == [k \in DOMAIN fields |-> Field(fields[k])]
             s == input
  <2>1. s \in Texts
    BY <1>1 DEF InputTyped, Texts, QueryLetters
  <2>2. params = FieldParams(Fields(Query(s)))
    BY Zenon DEF FieldParams
  <2> HIDE DEF params, s
  <2>3. (\A k \in DOMAIN params : params[k].name # <<>>) =>
          /\ Parsed(s) = [beyond |-> FALSE, params |-> Reverse(params)]
          /\ \A k \in DOMAIN params :
               LET same == {m \in DOMAIN params : params[m].name = params[k].name}
               IN  Find(Parsed(s).params, params[k].name) = <<params[Max(same)]>>
    BY <2>1, <2>2, QuerySplit
  <2> QED
    BY <2>3, Zenon DEF QueriesAreSplit, params, s
<1> QED
  BY <1>1, InputAlways, PTL
=============================================================================
