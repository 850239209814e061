----------------------------- MODULE JsonProofs -----------------------------
(***************************************************************************)
(* Proofs about the JSON texts of Encodings, for every size of the buffer, *)
(* every width of the tokens and every sequence of calls.                  *)
(***************************************************************************)
EXTENDS EncodingsProofs, FiniteSetTheorems

-----------------------------------------------------------------------------
(* Sequences that grow at their end.                                       *)

LEMMA AppendedIsConcatenated ==
  ASSUME NEW S, NEW s \in Seq(S), NEW x \in S
  PROVE  Append(s, x) = s \o <<x>> /\ Append(s, x) \in Seq(S)
BY AppendIsConcat, AppendProperties

\* The width of a text, token by token.
LEMMA WidthSteps ==
  ASSUME NEW text \in Seq(Tokens)
  PROVE  \E width :
           /\ TextWidth(text) = width[Len(text)] /\ width[0] = 0
           /\ \A n \in 0 .. Len(text) : width[n] \in Nat
           /\ \A n \in 1 .. Len(text) : width[n] = width[n - 1] + Width(text[n])
<1> DEFINE N == Len(text)
           T == Nat
           step == [n \in 1 .. N |-> [w \in T |-> w + Width(text[n])]]
           Body(g, n) == IF n = 0 THEN 0 ELSE g[n - 1] + Width(text[n])
           IsWidth(g) == g = [n \in 0 .. N |-> Body(g, n)]
           width == CHOOSE g : IsWidth(g)
<1>1. N \in Nat /\ \A n \in 1 .. N : Width(text[n]) \in Nat
  BY WidthAssumption
<1>2. IsStep(step, N, T) /\ 0 \in T
  BY <1>1 DEF IsStep
<1>3. PICK f : f \in [0 .. N -> T] /\ Follows(f, N, 0, step)
  <2> HIDE DEF N, step, T
  <2> QED
    BY <1>1, <1>2, RecursionUpTo
<1>4. ASSUME NEW n \in 1 .. N PROVE f[n] = f[n - 1] + Width(text[n])
  <2>1. f[n - 1] \in T
    <3> HIDE DEF N, step, T
    <3> QED
      BY <1>1, <1>3
  <2> HIDE DEF T
  <2> QED
    BY <1>3, <2>1 DEF Follows
<1>5. IsWidth(f)
  <2>1. \A n \in 0 .. N : n = 0 \/ (n \in 1 .. N /\ n # 0)
    BY <1>1
  <2>2. \A n \in 0 .. N : f[n] = Body(f, n)
    BY <1>3, <1>4, <2>1, Zenon DEF Follows
  <2> HIDE DEF Body
  <2> QED
    BY <1>3, <2>2
<1>6. IsWidth(width)
  <2> HIDE DEF IsWidth
  <2> QED
    BY <1>5
<1>7. TextWidth(text) = width[N]
  BY DEF TextWidth
<1> HIDE DEF width
<1>8. \A n \in 0 .. N : width[n] = Body(width, n)
  <2> HIDE DEF Body
  <2> QED
    BY <1>6, Zenon
<1>9. 0 \in 0 .. N /\ \A n \in 1 .. N : n \in 0 .. N /\ n # 0
  BY <1>1
<1>10. width[0] = 0 /\ \A n \in 1 .. N : width[n] = width[n - 1] + Width(text[n])
  BY <1>8, <1>9, Zenon
<1> DEFINE D == {n \in 0 .. N : width[n] \in Nat}
<1> HIDE DEF N
<1>11. 0 \in D
  BY <1>9, <1>10
<1>12. ASSUME NEW n \in 0 .. N - 1, n \in D PROVE n + 1 \in D
  <2>1. n + 1 \in 1 .. N /\ n + 1 - 1 = n /\ n + 1 \in 0 .. N
    BY <1>1
  <2>2. width[n + 1] = width[n] + Width(text[n + 1])
    BY <1>10, <2>1
  <2> QED
    BY <1>1, <1>12, <2>1, <2>2
<1> HIDE DEF D
<1>13. \A n \in 0 .. N : n \in D
  BY <1>1, <1>11, <1>12, InductionUpTo DEF IsInductive
<1>14. \A n \in 0 .. N : width[n] \in Nat
  BY <1>13 DEF D
<1> QED
  BY <1>7, <1>10, <1>14 DEF N

LEMMA WidthOfAppended ==
  ASSUME NEW text \in Seq(Tokens), NEW t \in Tokens
  PROVE  /\ TextWidth(Append(text, t)) = TextWidth(text) + Width(t)
         /\ TextWidth(text) \in Nat /\ Width(t) \in Nat \ {0}
         /\ text # <<>> => TextWidth(text) # 0
<1> DEFINE more == Append(text, t)
           N == Len(text)
<1>1. PICK width :
        /\ TextWidth(text) = width[N] /\ width[0] = 0
        /\ \A n \in 0 .. N : width[n] \in Nat
        /\ \A n \in 1 .. N : width[n] = width[n - 1] + Width(text[n])
  BY WidthSteps
<1>2. /\ more \in Seq(Tokens) /\ Len(more) = N + 1 /\ more[N + 1] = t /\ N \in Nat
      /\ \A n \in 1 .. N : more[n] = text[n]
  BY AppendProperties
<1> HIDE DEF more
<1>3. PICK wider :
        /\ TextWidth(more) = wider[N + 1] /\ wider[0] = 0
        /\ \A n \in 0 .. N + 1 : wider[n] \in Nat
        /\ \A n \in 1 .. N + 1 : wider[n] = wider[n - 1] + Width(more[n])
  BY <1>2, WidthSteps
<1> DEFINE D == {n \in 0 .. N : wider[n] = width[n]}
<1>4. N \in D
  <2>1. 0 \in D
    BY <1>1, <1>2, <1>3
  <2>2. ASSUME NEW n \in 0 .. N - 1, n \in D PROVE n + 1 \in D
    <3>1. n + 1 \in 1 .. N /\ n + 1 \in 1 .. N + 1 /\ n + 1 - 1 = n /\ n + 1 \in 0 .. N
      BY <1>2
    <3>2. /\ wider[n + 1] = wider[n] + Width(more[n + 1])
          /\ width[n + 1] = width[n] + Width(text[n + 1])
      BY <1>1, <1>3, <3>1
    <3> QED
      BY <1>2, <2>2, <3>1, <3>2
  <2> HIDE DEF D
  <2> QED
    BY <1>2, <2>1, <2>2, InductionUpTo DEF IsInductive
<1>5. wider[N + 1] = wider[N] + Width(t)
  <2>1. N + 1 \in 1 .. N + 1 /\ N + 1 - 1 = N
    BY <1>2
  <2> QED
    BY <1>2, <1>3, <2>1
<1>6. Width(t) \in Nat \ {0}
  BY WidthAssumption
<1>7. ASSUME text # <<>> PROVE width[N] # 0
  <2>1. N \in 1 .. N /\ N - 1 \in 0 .. N
    BY <1>7
  <2>2. text[N] \in Tokens
    BY <2>1
  <2>3. width[N] = width[N - 1] + Width(text[N]) /\ width[N - 1] \in Nat
    BY <1>1, <2>1
  <2> QED
    BY <2>2, <2>3, WidthAssumption
<1>8. TextWidth(text) \in Nat
  <2>1. N \in 0 .. N
    BY <1>2
  <2> QED
    BY <1>1, <2>1
<1> QED
  BY <1>1, <1>3, <1>4, <1>5, <1>6, <1>7, <1>8 DEF more

LEMMA WidthOfNothing == TextWidth(<<>>) = 0
<1>1. <<>> \in Seq(Tokens) /\ Len(<<>>) = 0
  OBVIOUS
<1>2. PICK width : TextWidth(<<>>) = width[Len(<<>>)] /\ width[0] = 0
  BY <1>1, WidthSteps
<1> QED
  BY <1>1, <1>2

LEMMA FlattenNothing == FlattenSeq(<<>>) = <<>>
BY DEF FlattenSeq

LEMMA FlattenTyped ==
  ASSUME NEW S, NEW pieces \in Seq(Seq(S))
  PROVE  FlattenSeq(pieces) \in Seq(S)
<1>1. CASE pieces = <<>>
  <2>1. <<>> \in Seq(S)
    OBVIOUS
  <2> QED
    BY <1>1, <2>1, FlattenNothing, Zenon
<1>2. CASE pieces # <<>>
  <2> DEFINE N == Len(pieces)
  <2>1. PICK flat : FlattenSeq(pieces) = flat[N] /\ \A n \in 0 .. N : flat[n] \in Seq(S)
    BY <1>2, FlattenSteps
  <2>2. N \in 0 .. N
    OBVIOUS
  <2> HIDE DEF N
  <2> QED
    BY <2>1, <2>2, Zenon
<1> QED
  BY <1>1, <1>2

LEMMA FlattenAppended ==
  ASSUME NEW S, NEW pieces \in Seq(Seq(S)), NEW s \in Seq(S)
  PROVE  FlattenSeq(Append(pieces, s)) = FlattenSeq(pieces) \o s
<1> DEFINE T == Seq(S)
           more == Append(pieces, s)
           N == Len(pieces)
<1>1. /\ more \in Seq(T) /\ Len(more) = N + 1 /\ more[N + 1] = s /\ N \in Nat /\ more # <<>>
      /\ \A n \in 1 .. N : more[n] = pieces[n]
  <2> HIDE DEF T
  <2>1. pieces \in Seq(T) /\ s \in T
    BY DEF T
  <2> QED
    BY <2>1, AppendProperties
<1> HIDE DEF more
<1> DEFINE M == Len(more)
<1>0. PICK wide :
        /\ FlattenSeq(more) = wide[M]
        /\ \A n \in 0 .. M : wide[n] \in Seq(S)
        /\ wide[0] = <<>>
        /\ \A n \in 1 .. M : wide[n] = wide[n - 1] \o more[n]
  <2>1. more \in Seq(T) /\ more # <<>>
    BY <1>1
  <2>2. more \in Seq(Seq(S)) /\ more # <<>>
    BY <2>1
  <2> QED
    BY <2>2, FlattenSteps, Zenon
<1>2. /\ FlattenSeq(more) = wide[N + 1] /\ wide[0] = <<>>
      /\ \A n \in 0 .. N + 1 : wide[n] \in Seq(S)
      /\ \A n \in 1 .. N + 1 : wide[n] = wide[n - 1] \o more[n]
  <2>1. M = N + 1
    BY <1>1
  <2> HIDE DEF M
  <2> QED
    BY <1>0, <2>1
<1> HIDE DEF M
<1>3. wide[N + 1] = wide[N] \o s
  <2>1. PICK i \in 1 .. N + 1 : i = N + 1 /\ i - 1 = N
    <3>1. N + 1 \in 1 .. N + 1 /\ N + 1 - 1 = N
      BY <1>1
    <3> QED
      BY <3>1
  <2>2. wide[i] = wide[i - 1] \o more[i]
    BY <1>2
  <2> HIDE DEF N
  <2> QED
    BY <1>1, <2>1, <2>2
<1>4. wide[N] = FlattenSeq(pieces)
  <2>1. CASE pieces = <<>>
    BY <1>2, <2>1, FlattenNothing
  <2>2. CASE pieces # <<>>
    <3>1. PICK flat :
            /\ FlattenSeq(pieces) = flat[N] /\ flat[0] = <<>>
            /\ \A n \in 1 .. N : flat[n] = flat[n - 1] \o pieces[n]
      BY <2>2, FlattenSteps, Zenon
    <3> DEFINE D == {n \in 0 .. N : wide[n] = flat[n]}
    <3> HIDE DEF N
    <3>2. 0 \in D
      BY <1>1, <1>2, <3>1
    <3>3. ASSUME NEW n \in 0 .. N - 1, n \in D PROVE n + 1 \in D
      <4>1. PICK i \in 1 .. N : i \in 1 .. N + 1 /\ i = n + 1 /\ i - 1 = n /\ i \in 0 .. N
        <5>1. n + 1 \in 1 .. N /\ n + 1 \in 1 .. N + 1 /\ n + 1 - 1 = n /\ n + 1 \in 0 .. N
          BY <1>1
        <5> QED
          BY <5>1
      <4>2. wide[i] = wide[i - 1] \o more[i] /\ flat[i] = flat[i - 1] \o pieces[i]
        BY <1>2, <3>1, <4>1
      <4> QED
        BY <1>1, <3>3, <4>1, <4>2
    <3> HIDE DEF D
    <3>4. N \in D
      BY <1>1, <3>2, <3>3, InductionUpTo DEF IsInductive
    <3> QED
      BY <3>1, <3>4 DEF D
  <2> QED
    BY <2>1, <2>2
<1> QED
  BY <1>2, <1>3, <1>4 DEF more

IsRow(s, n) == s = [i \in 1 .. n |-> s[i]]

IsFlattening(flat, pieces, n) ==
  /\ FlattenSeq(pieces) = flat[n] /\ flat[0] = <<>>
  /\ \A i \in 1 .. n : flat[i] = flat[i - 1] \o pieces[i]

LEMMA FlattenPieces ==
  ASSUME NEW S, NEW N \in Nat, NEW pieces, IsRow(pieces, N),
         \A i \in 1 .. N : pieces[i] \in Seq(S)
  PROVE  \E flat : IsFlattening(flat, pieces, N)
<1>1. CASE N = 0
  <2>1. pieces = <<>>
    BY <1>1 DEF IsRow
  <2> DEFINE flat == [n \in 0 .. 0 |-> <<>>]
  <2>2. flat[N] = <<>> /\ flat[0] = <<>> /\ 1 .. N = {}
    BY <1>1
  <2> HIDE DEF flat
  <2>3. FlattenSeq(pieces) = flat[N]
    BY <2>1, <2>2, FlattenNothing
  <2> QED
    BY <2>2, <2>3 DEF IsFlattening
<1>2. CASE N # 0
  <2> DEFINE T == Seq(S)
             M == Len(pieces)
  <2>1. \A i \in 1 .. N : pieces[i] \in T
    OBVIOUS
  <2> HIDE DEF T
  <2>2. pieces \in Seq(T) /\ M = N /\ pieces # <<>>
    BY <1>2, <2>1 DEF IsRow
  <2>3. pieces \in Seq(Seq(S))
    BY <2>2 DEF T
  <2>4. PICK flat : /\ FlattenSeq(pieces) = flat[M]
                    /\ \A n \in 0 .. M : flat[n] \in Seq(S)
                    /\ flat[0] = <<>>
                    /\ \A n \in 1 .. M : flat[n] = flat[n - 1] \o pieces[n]
    BY <2>2, <2>3, FlattenSteps, Zenon
  <2> HIDE DEF M
  <2> QED
    BY <2>2, <2>4 DEF IsFlattening
<1> QED
  BY <1>1, <1>2

LEMMA TokensArePlain == \A t \in Tokens : Lexemes(t) = <<t>>
BY CallsAssumption, AnswersAssumption DEF Tokens, Plain

\* Of a text that needs no escaping a reader finds the tokens it was made of.
LEMMA LexedPlain ==
  ASSUME NEW text \in Seq(Tokens)
  PROVE  Lexed(text) = text
<1> DEFINE N == Len(text)
           pieces == [i \in DOMAIN text |-> Lexemes(text[i])]
<1>1. N \in Nat /\ DOMAIN text = 1 .. N /\ \A i \in 1 .. N : text[i] \in Tokens
  OBVIOUS
<1>2. pieces = [i \in 1 .. N |-> <<text[i]>>]
  BY <1>1, TokensArePlain
<1> HIDE DEF pieces, N
<1>3. \A i \in 1 .. N : pieces[i] = <<text[i]>> /\ pieces[i] \in Seq(Tokens)
  BY <1>1, <1>2
<1>4. IsRow(pieces, N)
  BY <1>2, <1>3 DEF IsRow
<1>5. PICK flat : IsFlattening(flat, pieces, N)
  BY <1>1, <1>3, <1>4, FlattenPieces
<1> DEFINE D == {n \in 0 .. N : flat[n] = SubSeq(text, 1, n)}
<1>6. 0 \in D
  <2>1. 0 \in 0 .. N
    BY <1>1
  <2>2. SubSeq(text, 1, 0) = <<>>
    BY SubSeqEmpty
  <2>3. flat[0] = SubSeq(text, 1, 0)
    BY <1>5, <2>2, Zenon DEF IsFlattening
  <2> QED
    BY <2>1, <2>3, Zenon
<1>7. ASSUME NEW n \in 0 .. N - 1, n \in D PROVE n + 1 \in D
  <2>1. PICK i \in 1 .. N : i = n + 1 /\ i - 1 = n
    <3>1. n + 1 \in 1 .. N /\ n + 1 - 1 = n
      BY <1>1
    <3> QED
      BY <3>1
  <2>2. SubSeq(text, 1, i) = SubSeq(text, 1, i - 1) \o <<text[i]>>
    BY <1>1, SubSeqRecursiveSecond DEF N
  <2>3. flat[i] = flat[i - 1] \o pieces[i]
    BY <1>5 DEF IsFlattening
  <2>4. flat[i] = SubSeq(text, 1, i)
    BY <1>3, <1>7, <2>1, <2>2, <2>3
  <2> QED
    BY <1>1, <2>1, <2>4
<1>8. flat[N] = SubSeq(text, 1, N)
  <2> HIDE DEF D
  <2>1. N \in D
    BY <1>1, <1>6, <1>7, InductionUpTo DEF IsInductive
  <2> QED
    BY <2>1 DEF D
<1>9. SubSeq(text, 1, N) = text
  BY SubSeqFull DEF N
<1> QED
  BY <1>5, <1>8, <1>9 DEF IsFlattening, Lexed, pieces

-----------------------------------------------------------------------------
(* The buffer of a stream.                                                 *)

Nests == {"object", "array"}
StreamStates == {"start", "end", "error", "object", "object_key", "object_value",
                 "array", "array_item"}
Streams == [state : StreamStates, nesting : Seq(Nests), buffer : Seq(Tokens), pos : Nat,
            chunks : Seq(Seq(Tokens)), lost : BOOLEAN]

\* The chunks of a body, none empty and each within the buffer.
AreChunks(chunks) ==
  \A i \in DOMAIN chunks : chunks[i] # <<>> /\ TextWidth(chunks[i]) <= Size - 1

IsStream(j) ==
  /\ j \in Streams
  /\ j.pos = TextWidth(j.buffer) /\ j.pos <= Size - 1
  /\ AreChunks(j.chunks)

\* What has been written to a stream, flushed or not.
TextOf(j) == FlattenSeq(j.chunks) \o j.buffer

SameState(j, k) == k.state = j.state /\ k.nesting = j.nesting

LEMMA TextTyped ==
  ASSUME NEW j, IsStream(j)
  PROVE  TextOf(j) \in Seq(Tokens) /\ FlattenSeq(j.chunks) \in Seq(Tokens)
<1>1. j.chunks \in Seq(Seq(Tokens)) /\ j.buffer \in Seq(Tokens)
  BY DEF IsStream, Streams
<1>2. FlattenSeq(j.chunks) \in Seq(Tokens)
  BY <1>1, FlattenTyped
<1> QED
  BY <1>1, <1>2 DEF TextOf

LEMMA FlushedStream ==
  ASSUME NEW j, IsStream(j)
  PROVE  /\ IsStream(Flushed(j)) /\ SameState(j, Flushed(j))
         /\ Flushed(j).pos = 0 /\ Flushed(j).lost = j.lost
         /\ TextOf(Flushed(j)) = TextOf(j) /\ FlattenSeq(Flushed(j).chunks) = TextOf(j)
<1> DEFINE flat == FlattenSeq(j.chunks)
<1>1. /\ j \in Streams /\ j.pos = TextWidth(j.buffer) /\ j.pos <= Size - 1 /\ AreChunks(j.chunks)
      /\ j.buffer \in Seq(Tokens) /\ j.chunks \in Seq(Seq(Tokens)) /\ j.pos \in Nat
  BY DEF IsStream, Streams
<1>2. flat \in Seq(Tokens)
  BY TextTyped
<1>3. flat \o <<>> = flat
  <2> HIDE DEF flat
  <2> QED
    BY <1>2
<1>4. CASE j.pos = 0
  <2>1. Flushed(j) = j
    BY <1>4 DEF Flushed
  <2>2. j.buffer = <<>>
    <3>1. Tokens # {}
      BY DEF Tokens, Punctuation
    <3>2. PICK t \in Tokens : TRUE
      BY <3>1
    <3> QED
      BY <1>1, <1>4, <3>2, WidthOfAppended
  <2>3. TextOf(j) = flat
    BY <1>3, <2>2, Zenon DEF TextOf
  <2> QED
    BY <1>4, <2>1, <2>3 DEF SameState
<1>5. CASE j.pos # 0
  <2> DEFINE more == Append(j.chunks, j.buffer)
             f == [j EXCEPT !.chunks = more, !.buffer = <<>>, !.pos = 0]
  <2>1. Flushed(j) = f
    BY <1>5 DEF Flushed
  <2>2. j.buffer # <<>>
    BY <1>1, <1>5, WidthOfNothing
  <2>3. more \in Seq(Seq(Tokens)) /\ AreChunks(more)
    <3> DEFINE T == Seq(Tokens)
    <3> HIDE DEF T
    <3>1. j.chunks \in Seq(T) /\ j.buffer \in T
      BY <1>1 DEF T
    <3>2. /\ more \in Seq(T) /\ Len(more) = Len(j.chunks) + 1
          /\ more[Len(j.chunks) + 1] = j.buffer
          /\ \A i \in 1 .. Len(j.chunks) : more[i] = j.chunks[i]
      BY <3>1, AppendProperties
    <3> HIDE DEF more
    <3>3. DOMAIN more = 1 .. Len(j.chunks) + 1 /\ DOMAIN j.chunks = 1 .. Len(j.chunks)
          /\ Len(j.chunks) \in Nat
      BY <3>1, <3>2
    <3>4. ASSUME NEW i \in DOMAIN more
          PROVE  more[i] # <<>> /\ TextWidth(more[i]) <= Size - 1
      <4>1. i = Len(j.chunks) + 1 \/ i \in 1 .. Len(j.chunks)
        BY <3>3
      <4> QED
        BY <1>1, <2>2, <3>2, <3>3, <4>1 DEF AreChunks
    <3> QED
      BY <3>2, <3>4 DEF T, AreChunks
  <2>4. FlattenSeq(more) = TextOf(j)
    BY <1>1, FlattenAppended DEF TextOf
  <2>5. <<>> \in Seq(Tokens) /\ 0 \in Nat
    OBVIOUS
  <2> HIDE DEF more
  <2>6. /\ f \in Streams /\ f.chunks = more /\ f.buffer = <<>> /\ f.pos = 0
        /\ f.lost = j.lost /\ SameState(j, f)
    BY <1>1, <2>3, <2>5 DEF Streams, SameState
  <2> HIDE DEF f
  <2>7. IsStream(f)
    BY <2>3, <2>6, WidthOfNothing, BufferAssumption DEF IsStream
  <2>8. TextOf(j) \o <<>> = TextOf(j)
    <3> DEFINE x == TextOf(j)
    <3>1. x \in Seq(Tokens)
      BY TextTyped
    <3> HIDE DEF x
    <3>2. x \o <<>> = x
      BY <3>1
    <3> QED
      BY <3>2 DEF x
  <2>9. TextOf(f) = TextOf(j)
    BY <2>4, <2>6, <2>8, Zenon DEF TextOf
  <2> QED
    BY <2>1, <2>4, <2>6, <2>7, <2>9, Zenon
<1> QED
  BY <1>4, <1>5

\* What a write does: the text has become longer unless a token was lost.
Wrote(j, k, text) ==
  /\ IsStream(k) /\ SameState(j, k)
  /\ ~k.lost => ~j.lost /\ TextOf(k) = TextOf(j) \o text

LEMMA WrittenStream ==
  ASSUME NEW j, IsStream(j), NEW t \in Tokens
  PROVE  /\ Wrote(j, Written(j, t), <<t>>)
         /\ Width(t) <= Size - 1 => Written(j, t).lost = j.lost
<1> DEFINE room == IF Fits(j, t) THEN j ELSE Flushed(j)
<1>1. /\ IsStream(room) /\ SameState(j, room) /\ room.lost = j.lost /\ TextOf(room) = TextOf(j)
      /\ Fits(room, t) \/ room.pos = 0
  <2>1. SameState(j, j)
    BY DEF SameState
  <2> QED
    BY <2>1, FlushedStream
<1>2. Written(j, t) = IF Fits(room, t) THEN Put(room, t) ELSE [room EXCEPT !.lost = TRUE]
  BY DEF Written
<1> HIDE DEF room
<1>3. /\ room \in Streams /\ room.pos = TextWidth(room.buffer) /\ AreChunks(room.chunks)
      /\ room.buffer \in Seq(Tokens) /\ room.chunks \in Seq(Seq(Tokens))
      /\ room.pos \in Nat /\ room.pos <= Size - 1
  BY <1>1 DEF IsStream, Streams
<1>4. Width(t) \in Nat \ {0}
  BY WidthAssumption
<1>5. CASE Fits(room, t)
  <2> DEFINE more == Append(room.buffer, t)
             k == [room EXCEPT !.buffer = more, !.pos = room.pos + Width(t)]
  <2>1. Written(j, t) = k
    BY <1>2, <1>5 DEF Put
  <2>2. more \in Seq(Tokens) /\ more = room.buffer \o <<t>> /\ <<t>> \in Seq(Tokens)
    <3>1. more = room.buffer \o <<t>> /\ more \in Seq(Tokens)
      BY <1>3, AppendedIsConcatenated
    <3>2. <<t>> \in Seq(Tokens)
      OBVIOUS
    <3> QED
      BY <3>1, <3>2
  <2>3. TextWidth(more) = room.pos + Width(t) /\ room.pos + Width(t) <= Size - 1
    BY <1>3, <1>4, <1>5, WidthOfAppended, BufferAssumption DEF Fits
  <2> HIDE DEF more
  <2>4. room.pos + Width(t) \in Nat
    BY <1>3, <1>4
  <2>5. /\ k \in Streams /\ k.buffer = more /\ k.pos = room.pos + Width(t)
        /\ k.chunks = room.chunks /\ k.lost = room.lost /\ SameState(room, k)
    BY <1>3, <2>2, <2>4 DEF Streams, SameState
  <2> HIDE DEF k
  <2>6. IsStream(k)
    BY <1>3, <2>3, <2>5 DEF IsStream
  <2> DEFINE flat == FlattenSeq(room.chunks)
  <2>7. TextOf(k) = flat \o (room.buffer \o <<t>>) /\ TextOf(room) = flat \o room.buffer
    BY <2>2, <2>5, Zenon DEF TextOf
  <2>8. flat \in Seq(Tokens)
    BY <1>1, TextTyped
  <2>9. IsAssociative(flat, room.buffer, <<t>>)
    BY <1>3, <2>2, <2>8, ConcatIsAssociative, Zenon
  <2>10. TextOf(k) = TextOf(j) \o <<t>>
    BY <1>1, <2>7, <2>9, Zenon DEF IsAssociative
  <2> QED
    BY <1>1, <2>1, <2>5, <2>6, <2>10, Zenon DEF Wrote, SameState
<1>6. CASE ~Fits(room, t)
  <2> DEFINE k == [room EXCEPT !.lost = TRUE]
  <2>1. Written(j, t) = k
    BY <1>2, <1>6
  <2>2. /\ k \in Streams /\ k.buffer = room.buffer /\ k.pos = room.pos
        /\ k.chunks = room.chunks /\ k.lost = TRUE /\ SameState(room, k)
    BY <1>3 DEF Streams, SameState
  <2> HIDE DEF k
  <2>3. IsStream(k)
    BY <1>3, <2>2 DEF IsStream
  <2>4. ~(Width(t) <= Size - 1)
    BY <1>1, <1>4, <1>6 DEF Fits
  <2> QED
    BY <1>1, <2>1, <2>2, <2>3, <2>4 DEF Wrote, SameState
<1> QED
  BY <1>5, <1>6

-----------------------------------------------------------------------------
(* The grammar.                                                            *)

Brackets == {"{", "["}

\* What comes after a value, or a member, that ends at v in a bracket.
AfterIn(t, end, of, v) ==
  IF v = 0 THEN 0
  ELSE IF Token(t, v) = "," THEN end[of][v + 1]
  ELSE IF Token(t, v) = Closing(of) THEN v + 1 ELSE 0

FirstEnd(t, end, of, i) ==
  IF of = "[" THEN EndFrom(t, end, i)
  ELSE IF IsKey(t, i) THEN EndFrom(t, end, i + 2) ELSE 0

ItemsEnd(t, end, of, i) == AfterIn(t, end, of, FirstEnd(t, end, of, i))

\* An end is further on than what it ends.
IsEnd(v, i) == v \in Nat /\ (v = 0 \/ v > i)
EndsAbove(end, i) == \A of \in Brackets : \A k \in Nat : k > i => IsEnd(end[of][k], k)
SameAbove(e, f, i) == \A of \in Brackets : \A k \in Nat : k > i => e[of][k] = f[of][k]

LEMMA EndFromAbove ==
  ASSUME NEW t, NEW i \in Nat, NEW e, NEW f, EndsAbove(e, i), SameAbove(e, f, i)
  PROVE  /\ IsEnd(EndFrom(t, e, i), i) /\ EndFrom(t, f, i) = EndFrom(t, e, i)
         /\ IsEnd(EndFrom(t, e, i + 2), i) /\ EndFrom(t, f, i + 2) = EndFrom(t, e, i + 2)
<1>1. ASSUME NEW k \in Nat, k >= i
      PROVE  IsEnd(EndFrom(t, e, k), k) /\ EndFrom(t, f, k) = EndFrom(t, e, k)
  <2>1. CASE Token(t, k) \in Brackets
    <3>1. t[k] \in Brackets
      BY <2>1 DEF Token, Brackets
    <3>2. k + 1 \in Nat /\ k + 1 > i
      BY <1>1
    <3>3. IsEnd(e[t[k]][k + 1], k + 1) /\ e[t[k]][k + 1] = f[t[k]][k + 1]
      BY <3>1, <3>2, Zenon DEF EndsAbove, SameAbove
    <3>4. /\ EndFrom(t, e, k) = IF Token(t, k + 1) = Closing(t[k]) THEN k + 2 ELSE e[t[k]][k + 1]
          /\ EndFrom(t, f, k) = IF Token(t, k + 1) = Closing(t[k]) THEN k + 2 ELSE f[t[k]][k + 1]
      BY <2>1 DEF EndFrom, Brackets
    <3> QED
      BY <3>3, <3>4 DEF IsEnd
  <2>2. CASE Token(t, k) \notin Brackets
    <3>1. /\ EndFrom(t, e, k) = IF Token(t, k) \in Punctuation THEN 0 ELSE k + 1
          /\ EndFrom(t, f, k) = IF Token(t, k) \in Punctuation THEN 0 ELSE k + 1
      BY <2>2 DEF EndFrom, Brackets
    <3> QED
      BY <3>1 DEF IsEnd
  <2> QED
    BY <2>1, <2>2
<1>2. i + 2 \in Nat /\ i + 2 >= i /\ i >= i
  OBVIOUS
<1>3. IsEnd(EndFrom(t, e, i + 2), i + 2)
  BY <1>1, <1>2
<1>4. IsEnd(EndFrom(t, e, i + 2), i)
  <2> DEFINE v == EndFrom(t, e, i + 2)
  <2> HIDE DEF v
  <2>1. IsEnd(v, i + 2)
    BY <1>3 DEF v
  <2>2. IsEnd(v, i)
    BY <2>1 DEF IsEnd
  <2> QED
    BY <2>2 DEF v
<1> QED
  BY <1>1, <1>2, <1>4

LEMMA ItemsEndAbove ==
  ASSUME NEW t, NEW i \in Nat, NEW e, NEW f, EndsAbove(e, i), SameAbove(e, f, i),
         NEW of \in Brackets
  PROVE  IsEnd(ItemsEnd(t, e, of, i), i) /\ ItemsEnd(t, f, of, i) = ItemsEnd(t, e, of, i)
<1> DEFINE v == FirstEnd(t, e, of, i)
<1>1. FirstEnd(t, f, of, i) = v
  BY EndFromAbove, Zenon DEF FirstEnd
<1>2. IsEnd(v, i)
  <2>1. IsEnd(0, i)
    BY DEF IsEnd
  <2> QED
    BY <2>1, EndFromAbove, Zenon DEF FirstEnd
<1> HIDE DEF v
<1>3. IsEnd(AfterIn(t, e, of, v), i) /\ AfterIn(t, f, of, v) = AfterIn(t, e, of, v)
  <2>1. CASE v = 0
    BY <2>1 DEF AfterIn, IsEnd
  <2>2. CASE v # 0
    <3>1. v + 1 \in Nat /\ v + 1 > i /\ v \in Nat
      BY <1>2, <2>2 DEF IsEnd
    <3>2. IsEnd(e[of][v + 1], v + 1) /\ e[of][v + 1] = f[of][v + 1]
      BY <3>1 DEF EndsAbove, SameAbove
    <3>3. IsEnd(e[of][v + 1], i) /\ IsEnd(v + 1, i) /\ IsEnd(0, i)
      BY <3>1, <3>2 DEF IsEnd
    <3> QED
      BY <2>2, <3>2, <3>3, Zenon DEF AfterIn
  <2> QED
    BY <2>1, <2>2
<1> QED
  BY <1>1, <1>3 DEF ItemsEnd, v

LEMMA NothingEnds ==
  ASSUME NEW t, NEW i, Token(t, i) = "end", NEW e, NEW of \in Brackets
  PROVE  ItemsEnd(t, e, of, i) = 0
<1>1. EndFrom(t, e, i) = 0 /\ ~IsKey(t, i)
  BY DEF EndFrom, IsKey, Punctuation
<1>2. FirstEnd(t, e, of, i) = 0
  BY <1>1 DEF FirstEnd, Brackets
<1> QED
  BY <1>2 DEF ItemsEnd, AfterIn

\* The grammar's ends are there: each depends on what is further on.
LEMMA EndsExist ==
  ASSUME NEW S, NEW t \in Seq(S)
  PROVE  \E e : e = [of \in {"{", "["} |-> [i \in Nat |-> ItemsEnd(t, e, of, i)]]
<1> DEFINE N == Len(t) + 1
           Solved(h, m) == /\ h \in [Brackets -> [Nat -> Nat]]
                           /\ \A of \in Brackets : \A i \in Nat :
                                i >= m => h[of][i] = ItemsEnd(t, h, of, i) /\ IsEnd(h[of][i], i)
           D == {m \in 0 .. N : \E h : Solved(h, m)}
<1>1. N \in Nat /\ \A i \in Nat : i >= N => Token(t, i) = "end"
  BY DEF Token
<1> HIDE DEF N
<1>2. N \in D
  <2> DEFINE h == [of \in Brackets |-> [i \in Nat |-> 0]]
  <2>1. h \in [Brackets -> [Nat -> Nat]] /\ \A of \in Brackets : \A i \in Nat : h[of][i] = 0
    OBVIOUS
  <2> HIDE DEF h
  <2>2. ASSUME NEW of \in Brackets, NEW i \in Nat, i >= N
        PROVE  h[of][i] = ItemsEnd(t, h, of, i) /\ IsEnd(h[of][i], i)
    BY <1>1, <2>1, <2>2, NothingEnds DEF IsEnd
  <2>3. Solved(h, N)
    BY <2>1, <2>2
  <2>4. N \in 0 .. N
    BY <1>1
  <2> HIDE DEF Solved
  <2> QED
    BY <2>3, <2>4
<1>3. ASSUME NEW m \in 0 .. N - 1, m + 1 .. N \subseteq D PROVE m \in D
  <2>1. m + 1 \in m + 1 .. N /\ m \in Nat /\ m \in 0 .. N
    BY <1>1
  <2>2. PICK h : Solved(h, m + 1)
    BY <1>3, <2>1
  <2>3. h \in [Brackets -> [Nat -> Nat]]
    BY <2>2
  <2>4. ASSUME NEW of \in Brackets, NEW i \in Nat, i > m
        PROVE  h[of][i] = ItemsEnd(t, h, of, i) /\ IsEnd(h[of][i], i)
    <3>1. i >= m + 1
      BY <2>1, <2>4
    <3> QED
      BY <2>2, <3>1
  <2>5. EndsAbove(h, m)
    BY <2>4 DEF EndsAbove
  <2> DEFINE x == [of \in Brackets |-> ItemsEnd(t, h, of, m)]
             g == [of \in Brackets |-> [i \in Nat |-> IF i = m THEN x[of] ELSE h[of][i]]]
  <2>6. SameAbove(h, h, m)
    BY DEF SameAbove
  <2>7. \A of \in Brackets : x[of] = ItemsEnd(t, h, of, m) /\ IsEnd(x[of], m) /\ x[of] \in Nat
    BY <2>1, <2>5, <2>6, ItemsEndAbove DEF IsEnd
  <2> HIDE DEF x
  <2>8. /\ g \in [Brackets -> [Nat -> Nat]]
        /\ \A of \in Brackets : \A i \in Nat : g[of][i] = IF i = m THEN x[of] ELSE h[of][i]
    BY <2>3, <2>7
  <2> HIDE DEF g
  <2>9. \A k \in Nat : k >= m => EndsAbove(h, k) /\ SameAbove(h, g, k)
    BY <2>1, <2>5, <2>8 DEF EndsAbove, SameAbove
  <2>10. ASSUME NEW of \in Brackets, NEW i \in Nat, i >= m
         PROVE  g[of][i] = ItemsEnd(t, g, of, i) /\ IsEnd(g[of][i], i)
    <3>1. ItemsEnd(t, g, of, i) = ItemsEnd(t, h, of, i)
      BY <2>9, <2>10, ItemsEndAbove
    <3>2. CASE i = m
      BY <2>7, <2>8, <3>1, <3>2
    <3>3. CASE i # m
      <4>1. i > m
        BY <2>1, <2>10, <3>3
      <4> QED
        BY <2>4, <2>8, <3>1, <3>3, <4>1
    <3> QED
      BY <3>2, <3>3
  <2>11. Solved(g, m)
    BY <2>8, <2>10
  <2> HIDE DEF Solved
  <2> QED
    BY <2>1, <2>11
<1>4. \A m \in 0 .. N : m \in D
  <2> HIDE DEF D
  <2> QED
    BY <1>1, <1>2, <1>3, InductionDown DEF IsInductiveDown
<1>5. PICK e : Solved(e, 0)
  <2>1. 0 \in 0 .. N
    BY <1>1
  <2> QED
    BY <1>4, <2>1
<1>6. \A of \in Brackets : \A i \in Nat : e[of][i] = ItemsEnd(t, e, of, i)
  BY <1>5
<1>7. e \in [Brackets -> [Nat -> Nat]]
  BY <1>5
<1>8. \A of \in Brackets : e[of] = [i \in Nat |-> ItemsEnd(t, e, of, i)]
  BY <1>6, <1>7
<1>9. e = [of \in Brackets |-> [i \in Nat |-> ItemsEnd(t, e, of, i)]]
  BY <1>7, <1>8
<1> QED
  BY <1>9 DEF Brackets

LEMMA EndSteps ==
  ASSUME NEW S, NEW t \in Seq(S)
  PROVE  \A of \in Brackets : \A i \in Nat :
           Ends(t)[of][i] = ItemsEnd(t, Ends(t), of, i) /\ IsEnd(Ends(t)[of][i], i)
<1> DEFINE Body(e, of, i) ==
             LET v == IF of = "[" THEN EndFrom(t, e, i)
                      ELSE IF IsKey(t, i) THEN EndFrom(t, e, i + 2) ELSE 0
             IN  IF v = 0 THEN 0
                 ELSE IF Token(t, v) = "," THEN e[of][v + 1]
                 ELSE IF Token(t, v) = Closing(of) THEN v + 1 ELSE 0
           IsEnds(e) == e = [of \in {"{", "["} |-> [i \in Nat |-> Body(e, of, i)]]
           end == CHOOSE e : IsEnds(e)
           N == Len(t) + 1
<1>1. Ends(t) = end
  BY DEF Ends
<1>2. \A e, of, i : Body(e, of, i) = ItemsEnd(t, e, of, i)
  BY DEF ItemsEnd, AfterIn, FirstEnd
<1>3. IsEnds(end)
  <2>1. \E e : IsEnds(e)
    <3>1. PICK e : e = [of \in {"{", "["} |-> [i \in Nat |-> ItemsEnd(t, e, of, i)]]
      BY EndsExist
    <3> HIDE DEF Body
    <3>2. \A of : [i \in Nat |-> ItemsEnd(t, e, of, i)] = [i \in Nat |-> Body(e, of, i)]
      BY <1>2
    <3>3. IsEnds(e)
      BY <3>1, <3>2
    <3> QED
      BY <3>3, Zenon
  <2> HIDE DEF IsEnds
  <2> QED
    BY <2>1
<1> HIDE DEF end
<1>4. \A of \in Brackets : \A i \in Nat : end[of][i] = Body(end, of, i)
  <2> HIDE DEF Body
  <2>1. ASSUME NEW of \in Brackets, NEW i \in Nat PROVE end[of][i] = Body(end, of, i)
    <3>1. end[of] = [k \in Nat |-> Body(end, of, k)]
      BY <1>3, Zenon DEF Brackets
    <3> QED
      BY <3>1
  <2> QED
    BY <2>1
<1> HIDE DEF Body, IsEnds
<1>5. \A of \in Brackets : \A i \in Nat : end[of][i] = ItemsEnd(t, end, of, i)
  BY <1>2, <1>4
<1>6. N \in Nat /\ \A i \in Nat : i >= N => Token(t, i) = "end"
  BY DEF Token
<1> HIDE DEF N
<1> DEFINE D == {m \in 0 .. N : \A of \in Brackets : \A i \in Nat : i >= m => IsEnd(end[of][i], i)}
<1>7. N \in D
  <2>1. ASSUME NEW of \in Brackets, NEW i \in Nat, i >= N PROVE IsEnd(end[of][i], i)
    BY <1>5, <1>6, <2>1, NothingEnds DEF IsEnd
  <2> QED
    BY <1>6, <2>1
<1>8. ASSUME NEW m \in 0 .. N - 1, m + 1 .. N \subseteq D PROVE m \in D
  <2>1. m + 1 \in m + 1 .. N /\ m \in Nat /\ m \in 0 .. N
    BY <1>6
  <2>2. \A of \in Brackets : \A i \in Nat : i >= m + 1 => IsEnd(end[of][i], i)
    BY <1>8, <2>1
  <2>3. EndsAbove(end, m) /\ SameAbove(end, end, m)
    BY <2>1, <2>2 DEF EndsAbove, SameAbove
  <2>4. \A of \in Brackets : IsEnd(end[of][m], m)
    BY <1>5, <2>1, <2>3, ItemsEndAbove
  <2>5. ASSUME NEW of \in Brackets, NEW i \in Nat, i >= m PROVE IsEnd(end[of][i], i)
    <3>1. i = m \/ i >= m + 1
      BY <2>1, <2>5
    <3> QED
      BY <2>2, <2>4, <3>1
  <2> QED
    BY <2>1, <2>5
<1>9. \A m \in 0 .. N : m \in D
  <2> HIDE DEF D
  <2> QED
    BY <1>6, <1>7, <1>8, InductionDown DEF IsInductiveDown
<1>10. \A of \in Brackets : \A i \in Nat : IsEnd(end[of][i], i)
  <2>1. 0 \in D
    BY <1>6, <1>9
  <2> QED
    BY <2>1
<1> QED
  BY <1>1, <1>5, <1>10

\* The end of a bracket whose items start at p.
Opened(t, of, p) == IF Token(t, p) = Closing(of) THEN p + 1 ELSE Ends(t)[of][p]

LEMMA ValueEndSteps ==
  ASSUME NEW t \in Seq(Tokens), NEW p \in Nat
  PROVE  /\ Token(t, p) \in Brackets => ValueEnd(t, p) = Opened(t, Token(t, p), p + 1)
         /\ Token(t, p) \notin Punctuation => ValueEnd(t, p) = p + 1
         /\ Ends(t)["["][p] = AfterIn(t, Ends(t), "[", ValueEnd(t, p))
         /\ IsKey(t, p) => Ends(t)["{"][p] = AfterIn(t, Ends(t), "{", ValueEnd(t, p + 2))
<1>1. "[" \in Brackets /\ "{" \in Brackets
  BY DEF Brackets
<1>2. \A of \in Brackets : Ends(t)[of][p] = ItemsEnd(t, Ends(t), of, p)
  BY EndSteps
<1>3. Ends(t)["["][p] = AfterIn(t, Ends(t), "[", ValueEnd(t, p))
  BY <1>1, <1>2 DEF ItemsEnd, FirstEnd, ValueEnd
<1>4. IsKey(t, p) => Ends(t)["{"][p] = AfterIn(t, Ends(t), "{", ValueEnd(t, p + 2))
  BY <1>1, <1>2 DEF ItemsEnd, FirstEnd, ValueEnd
<1>5. ASSUME Token(t, p) \in Brackets
      PROVE  ValueEnd(t, p) = Opened(t, Token(t, p), p + 1)
  <2>1. Token(t, p) = t[p]
    BY <1>5 DEF Token, Brackets
  <2>2. p + 2 = (p + 1) + 1
    OBVIOUS
  <2> QED
    BY <1>5, <2>1, <2>2, Zenon DEF ValueEnd, EndFrom, Opened, Brackets
<1>6. Token(t, p) \notin Punctuation => ValueEnd(t, p) = p + 1
  BY DEF ValueEnd, EndFrom, Punctuation
<1> QED
  BY <1>3, <1>4, <1>5, <1>6

-----------------------------------------------------------------------------
(* What a stream has written, and where a reader of it stands: whatever    *)
(* follows, the text ends where the brackets that are open end when the    *)
(* innermost of them goes on at v.                                         *)

BracketOf(nest) == IF nest = "object" THEN "{" ELSE "["

Climbs(t, nesting, v) ==
  \E f : /\ f[0] = ValueEnd(t, 1) /\ f[Len(nesting)] = v
         /\ \A k \in 1 .. Len(nesting) :
              f[k - 1] = AfterIn(t, Ends(t), BracketOf(nesting[k]), f[k])

LEMMA ClimbsNothing == \A t, v : Climbs(t, <<>>, v) <=> v = ValueEnd(t, 1)
<1>1. Len(<<>>) = 0 /\ 1 .. 0 = {}
  OBVIOUS
<1>2. ASSUME NEW t PROVE Climbs(t, <<>>, ValueEnd(t, 1))
  <2> DEFINE f == [i \in {0} |-> ValueEnd(t, 1)]
  <2>1. f[0] = ValueEnd(t, 1)
    OBVIOUS
  <2> HIDE DEF f
  <2> QED
    BY <1>1, <2>1 DEF Climbs
<1> QED
  BY <1>1, <1>2 DEF Climbs

LEMMA FrontAndLast ==
  ASSUME NEW S, NEW s \in Seq(S), s # <<>>
  PROVE  /\ Front(s) \in Seq(S) /\ Last(s) \in S /\ Len(Front(s)) = Len(s) - 1
         /\ \A k \in 1 .. Len(s) - 1 : Front(s)[k] = s[k]
<1>1. Len(s) \in 1 .. Len(s) /\ Len(s) - 1 \in 0 .. Len(s)
  OBVIOUS
<1>2. Last(s) \in S
  BY <1>1, ElementOfSeq DEF Last
<1>3. /\ SubSeq(s, 1, Len(s) - 1) \in Seq(S) /\ Len(SubSeq(s, 1, Len(s) - 1)) = Len(s) - 1
      /\ \A k \in 1 .. Len(s) - 1 : SubSeq(s, 1, Len(s) - 1)[k] = s[k]
  <2> DEFINE M == Len(s) - 1
  <2>1. M \in 0 .. Len(s)
    BY <1>1
  <2> HIDE DEF M
  <2>2. SubSeq(s, 1, M) \in Seq(S) /\ Len(SubSeq(s, 1, M)) = M
    BY <2>1
  <2>3. \A k \in 1 .. M : SubSeq(s, 1, M)[k] = s[k]
    BY <2>1
  <2> QED
    BY <2>2, <2>3 DEF M
<1> QED
  BY <1>2, <1>3, Zenon DEF Front

LEMMA AppendedEnds ==
  ASSUME NEW S, NEW s \in Seq(S), NEW x \in S
  PROVE  /\ Append(s, x) \in Seq(S) /\ Append(s, x) # <<>>
         /\ Front(Append(s, x)) = s /\ Last(Append(s, x)) = x
<1> DEFINE u == Append(s, x)
<1>1. /\ u \in Seq(S) /\ Len(u) = Len(s) + 1 /\ u[Len(s) + 1] = x /\ Len(s) \in Nat
      /\ \A k \in 1 .. Len(s) : u[k] = s[k]
  BY AppendProperties
<1> HIDE DEF u
<1>2. u # <<>> /\ Last(u) = x
  BY <1>1 DEF Last
<1>3. Front(u) = s
  <2> DEFINE v == SubSeq(u, 1, Len(u) - 1)
  <2>1. v \in Seq(S) /\ Len(v) = Len(s) /\ \A k \in 1 .. Len(s) : v[k] = u[k]
    BY <1>1
  <2> HIDE DEF v
  <2>2. v = s
    BY <1>1, <2>1, SeqEqual
  <2> QED
    BY <2>2 DEF Front, v
<1> QED
  BY <1>1, <1>2, <1>3 DEF u

\* Out of a bracket, and into one.
LEMMA ClimbsOut ==
  ASSUME NEW t, NEW v, NEW nesting \in Seq(Nests), nesting # <<>>
  PROVE  Climbs(t, nesting, v)
           <=> Climbs(t, Front(nesting), AfterIn(t, Ends(t), BracketOf(Last(nesting)), v))
<1> DEFINE N == Len(nesting)
           front == Front(nesting)
           w == AfterIn(t, Ends(t), BracketOf(Last(nesting)), v)
           value == ValueEnd(t, 1)
           up(k, x) == AfterIn(t, Ends(t), BracketOf(nesting[k]), x)
<1>1. PICK M \in Nat : N = M + 1 /\ Len(front) = M /\ \A k \in 1 .. M : front[k] = nesting[k]
  <2>1. N \in Nat \ {0}
    OBVIOUS
  <2>2. Len(front) = N - 1 /\ \A k \in 1 .. N - 1 : front[k] = nesting[k]
    BY FrontAndLast, Zenon
  <2> HIDE DEF N, front
  <2>3. N - 1 \in Nat /\ N = (N - 1) + 1
    BY <2>1
  <2> QED
    BY <2>2, <2>3
<1>2. w = up(N, v)
  BY DEF Last
<1>3. /\ Climbs(t, nesting, v) <=>
           \E f : f[0] = value /\ f[N] = v /\ \A k \in 1 .. N : f[k - 1] = up(k, f[k])
  BY DEF Climbs
<1>4. Climbs(t, front, w) <=>
           \E f : f[0] = value /\ f[M] = w /\ \A k \in 1 .. M : f[k - 1] = up(k, f[k])
  BY <1>1 DEF Climbs
<1> HIDE DEF N, front, w, value, up
<1>5. ASSUME Climbs(t, nesting, v) PROVE Climbs(t, front, w)
  <2>1. PICK f : f[0] = value /\ f[N] = v /\ \A k \in 1 .. N : f[k - 1] = up(k, f[k])
    BY <1>3, <1>5
  <2>2. N \in 1 .. N /\ N - 1 = M /\ \A k \in 1 .. M : k \in 1 .. N
    BY <1>1
  <2>3. f[N - 1] = up(N, f[N])
    BY <2>1, <2>2
  <2>4. f[M] = w
    BY <1>2, <2>1, <2>2, <2>3
  <2> QED
    BY <1>4, <2>1, <2>2, <2>4
<1>6. ASSUME Climbs(t, front, w) PROVE Climbs(t, nesting, v)
  <2>1. PICK f : f[0] = value /\ f[M] = w /\ \A k \in 1 .. M : f[k - 1] = up(k, f[k])
    BY <1>4, <1>6
  <2> DEFINE g == [k \in 0 .. N |-> IF k = N THEN v ELSE f[k]]
  <2>2. g[N] = v /\ \A k \in 0 .. M : g[k] = f[k]
    BY <1>1
  <2> HIDE DEF g
  <2>3. ASSUME NEW k \in 1 .. N PROVE g[k - 1] = up(k, g[k])
    <3>1. CASE k = N
      <4>1. k - 1 = M /\ M \in 0 .. M
        BY <1>1, <3>1
      <4>2. g[k - 1] = f[M]
        BY <2>2, <4>1
      <4> QED
        BY <1>2, <2>1, <2>2, <3>1, <4>2
    <3>2. CASE k # N
      <4>1. k \in 1 .. M /\ k \in 0 .. M /\ k - 1 \in 0 .. M
        BY <1>1, <3>2
      <4> QED
        BY <2>1, <2>2, <4>1
    <3> QED
      BY <3>1, <3>2
  <2>4. g[0] = value
    BY <1>1, <2>1, <2>2
  <2> QED
    BY <1>3, <2>2, <2>3, <2>4
<1> QED
  BY <1>5, <1>6 DEF front, w

\* A text that goes on after what is written; the place it goes on at.
Continues(t, j) == t \in Seq(Tokens) /\ Begins(TextOf(j), t)
Here(j) == Len(TextOf(j)) + 1

LEMMA HereTyped ==
  ASSUME NEW j, IsStream(j)
  PROVE  Here(j) \in Nat /\ Here(j) # 0
BY TextTyped DEF Here

LEMMA ContinuesWritten ==
  ASSUME NEW j, NEW k, NEW x \in Tokens, IsStream(j), Wrote(j, k, <<x>>), ~k.lost
  PROVE  /\ Here(k) = Here(j) + 1
         /\ \A t : Continues(t, k) =>
              Continues(t, j) /\ Token(t, Here(j)) = x /\ Here(j) \in DOMAIN t
<1> DEFINE text == TextOf(j)
           more == TextOf(k)
<1>1. text \in Seq(Tokens)
  BY TextTyped
<1>2. more = text \o <<x>>
  BY DEF Wrote
<1> HIDE DEF text, more
<1>3. /\ Len(more) = Len(text) + 1 /\ more[Len(text) + 1] = x /\ Len(text) \in Nat
      /\ \A i \in 1 .. Len(text) : more[i] = text[i]
  BY <1>1, <1>2
<1>4. ASSUME NEW t \in Seq(Tokens), Begins(more, t)
      PROVE  Begins(text, t) /\ Token(t, Len(text) + 1) = x /\ Len(text) + 1 \in DOMAIN t
  <2>1. Len(text) + 1 <= Len(t) /\ \A i \in 1 .. Len(text) + 1 : t[i] = more[i]
    BY <1>3, <1>4 DEF Begins
  <2>2. Len(text) + 1 \in 1 .. Len(text) + 1 /\ Len(text) + 1 \in 1 .. Len(t)
    BY <1>3, <2>1
  <2>3. Len(text) + 1 \in DOMAIN t /\ t[Len(text) + 1] = x
    BY <1>3, <2>1, <2>2
  <2>4. Begins(text, t)
    BY <1>3, <2>1 DEF Begins
  <2> QED
    BY <2>3, <2>4 DEF Token
<1> QED
  BY <1>3, <1>4 DEF Continues, Here, text, more

\* The nesting of a state.
Nested(j) ==
  /\ j.state \in {"start", "end"} => j.nesting = <<>>
  /\ j.state \in {"array", "array_item"} => j.nesting # <<>> /\ Last(j.nesting) = "array"
  /\ j.state \in {"object", "object_key", "object_value"} =>
       j.nesting # <<>> /\ Last(j.nesting) = "object"

\* Where the reader of a text that goes on stands.
Place(j, t) ==
  LET p == Here(j)
  IN  /\ j.state \in {"start", "object_key"} => Climbs(t, j.nesting, ValueEnd(t, p))
      /\ j.state = "array" => Climbs(t, Front(j.nesting), Opened(t, "[", p))
      /\ j.state = "object" => Climbs(t, Front(j.nesting), Opened(t, "{", p))
      /\ j.state \in {"array_item", "object_value", "end"} => Climbs(t, j.nesting, p)

Reads(j) ==
  /\ IsStream(j) /\ Nested(j)
  /\ ~j.lost => \A t : Continues(t, j) => Place(j, t)

LEMMA BackAndForth == \A p \in Nat : p - 1 + 1 = p /\ p + 1 \in Nat /\ p + 1 # 0 /\ p + 1 - 1 = p
OBVIOUS

\* The next value, or the next key, comes after a comma if it is not the first.
LEMMA NextInArray ==
  ASSUME NEW t \in Seq(Tokens), NEW p \in Nat, NEW nesting \in Seq(Nests),
         nesting # <<>>, Last(nesting) = "array",
         \/ Climbs(t, Front(nesting), Opened(t, "[", p)) /\ Token(t, p) # "]"
         \/ p # 0 /\ Climbs(t, nesting, p - 1) /\ p - 1 # 0 /\ Token(t, p - 1) = ","
  PROVE  Climbs(t, nesting, ValueEnd(t, p))
<1>1. BracketOf(Last(nesting)) = "[" /\ Closing("[") = "]"
  BY DEF BracketOf, Closing
<1>2. Climbs(t, Front(nesting), Ends(t)["["][p])
  <2>1. CASE Climbs(t, Front(nesting), Opened(t, "[", p)) /\ Token(t, p) # "]"
    <3>1. Opened(t, "[", p) = Ends(t)["["][p]
      BY <1>1, <2>1 DEF Opened
    <3> QED
      BY <2>1, <3>1
  <2>2. CASE p # 0 /\ Climbs(t, nesting, p - 1) /\ p - 1 # 0 /\ Token(t, p - 1) = ","
    <3>1. Climbs(t, Front(nesting), AfterIn(t, Ends(t), "[", p - 1))
      BY <1>1, <2>2, ClimbsOut
    <3>2. p - 1 + 1 = p
      BY BackAndForth
    <3>3. AfterIn(t, Ends(t), "[", p - 1) = Ends(t)["["][p]
      BY <2>2, <3>2, Zenon DEF AfterIn
    <3> QED
      BY <3>1, <3>3
  <2> QED
    BY <2>1, <2>2
<1>3. Ends(t)["["][p] = AfterIn(t, Ends(t), "[", ValueEnd(t, p))
  BY ValueEndSteps
<1>4. Climbs(t, Front(nesting), AfterIn(t, Ends(t), BracketOf(Last(nesting)), ValueEnd(t, p)))
  BY <1>1, <1>2, <1>3
<1> QED
  BY <1>4, ClimbsOut

LEMMA NextInObject ==
  ASSUME NEW t \in Seq(Tokens), NEW p \in Nat, NEW nesting \in Seq(Nests),
         nesting # <<>>, Last(nesting) = "object", IsKey(t, p),
         \/ Climbs(t, Front(nesting), Opened(t, "{", p))
         \/ p # 0 /\ Climbs(t, nesting, p - 1) /\ p - 1 # 0 /\ Token(t, p - 1) = ","
  PROVE  Climbs(t, nesting, ValueEnd(t, p + 2))
<1>1. BracketOf(Last(nesting)) = "{" /\ Closing("{") = "}"
  BY DEF BracketOf, Closing
<1>2. Climbs(t, Front(nesting), Ends(t)["{"][p])
  <2>1. CASE Climbs(t, Front(nesting), Opened(t, "{", p))
    <3>1. Opened(t, "{", p) = Ends(t)["{"][p]
      BY <1>1 DEF Opened, IsKey, Punctuation
    <3> QED
      BY <2>1, <3>1
  <2>2. CASE p # 0 /\ Climbs(t, nesting, p - 1) /\ p - 1 # 0 /\ Token(t, p - 1) = ","
    <3>1. Climbs(t, Front(nesting), AfterIn(t, Ends(t), "{", p - 1))
      BY <1>1, <2>2, ClimbsOut
    <3>2. p - 1 + 1 = p
      BY BackAndForth
    <3>3. AfterIn(t, Ends(t), "{", p - 1) = Ends(t)["{"][p]
      BY <2>2, <3>2, Zenon DEF AfterIn
    <3> QED
      BY <3>1, <3>3
  <2> QED
    BY <2>1, <2>2
<1>3. Ends(t)["{"][p] = AfterIn(t, Ends(t), "{", ValueEnd(t, p + 2))
  BY ValueEndSteps
<1>4. Climbs(t, Front(nesting), AfterIn(t, Ends(t), BracketOf(Last(nesting)), ValueEnd(t, p + 2)))
  BY <1>1, <1>2, <1>3
<1> QED
  BY <1>4, ClimbsOut

\* The comma is written where one is needed.
LEMMA SeparatedStream ==
  ASSUME NEW j, IsStream(j)
  PROVE  LET k == Separated(j)
         IN  /\ IsStream(k) /\ SameState(j, k) /\ (~k.lost => ~j.lost)
             /\ Width(",") <= Size - 1 => k.lost = j.lost
             /\ \/ k = j /\ j.state \notin {"array_item", "object_value"}
                \/ Wrote(j, k, <<",">>) /\ j.state \in {"array_item", "object_value"}
<1>1. "," \in Tokens
  BY DEF Tokens, Punctuation
<1>2. CASE j.state \in {"array_item", "object_value"}
  <2>1. Separated(j) = Written(j, ",")
    BY <1>2 DEF Separated
  <2> QED
    BY <1>1, <1>2, <2>1, WrittenStream DEF Wrote
<1>3. CASE j.state \notin {"array_item", "object_value"}
  <2>1. Separated(j) = j
    BY <1>3 DEF Separated
  <2> QED
    BY <1>3, <2>1 DEF SameState
<1> QED
  BY <1>2, <1>3

LEMMA BeforeValue ==
  ASSUME NEW j, Reads(j), j.state \in {"start", "object_key", "array", "array_item"},
         ~Separated(j).lost, NEW t, Continues(t, Separated(j)),
         Token(t, Here(Separated(j))) # "]"
  PROVE  Climbs(t, j.nesting, ValueEnd(t, Here(Separated(j))))
<1> DEFINE k == Separated(j)
           p == Here(k)
<1>1. IsStream(j) /\ j.nesting \in Seq(Nests) /\ ~j.lost
  BY SeparatedStream DEF Reads, IsStream, Streams
<1>2. t \in Seq(Tokens)
  BY DEF Continues
<1>3. CASE j.state = "array_item"
  <2>1. /\ Wrote(j, k, <<",">>) /\ "," \in Tokens
        /\ IsStream(j) /\ ~k.lost /\ Continues(t, k)
    BY <1>1, <1>3, SeparatedStream DEF Tokens, Punctuation
  <2>2. p = Here(j) + 1 /\ Continues(t, j) /\ Token(t, Here(j)) = ","
    <3> HIDE DEF k, p
    <3>1. /\ Here(k) = Here(j) + 1
          /\ \A s : Continues(s, k) =>
               Continues(s, j) /\ Token(s, Here(j)) = "," /\ Here(j) \in DOMAIN s
      BY <2>1, ContinuesWritten
    <3> QED
      BY <2>1, <3>1 DEF p
  <2>3. Here(j) \in Nat /\ Here(j) # 0
    BY <1>1, HereTyped
  <2>4. p \in Nat /\ p # 0 /\ p - 1 = Here(j)
    <3> DEFINE h == Here(j)
    <3>1. p = h + 1 /\ h \in Nat
      BY <2>2, <2>3
    <3> HIDE DEF p, h
    <3>2. p \in Nat /\ p # 0 /\ p - 1 = h
      BY <3>1
    <3> QED
      BY <3>2 DEF h
  <2>5. Climbs(t, j.nesting, Here(j)) /\ j.nesting # <<>> /\ Last(j.nesting) = "array"
    BY <1>1, <1>3, <2>2 DEF Reads, Place, Nested
  <2> HIDE DEF p
  <2>6. Climbs(t, j.nesting, p - 1) /\ p - 1 # 0 /\ Token(t, p - 1) = ","
    BY <2>2, <2>3, <2>4, <2>5
  <2>7. Climbs(t, j.nesting, ValueEnd(t, p))
    BY <1>1, <1>2, <2>4, <2>5, <2>6, NextInArray
  <2> QED
    BY <2>7 DEF p
<1>4. CASE j.state # "array_item"
  <2>1. k = j
    BY <1>1, <1>4, SeparatedStream
  <2>2. Continues(t, j) /\ Token(t, Here(j)) # "]" /\ p = Here(j)
    BY <2>1
  <2>3. Place(j, t) /\ Nested(j)
    BY <1>1, <2>2 DEF Reads
  <2>4. Here(j) \in Nat
    BY <1>1, HereTyped
  <2>5. CASE j.state = "array"
    BY <1>1, <1>2, <2>2, <2>3, <2>4, <2>5, NextInArray DEF Place, Nested
  <2>6. CASE j.state # "array"
    BY <1>4, <2>2, <2>3, <2>6 DEF Place
  <2> QED
    BY <2>5, <2>6
<1> QED
  BY <1>3, <1>4

LEMMA BeforeKey ==
  ASSUME NEW j, Reads(j), j.state \in {"object", "object_value"},
         ~Separated(j).lost, NEW t, Continues(t, Separated(j)), IsKey(t, Here(Separated(j)))
  PROVE  Climbs(t, j.nesting, ValueEnd(t, Here(Separated(j)) + 2))
<1> DEFINE k == Separated(j)
           p == Here(k)
<1>1. IsStream(j) /\ j.nesting \in Seq(Nests) /\ ~j.lost
  BY SeparatedStream DEF Reads, IsStream, Streams
<1>2. t \in Seq(Tokens)
  BY DEF Continues
<1>3. CASE j.state = "object_value"
  <2>1. /\ Wrote(j, k, <<",">>) /\ "," \in Tokens
        /\ IsStream(j) /\ ~k.lost /\ Continues(t, k)
    BY <1>1, <1>3, SeparatedStream DEF Tokens, Punctuation
  <2>2. p = Here(j) + 1 /\ Continues(t, j) /\ Token(t, Here(j)) = ","
    <3> HIDE DEF k, p
    <3>1. /\ Here(k) = Here(j) + 1
          /\ \A s : Continues(s, k) =>
               Continues(s, j) /\ Token(s, Here(j)) = "," /\ Here(j) \in DOMAIN s
      BY <2>1, ContinuesWritten
    <3> QED
      BY <2>1, <3>1 DEF p
  <2>3. Here(j) \in Nat /\ Here(j) # 0
    BY <1>1, HereTyped
  <2>4. p \in Nat /\ p # 0 /\ p - 1 = Here(j)
    <3> DEFINE h == Here(j)
    <3>1. p = h + 1 /\ h \in Nat
      BY <2>2, <2>3
    <3> HIDE DEF p, h
    <3>2. p \in Nat /\ p # 0 /\ p - 1 = h
      BY <3>1
    <3> QED
      BY <3>2 DEF h
  <2>5. Climbs(t, j.nesting, Here(j)) /\ j.nesting # <<>> /\ Last(j.nesting) = "object"
    BY <1>1, <1>3, <2>2 DEF Reads, Place, Nested
  <2>6. IsKey(t, p)
    OBVIOUS
  <2> HIDE DEF p
  <2>7. Climbs(t, j.nesting, p - 1) /\ p - 1 # 0 /\ Token(t, p - 1) = ","
    BY <2>2, <2>3, <2>4, <2>5
  <2>8. Climbs(t, j.nesting, ValueEnd(t, p + 2))
    BY <1>1, <1>2, <2>4, <2>5, <2>6, <2>7, NextInObject
  <2> QED
    BY <2>8 DEF p
<1>4. CASE j.state = "object"
  <2>1. k = j
    BY <1>1, <1>4, SeparatedStream
  <2>2. Continues(t, j) /\ IsKey(t, Here(j)) /\ p = Here(j)
    BY <2>1
  <2>3. Place(j, t) /\ Nested(j)
    BY <1>1, <2>2 DEF Reads
  <2>4. Here(j) \in Nat
    BY <1>1, HereTyped
  <2> QED
    BY <1>1, <1>2, <1>4, <2>2, <2>3, <2>4, NextInObject DEF Place, Nested
<1> QED
  BY <1>3, <1>4

-----------------------------------------------------------------------------
(* Every call keeps what is written readable.                              *)

\* The calls that can be made.
AllCalls == {ObjectStart, ObjectEnd, ArrayStart, ArrayEnd}
            \cup {Value(x) : x \in Tokens \ Punctuation}
            \cup {String(x) : x \in Tokens \ (Punctuation \cup Literals)}

\* The same text in another state.
Moved(j, k, state, nesting) ==
  /\ IsStream(k) /\ k.state = state /\ k.nesting = nesting
  /\ k.lost = j.lost /\ TextOf(k) = TextOf(j)

LEMMA MovedStream ==
  ASSUME NEW j, IsStream(j), NEW state \in StreamStates, NEW nesting \in Seq(Nests)
  PROVE  /\ Moved(j, [j EXCEPT !.state = state], state, j.nesting)
         /\ Moved(j, [j EXCEPT !.state = state, !.nesting = nesting], state, nesting)
<1>1. /\ j \in Streams /\ j.pos = TextWidth(j.buffer) /\ j.pos <= Size - 1 /\ AreChunks(j.chunks)
  BY DEF IsStream
<1>2. ASSUME NEW k, k \in Streams, k.buffer = j.buffer, k.chunks = j.chunks, k.pos = j.pos,
             k.lost = j.lost
      PROVE  Moved(j, k, k.state, k.nesting)
  BY <1>1, <1>2 DEF Moved, IsStream, TextOf
<1> DEFINE f == [j EXCEPT !.state = state]
           g == [j EXCEPT !.state = state, !.nesting = nesting]
<1>3. /\ f \in Streams /\ f.buffer = j.buffer /\ f.chunks = j.chunks /\ f.pos = j.pos
      /\ f.lost = j.lost /\ f.state = state /\ f.nesting = j.nesting
  BY <1>1 DEF Streams
<1>4. /\ g \in Streams /\ g.buffer = j.buffer /\ g.chunks = j.chunks /\ g.pos = j.pos
      /\ g.lost = j.lost /\ g.state = state /\ g.nesting = nesting
  BY <1>1 DEF Streams
<1> HIDE DEF f, g
<1>5. Moved(j, f, state, j.nesting) /\ Moved(j, g, state, nesting)
  BY <1>2, <1>3, <1>4
<1> QED
  BY <1>5 DEF f, g

LEMMA MovedContinues ==
  ASSUME NEW j, NEW k, NEW s, NEW n, Moved(j, k, s, n)
  PROVE  Here(k) = Here(j) /\ \A t : Continues(t, k) <=> Continues(t, j)
BY DEF Moved, Here, Continues

LEMMA OutsideNests ==
  ASSUME NEW nesting \in Seq(Nests)
  PROVE  /\ Outside(nesting) \in {"end", "array_item", "object_value"}
         /\ Outside(nesting) = "end" => nesting = <<>>
         /\ Outside(nesting) = "array_item" => nesting # <<>> /\ Last(nesting) = "array"
         /\ Outside(nesting) = "object_value" => nesting # <<>> /\ Last(nesting) = "object"
<1>1. CASE nesting = <<>>
  BY <1>1 DEF Outside
<1>2. CASE nesting # <<>>
  <2>1. Last(nesting) \in Nests
    BY <1>2, FrontAndLast
  <2> QED
    BY <1>2, <2>1 DEF Outside, Nests
<1> QED
  BY <1>1, <1>2

\* After a value the stream is outside it.
LEMMA AfterOne ==
  ASSUME NEW k, NEW nesting \in Seq(Nests), IsStream(k),
         k.state = Outside(nesting), k.nesting = nesting,
         ~k.lost => \A t : Continues(t, k) => Climbs(t, nesting, Here(k))
  PROVE  Reads(k)
<1>1. Nested(k)
  BY OutsideNests DEF Nested
<1>2. ASSUME NEW t, Climbs(t, nesting, Here(k)) PROVE Place(k, t)
  BY <1>2, OutsideNests DEF Place
<1> QED
  BY <1>1, <1>2 DEF Reads

LEMMA FailedReads ==
  ASSUME NEW j, IsStream(j)
  PROVE  Reads(Failed(j))
<1>1. Moved(j, Failed(j), "error", j.nesting)
  BY MovedStream DEF Failed, StreamStates, IsStream, Streams
<1> QED
  BY <1>1 DEF Reads, Moved, Nested, Place

LEMMA ValueReads ==
  ASSUME NEW j, Reads(j), NEW x \in Tokens \ Punctuation
  PROVE  Reads(AsValue(j, x))
<1> DEFINE k == Separated(j)
           l == Written(k, x)
           m == [l EXCEPT !.state = Outside(j.nesting)]
<1>1. IsStream(j) /\ j.nesting \in Seq(Nests)
  BY DEF Reads, IsStream, Streams
<1>2. IsStream(k) /\ SameState(j, k) /\ (~k.lost => ~j.lost)
  BY <1>1, SeparatedStream
<1> HIDE DEF k
<1>3. Wrote(k, l, <<x>>)
  BY <1>2, WrittenStream
<1>4. Outside(j.nesting) \in StreamStates
  BY <1>1, OutsideNests DEF StreamStates
<1>5. l.nesting = j.nesting /\ IsStream(l)
  BY <1>2, <1>3 DEF Wrote, SameState
<1>6. Moved(l, m, Outside(j.nesting), j.nesting)
  <2> HIDE DEF l
  <2> QED
    BY <1>1, <1>4, <1>5, MovedStream
<1> HIDE DEF l, m
<1>7. CASE j.state \in {"start", "array", "array_item", "object_key"}
  <2>1. AsValue(j, x) = m
    BY <1>7 DEF AsValue, m, l, k
  <2>2. ASSUME ~m.lost, NEW t, Continues(t, m) PROVE Climbs(t, j.nesting, Here(m))
    <3>1. ~l.lost /\ Continues(t, l) /\ Here(m) = Here(l)
      BY <1>6, <2>2, MovedContinues DEF Moved
    <3>2. Here(l) = Here(k) + 1 /\ Continues(t, k) /\ Token(t, Here(k)) = x
      BY <1>2, <1>3, <3>1, ContinuesWritten
    <3>3. ~k.lost
      BY <1>3, <3>1 DEF Wrote
    <3>4. Token(t, Here(k)) # "]"
      BY <3>2 DEF Punctuation
    <3>5. Climbs(t, j.nesting, ValueEnd(t, Here(k)))
      BY <1>7, <3>2, <3>3, <3>4, BeforeValue DEF k
    <3>6. t \in Seq(Tokens) /\ Here(k) \in Nat
      BY <1>2, <3>2, HereTyped DEF Continues
    <3>7. ValueEnd(t, Here(k)) = Here(k) + 1
      BY <3>2, <3>6, ValueEndSteps
    <3> QED
      BY <3>1, <3>2, <3>5, <3>7
  <2>3. IsStream(m) /\ m.state = Outside(j.nesting) /\ m.nesting = j.nesting
    BY <1>6 DEF Moved
  <2>4. Reads(m)
    BY <1>1, <2>2, <2>3, AfterOne
  <2> QED
    BY <2>1, <2>4
<1>8. CASE j.state \notin {"start", "array", "array_item", "object_key"}
  <2>1. AsValue(j, x) = Failed(j)
    BY <1>8 DEF AsValue
  <2> QED
    BY <1>1, <2>1, FailedReads
<1> QED
  BY <1>7, <1>8

LEMMA StringReads ==
  ASSUME NEW j, Reads(j), NEW x \in Tokens \ (Punctuation \cup Literals)
  PROVE  Reads(AsString(j, x))
<1> DEFINE k == Separated(j)
           l == Written(k, x)
           m == Written(l, ":")
           n == [m EXCEPT !.state = "object_key"]
<1>1. IsStream(j) /\ j.nesting \in Seq(Nests)
  BY DEF Reads, IsStream, Streams
<1>2. IsStream(k) /\ SameState(j, k) /\ (~k.lost => ~j.lost)
  BY <1>1, SeparatedStream
<1> HIDE DEF k
<1>3. Wrote(k, l, <<x>>) /\ IsStream(l)
  BY <1>2, WrittenStream DEF Wrote
<1> HIDE DEF l
<1>4. ":" \in Tokens
  BY DEF Tokens, Punctuation
<1>5. Wrote(l, m, <<":">>) /\ IsStream(m)
  BY <1>3, <1>4, WrittenStream DEF Wrote
<1> HIDE DEF m
<1>6. m.nesting = j.nesting
  BY <1>2, <1>3, <1>5 DEF Wrote, SameState
<1>7. Moved(m, n, "object_key", j.nesting)
  BY <1>1, <1>5, <1>6, MovedStream DEF StreamStates
<1> HIDE DEF n
<1>8. CASE j.state \in {"object", "object_value"}
  <2>1. AsString(j, x) = n
    BY <1>8 DEF AsString, n, m, l, k
  <2>2. ASSUME ~n.lost, NEW t, Continues(t, n)
        PROVE  Climbs(t, j.nesting, ValueEnd(t, Here(n)))
    <3>1. ~m.lost /\ Continues(t, m) /\ Here(n) = Here(m)
      BY <1>7, <2>2, MovedContinues DEF Moved
    <3>2. ~l.lost /\ ~k.lost
      BY <1>3, <1>5, <3>1 DEF Wrote
    <3>3. Here(m) = Here(l) + 1 /\ Continues(t, l) /\ Token(t, Here(l)) = ":"
      BY <1>3, <1>4, <1>5, <3>1, ContinuesWritten
    <3>4. Here(l) = Here(k) + 1 /\ Continues(t, k) /\ Token(t, Here(k)) = x
      BY <1>2, <1>3, <3>2, <3>3, ContinuesWritten
    <3>5. IsKey(t, Here(k))
      BY <3>3, <3>4 DEF IsKey
    <3>6. Climbs(t, j.nesting, ValueEnd(t, Here(k) + 2))
      BY <1>8, <3>2, <3>4, <3>5, BeforeKey DEF k
    <3>7. Here(k) + 2 = Here(k) + 1 + 1
      BY <1>2, HereTyped
    <3> QED
      BY <3>1, <3>3, <3>4, <3>6, <3>7
  <2>3. Nested(n)
    BY <1>7, <1>8 DEF Moved, Nested, Reads
  <2>4. Reads(n)
    BY <1>7, <2>2, <2>3 DEF Reads, Place, Moved
  <2> QED
    BY <2>1, <2>4
<1>9. CASE j.state \notin {"object", "object_value"}
  <2>1. AsString(j, x) = AsValue(j, x)
    BY <1>9 DEF AsString
  <2> QED
    BY <2>1, ValueReads
<1> QED
  BY <1>8, <1>9

LEMMA StartReads ==
  ASSUME NEW j, Reads(j), NEW of \in Brackets
  PROVE  Reads(Started(j, of))
<1> DEFINE nest == IF of = "{" THEN "object" ELSE "array"
           k == Separated(j)
           l == Written(k, of)
           inner == Append(j.nesting, nest)
           m == [l EXCEPT !.state = nest, !.nesting = Append(@, nest)]
<1>1. IsStream(j) /\ j.nesting \in Seq(Nests)
  BY DEF Reads, IsStream, Streams
<1>2. IsStream(k) /\ SameState(j, k) /\ (~k.lost => ~j.lost)
  BY <1>1, SeparatedStream
<1> HIDE DEF k
<1>3. of \in Tokens
  BY DEF Tokens, Punctuation, Brackets
<1>4. Wrote(k, l, <<of>>) /\ IsStream(l)
  BY <1>2, <1>3, WrittenStream DEF Wrote
<1> HIDE DEF l
<1>5. nest \in Nests /\ nest \in StreamStates /\ BracketOf(nest) = of
  BY DEF Nests, StreamStates, BracketOf, Brackets
<1>6. inner \in Seq(Nests) /\ inner # <<>> /\ Front(inner) = j.nesting /\ Last(inner) = nest
  <2> HIDE DEF nest
  <2> QED
    BY <1>1, <1>5, AppendedEnds
<1>7. m = [l EXCEPT !.state = nest, !.nesting = inner]
  <2>1. l.nesting = j.nesting /\ l \in Streams
    BY <1>2, <1>4 DEF Wrote, SameState, IsStream
  <2> HIDE DEF nest
  <2> QED
    BY <2>1 DEF Streams
<1> HIDE DEF inner, m
<1>8. Moved(l, m, nest, inner)
  <2> HIDE DEF nest
  <2> QED
    BY <1>4, <1>5, <1>6, <1>7, MovedStream
<1>9. CASE j.state \in {"start", "object_key", "array", "array_item"}
  <2>1. Started(j, of) = m
    BY <1>9 DEF Started, m, l, k
  <2>2. ASSUME ~m.lost, NEW t, Continues(t, m)
        PROVE  Climbs(t, Front(inner), Opened(t, of, Here(m)))
    <3>1. ~l.lost /\ Continues(t, l) /\ Here(m) = Here(l)
      BY <1>8, <2>2, MovedContinues DEF Moved
    <3>2. Here(l) = Here(k) + 1 /\ Continues(t, k) /\ Token(t, Here(k)) = of
      BY <1>2, <1>3, <1>4, <3>1, ContinuesWritten
    <3>3. ~k.lost
      BY <1>4, <3>1 DEF Wrote
    <3>4. Token(t, Here(k)) # "]"
      BY <3>2 DEF Brackets
    <3>5. Climbs(t, j.nesting, ValueEnd(t, Here(k)))
      BY <1>9, <3>2, <3>3, <3>4, BeforeValue DEF k
    <3>6. t \in Seq(Tokens) /\ Here(k) \in Nat
      BY <1>2, <3>2, HereTyped DEF Continues
    <3>7. ValueEnd(t, Here(k)) = Opened(t, of, Here(k) + 1)
      BY <3>2, <3>6, ValueEndSteps
    <3> QED
      BY <1>6, <3>1, <3>2, <3>5, <3>7
  <2>3. Nested(m)
    BY <1>6, <1>8 DEF Moved, Nested
  <2>4. ASSUME ~m.lost, NEW t, Continues(t, m) PROVE Place(m, t)
    <3>1. Climbs(t, Front(inner), Opened(t, of, Here(m)))
      BY <2>2, <2>4
    <3> QED
      BY <1>8, <3>1 DEF Place, Moved, Brackets
  <2>5. Reads(m)
    BY <1>8, <2>3, <2>4 DEF Reads, Moved
  <2> QED
    BY <2>1, <2>5
<1>10. CASE j.state \notin {"start", "object_key", "array", "array_item"}
  <2>1. Started(j, of) = Failed(j)
    BY <1>10 DEF Started
  <2> QED
    BY <1>1, <2>1, FailedReads
<1> QED
  BY <1>9, <1>10

LEMMA EndReads ==
  ASSUME NEW j, Reads(j), NEW of \in Brackets
  PROVE  Reads(Ended(j, Closing(of)))
<1> DEFINE nest == IF of = "{" THEN "object" ELSE "array"
           item == IF of = "{" THEN "object_value" ELSE "array_item"
           close == Closing(of)
           l == Written(j, close)
           outer == Front(j.nesting)
           m == [l EXCEPT !.nesting = Front(@), !.state = Outside(Front(j.nesting))]
<1>1. IsStream(j) /\ j.nesting \in Seq(Nests)
  BY DEF Reads, IsStream, Streams
<1>2. close \in Tokens /\ close # ","
  BY DEF Tokens, Punctuation, Brackets, Closing
<1>3. Wrote(j, l, <<close>>) /\ IsStream(l)
  BY <1>1, <1>2, WrittenStream DEF Wrote
<1>4. CASE j.state \in {nest, item}
  <2>1. j.nesting # <<>> /\ Last(j.nesting) = nest
    BY <1>4 DEF Reads, Nested
  <2>2. outer \in Seq(Nests)
    BY <1>1, <2>1, FrontAndLast
  <2>3. BracketOf(Last(j.nesting)) = of
    BY <2>1 DEF BracketOf, Brackets
  <2>4. Outside(outer) \in StreamStates
    <3> HIDE DEF outer
    <3> QED
      BY <2>2, OutsideNests DEF StreamStates
  <2>5. Ended(j, close) = m
    BY <1>4 DEF Ended, Closing
  <2> HIDE DEF l
  <2>6. m = [l EXCEPT !.state = Outside(outer), !.nesting = outer]
    <3>1. l.nesting = j.nesting /\ l \in Streams
      BY <1>3 DEF Wrote, SameState, IsStream
    <3> QED
      BY <3>1 DEF Streams
  <2> HIDE DEF outer, m
  <2>7. Moved(l, m, Outside(outer), outer)
    BY <1>3, <2>2, <2>4, <2>6, MovedStream
  <2>8. ASSUME ~m.lost, NEW t, Continues(t, m) PROVE Climbs(t, outer, Here(m))
    <3>1. ~l.lost /\ Continues(t, l) /\ Here(m) = Here(l)
      BY <2>7, <2>8, MovedContinues DEF Moved
    <3>2. Here(l) = Here(j) + 1 /\ Continues(t, j) /\ Token(t, Here(j)) = close
      BY <1>1, <1>2, <1>3, <3>1, ContinuesWritten
    <3>3. ~j.lost /\ Here(j) \in Nat /\ Here(j) # 0
      BY <1>1, <1>3, <3>1, HereTyped DEF Wrote
    <3>4. Place(j, t)
      BY <3>2, <3>3 DEF Reads
    <3>5. CASE j.state = nest
      <4>1. Climbs(t, outer, Opened(t, of, Here(j)))
        BY <3>4, <3>5 DEF Place, outer, Brackets
      <4>2. Opened(t, of, Here(j)) = Here(j) + 1
        BY <3>2 DEF Opened
      <4> QED
        BY <3>1, <3>2, <4>1, <4>2
    <3>6. CASE j.state = item
      <4>1. Climbs(t, j.nesting, Here(j))
        BY <3>4, <3>6 DEF Place
      <4>2. Climbs(t, outer, AfterIn(t, Ends(t), of, Here(j)))
        BY <1>1, <2>1, <2>3, <4>1, ClimbsOut DEF outer
      <4>3. AfterIn(t, Ends(t), of, Here(j)) = Here(j) + 1
        BY <1>2, <3>2, <3>3 DEF AfterIn
      <4> QED
        BY <3>1, <3>2, <4>2, <4>3
    <3> QED
      BY <1>4, <3>5, <3>6
  <2>9. Reads(m)
    BY <2>2, <2>7, <2>8, AfterOne DEF Moved
  <2> QED
    BY <2>5, <2>9
<1>5. CASE j.state \notin {nest, item}
  <2>1. Ended(j, close) = Failed(j)
    BY <1>5 DEF Ended, Closing
  <2> QED
    BY <1>1, <2>1, FailedReads
<1> QED
  BY <1>4, <1>5

LEMMA CalledReads ==
  ASSUME NEW j, Reads(j), NEW c \in AllCalls
  PROVE  Reads(Called(j, c))
<1>1. CASE c \in {ObjectStart, ArrayStart}
  <2>1. PICK of \in Brackets : c = <<"start", of>>
    BY <1>1 DEF ObjectStart, ArrayStart, Brackets
  <2>2. Called(j, c) = Started(j, of)
    BY <2>1 DEF Called
  <2> QED
    BY <2>2, StartReads
<1>2. CASE c \in {ObjectEnd, ArrayEnd}
  <2>1. PICK of \in Brackets : Called(j, c) = Ended(j, Closing(of))
    <3>1. PICK close \in {"}", "]"} : c = <<"end", close>>
      BY <1>2 DEF ObjectEnd, ArrayEnd
    <3>3. Called(j, c) = Ended(j, close)
      BY <3>1 DEF Called
    <3>2. Closing("{") = "}" /\ Closing("[") = "]" /\ "{" \in Brackets /\ "[" \in Brackets
      BY DEF Closing, Brackets
    <3> QED
      BY <3>2, <3>3
  <2> QED
    BY <2>1, EndReads
<1>3. CASE \E x \in Tokens \ Punctuation : c = Value(x)
  <2>1. PICK x \in Tokens \ Punctuation : c = Value(x)
    BY <1>3
  <2>2. Called(j, c) = AsValue(j, x)
    BY <2>1 DEF Called, Value
  <2> QED
    BY <2>2, ValueReads
<1>4. CASE \E x \in Tokens \ (Punctuation \cup Literals) : c = String(x)
  <2>1. PICK x \in Tokens \ (Punctuation \cup Literals) : c = String(x)
    BY <1>4
  <2>2. Called(j, c) = AsString(j, x)
    BY <2>1 DEF Called, String
  <2> QED
    BY <2>2, StringReads
<1> QED
  BY <1>1, <1>2, <1>3, <1>4 DEF AllCalls

NextCall(j, c) == IF j.state = "error" THEN j ELSE Called(j, c)

\* One call after another.
LEMMA CallSteps ==
  ASSUME NEW json, Reads(json), NEW calls \in Seq(AllCalls)
  PROVE  \E after :
           /\ Calling(json, calls) = after[Len(calls)]
           /\ \A n \in 0 .. Len(calls) : Reads(after[n])
           /\ after[0] = json
           /\ \A n \in 1 .. Len(calls) : after[n] = NextCall(after[n - 1], calls[n])
<1> DEFINE N == Len(calls)
           T == {j \in Streams : Reads(j)}
           step == [n \in 1 .. N |-> [j \in T |-> NextCall(j, calls[n])]]
           Body(g, n) == IF n = 0 THEN json
                         ELSE LET now == g[n - 1]
                              IN  IF now.state = "error" THEN now ELSE Called(now, calls[n])
           IsAfter(g) == g = [n \in 0 .. N |-> Body(g, n)]
           after == CHOOSE g : IsAfter(g)
<1>1. N \in Nat /\ \A n \in 1 .. N : calls[n] \in AllCalls
  OBVIOUS
<1>2. \A j : Reads(j) <=> j \in T
  BY DEF Reads, IsStream
<1>3. \A j \in T : \A c \in AllCalls : NextCall(j, c) \in T
  <2>1. ASSUME NEW j \in T, NEW c \in AllCalls PROVE Reads(NextCall(j, c))
    BY CalledReads DEF NextCall
  <2> HIDE DEF T
  <2> QED
    BY <1>2, <2>1
<1> HIDE DEF T
<1>4. IsStep(step, N, T)
  BY <1>1, <1>3 DEF IsStep
<1>5. PICK f : f \in [0 .. N -> T] /\ Follows(f, N, json, step)
  <2>1. json \in T
    BY <1>2
  <2> HIDE DEF N, step
  <2> QED
    BY <1>1, <1>4, <2>1, RecursionUpTo
<1>6. ASSUME NEW n \in 1 .. N PROVE f[n] = NextCall(f[n - 1], calls[n])
  <2>1. f[n - 1] \in T
    <3> HIDE DEF N, step
    <3> QED
      BY <1>1, <1>5
  <2> QED
    BY <1>5, <2>1 DEF Follows
<1>7. IsAfter(f)
  <2>1. \A n \in 0 .. N : n = 0 \/ (n \in 1 .. N /\ n # 0)
    BY <1>1
  <2>2. \A n \in 0 .. N : f[n] = Body(f, n)
    BY <1>5, <1>6, <2>1, Zenon DEF Follows, NextCall
  <2> HIDE DEF Body
  <2> QED
    BY <1>5, <2>2
<1>8. IsAfter(after)
  <2> HIDE DEF IsAfter
  <2> QED
    BY <1>7
<1>9. Calling(json, calls) = after[N]
  BY DEF Calling
<1> HIDE DEF after
<1>10. \A n \in 0 .. N : after[n] = Body(after, n)
  <2> HIDE DEF Body
  <2> QED
    BY <1>8, Zenon
<1>11. 0 \in 0 .. N /\ \A n \in 1 .. N : n \in 0 .. N /\ n # 0
  BY <1>1
<1>12. /\ after[0] = json
       /\ \A n \in 1 .. N : after[n] = NextCall(after[n - 1], calls[n])
  BY <1>10, <1>11, Zenon DEF NextCall
<1> DEFINE D == {n \in 0 .. N : after[n] \in T}
<1> HIDE DEF N
<1>13. 0 \in D
  BY <1>2, <1>11, <1>12
<1>14. ASSUME NEW n \in 0 .. N - 1, n \in D PROVE n + 1 \in D
  <2>1. PICK i \in 1 .. N : i = n + 1 /\ i - 1 = n /\ i \in 0 .. N
    <3>1. n + 1 \in 1 .. N /\ n + 1 - 1 = n /\ n + 1 \in 0 .. N
      BY <1>1
    <3> QED
      BY <3>1
  <2>2. after[i] = NextCall(after[i - 1], calls[i])
    BY <1>12, <2>1
  <2> QED
    BY <1>1, <1>3, <1>14, <2>1, <2>2
<1> HIDE DEF D
<1>15. \A n \in 0 .. N : n \in D
  BY <1>1, <1>13, <1>14, InductionUpTo DEF IsInductive
<1>16. \A n \in 0 .. N : Reads(after[n])
  BY <1>2, <1>15 DEF D
<1> QED
  BY <1>9, <1>12, <1>16, Zenon DEF N

LEMMA CallingReads ==
  ASSUME NEW j, Reads(j), NEW calls \in Seq(AllCalls)
  PROVE  Reads(Calling(j, calls))
<1> DEFINE N == Len(calls)
<1>1. PICK after : Calling(j, calls) = after[N] /\ \A n \in 0 .. N : Reads(after[n])
  BY CallSteps
<1>2. N \in 0 .. N
  OBVIOUS
<1> HIDE DEF N
<1> QED
  BY <1>1, <1>2, Zenon

LEMMA NewStreamReads == Reads(NewStream)
<1>1. <<>> \in Seq(Tokens) /\ <<>> \in Seq(Nests) /\ <<>> \in Seq(Seq(Tokens)) /\ DOMAIN <<>> = {}
  OBVIOUS
<1>2. NewStream \in Streams
  BY <1>1 DEF NewStream, Streams, StreamStates
<1>3. AreChunks(<<>>)
  BY <1>1 DEF AreChunks
<1>4. IsStream(NewStream)
  BY <1>2, <1>3, WidthOfNothing, BufferAssumption DEF IsStream, NewStream
<1>5. TextOf(NewStream) = <<>>
  <2>1. FlattenSeq(<<>>) \o <<>> = <<>>
    BY FlattenNothing
  <2> QED
    BY <2>1 DEF TextOf, NewStream
<1>6. Here(NewStream) = 1
  BY <1>5 DEF Here
<1>7. \A t : Climbs(t, <<>>, ValueEnd(t, 1))
  BY ClimbsNothing
<1>8. \A t : Place(NewStream, t)
  BY <1>6, <1>7 DEF Place, NewStream
<1> QED
  BY <1>4, <1>8 DEF Reads, Nested, NewStream

\* A stream that has come to its end has written a JSON text.
LEMMA EndedArrives ==
  ASSUME NEW j, Reads(j), j.state = "end", ~j.lost
  PROVE  Arrives(Flushed(j))
<1> DEFINE text == TextOf(j)
           k == Flushed(j)
<1>1. IsStream(k) /\ k.lost = j.lost /\ FlattenSeq(k.chunks) = text
  BY FlushedStream DEF Reads
<1>2. text \in Seq(Tokens)
  BY TextTyped DEF Reads
<1>3. Continues(text, j)
  BY <1>2 DEF Continues, Begins
<1>4. j.nesting = <<>> /\ Climbs(text, j.nesting, Here(j))
  BY <1>3 DEF Reads, Nested, Place
<1>5. ValueEnd(text, 1) = Len(text) + 1
  BY <1>4, ClimbsNothing DEF Here
<1>6. IsJson(Lexed(text))
  BY <1>2, <1>5, LexedPlain DEF IsJson
<1> HIDE DEF text, k
<1>7. AreChunks(k.chunks) /\ ~k.lost
  BY <1>1 DEF IsStream
<1> QED
  BY <1>1, <1>6, <1>7 DEF Arrives, AreChunks, k

\* A call that writes no string but a plain one.
LEMMA CallsTyped ==
  ASSUME NEW c \in Symbols["calls"], c[1] = "string" => Plain(c[2])
  PROVE  c \in AllCalls
<1>1. CASE c = Value(c[2]) /\ Plain(c[2]) /\ c[2] \notin Punctuation
  <2>1. c[2] \in Tokens
    BY <1>1 DEF Tokens
  <2> QED
    BY <1>1, <2>1 DEF AllCalls
<1>2. CASE c = String(c[2]) /\ (Plain(c[2]) => c[2] \notin Punctuation \cup Literals)
  <2>1. Plain(c[2])
    BY <1>2 DEF String
  <2>2. c[2] \in Tokens
    BY <2>1 DEF Tokens
  <2> QED
    BY <1>2, <2>1, <2>2 DEF AllCalls
<1>3. CASE c \in {ObjectStart, ObjectEnd, ArrayStart, ArrayEnd}
  BY <1>3 DEF AllCalls
<1> QED
  BY <1>1, <1>2, <1>3, CallsAssumption

(* When the strings need no escaping and nothing nests deeper than the     *)
(* array of nestings, a text that a stream takes to its end is JSON,       *)
(* whatever calls are made, in any order and however many, and arrives in  *)
(* chunks that are not empty and fit the buffer (json.c).                  *)
THEOREM StreamsWriteJson == Spec => []StreamsAreJson
<1>1. InputTyped => StreamsAreJson
  <2> SUFFICES ASSUME InputTyped, kind = "calls",
                      Stream(input).state = "end", ~Stream(input).lost, Unescaped(input)
               PROVE  Arrives(Stream(input))
    BY DEF StreamsAreJson
  <2>1. input \in Seq(AllCalls)
    <3>1. input \in Seq(Symbols["calls"])
      BY DEF InputTyped
    <3>2. ASSUME NEW i \in 1 .. Len(input) PROVE input[i] \in AllCalls
      <4>1. input[i] \in Symbols["calls"] /\ input[i] \in ToSet(input)
        BY <3>1 DEF ToSet
      <4> QED
        BY <4>1, CallsTyped DEF Unescaped
    <3> QED
      BY <3>1, <3>2
  <2> DEFINE j == Calling(NewStream, input)
  <2>2. Reads(j)
    BY <2>1, NewStreamReads, CallingReads
  <2>3. j.state = "end" /\ ~j.lost
    <3>1. SameState(j, Flushed(j)) /\ Flushed(j).lost = j.lost
      BY <2>2, FlushedStream DEF Reads
    <3> QED
      BY <3>1 DEF SameState, Stream
  <2> HIDE DEF j
  <2>4. Arrives(Flushed(j))
    BY <2>2, <2>3, EndedArrives
  <2> QED
    BY <2>4 DEF Stream, j
<1> QED
  BY <1>1, InputAlways, PTL

-----------------------------------------------------------------------------
(* What a reader finds in a text.                                          *)

FirstOf(t, i) == IF Token(t, i + 1) = ":" THEN i + 2 ELSE i

\* What is read of the items from i on.
ItemsRead(t, items, i) ==
  LET first == FirstOf(t, i)
      next  == ValueEnd(t, first)
      value == ReadFrom(t, items, first)
  IN  IF Token(t, i) = "," THEN items[i + 1]
      ELSE IF next = 0 THEN <<>>
      ELSE <<IF first = i THEN value ELSE <<t[i], value>> >> \o items[next]

LEMMA ValueEndBounds ==
  ASSUME NEW S, NEW t \in Seq(S), NEW i \in Nat
  PROVE  IsEnd(ValueEnd(t, i), i)
<1>1. EndsAbove(Ends(t), i) /\ SameAbove(Ends(t), Ends(t), i)
  BY EndSteps DEF EndsAbove, SameAbove
<1> QED
  BY <1>1, EndFromAbove DEF ValueEnd

LEMMA NothingRead ==
  ASSUME NEW S, NEW t \in Seq(S), NEW i \in Nat, i > Len(t), NEW items
  PROVE  ItemsRead(t, items, i) = <<>>
<1>1. Token(t, i) = "end" /\ Token(t, i + 1) = "end"
  BY DEF Token
<1>2. FirstOf(t, i) = i
  BY <1>1 DEF FirstOf
<1>3. ValueEnd(t, i) = 0
  BY <1>1 DEF ValueEnd, EndFrom, Punctuation
<1> QED
  BY <1>1, <1>2, <1>3 DEF ItemsRead

LEMMA ItemsReadAbove ==
  ASSUME NEW S, NEW t \in Seq(S), NEW i \in Nat, NEW f, NEW g,
         \A k \in Nat : k > i => f[k] = g[k]
  PROVE  ItemsRead(t, f, i) = ItemsRead(t, g, i)
<1> DEFINE first == FirstOf(t, i)
           next == ValueEnd(t, first)
<1>1. first \in Nat /\ first >= i
  BY DEF FirstOf
<1>2. IsEnd(next, first)
  BY <1>1, ValueEndBounds
<1>3. ReadFrom(t, f, first) = ReadFrom(t, g, first)
  <2>1. first + 1 \in Nat /\ first + 1 > i
    BY <1>1
  <2> HIDE DEF first
  <2>2. f[first + 1] = g[first + 1]
    BY <2>1
  <2> QED
    BY <2>2 DEF ReadFrom
<1>4. f[i + 1] = g[i + 1]
  <2>1. i + 1 \in Nat /\ i + 1 > i
    OBVIOUS
  <2> QED
    BY <2>1
<1> HIDE DEF first, next
<1>5. next # 0 => f[next] = g[next]
  <2>1. next # 0 => next \in Nat /\ next > i
    BY <1>1, <1>2 DEF IsEnd
  <2> QED
    BY <2>1
<1> QED
  BY <1>3, <1>4, <1>5, Zenon DEF ItemsRead, first, next

LEMMA ReadingExists ==
  ASSUME NEW S, NEW t \in Seq(S)
  PROVE  \E f : f = [i \in Nat |-> ItemsRead(t, f, i)]
<1> DEFINE N == Len(t) + 1
           Solved(h, m) == /\ h = [i \in Nat |-> h[i]]
                           /\ \A i \in Nat : i >= m => h[i] = ItemsRead(t, h, i)
           D == {m \in 0 .. N : \E h : Solved(h, m)}
<1>1. N \in Nat /\ \A i \in Nat : i >= N => i > Len(t)
  OBVIOUS
<1> HIDE DEF N
<1>2. N \in D
  <2> DEFINE h == [i \in Nat |-> <<>>]
  <2>1. h = [i \in Nat |-> h[i]] /\ \A i \in Nat : h[i] = <<>>
    OBVIOUS
  <2> HIDE DEF h
  <2>2. ASSUME NEW i \in Nat, i >= N PROVE h[i] = ItemsRead(t, h, i)
    BY <1>1, <2>1, <2>2, NothingRead
  <2>3. Solved(h, N)
    BY <2>1, <2>2
  <2>4. N \in 0 .. N
    BY <1>1
  <2> HIDE DEF Solved
  <2> QED
    BY <2>3, <2>4
<1>3. ASSUME NEW m \in 0 .. N - 1, m + 1 .. N \subseteq D PROVE m \in D
  <2>1. m + 1 \in m + 1 .. N /\ m \in Nat /\ m \in 0 .. N
    BY <1>1
  <2>2. PICK h : Solved(h, m + 1)
    BY <1>3, <2>1
  <2>3. \A i \in Nat : i > m => h[i] = ItemsRead(t, h, i)
    BY <2>1, <2>2
  <2> DEFINE x == ItemsRead(t, h, m)
             g == [i \in Nat |-> IF i = m THEN x ELSE h[i]]
  <2> HIDE DEF x
  <2>4. g = [i \in Nat |-> g[i]] /\ \A i \in Nat : g[i] = IF i = m THEN x ELSE h[i]
    OBVIOUS
  <2> HIDE DEF g
  <2>5. ASSUME NEW i \in Nat, i >= m PROVE g[i] = ItemsRead(t, g, i)
    <3>1. \A k \in Nat : k > i => g[k] = h[k]
      BY <2>1, <2>4, <2>5
    <3>2. ItemsRead(t, g, i) = ItemsRead(t, h, i)
      BY <3>1, ItemsReadAbove
    <3>3. CASE i = m
      BY <2>4, <3>2, <3>3 DEF x
    <3>4. CASE i # m
      <4>1. i > m
        BY <2>1, <2>5, <3>4
      <4> QED
        BY <2>3, <2>4, <3>2, <3>4, <4>1
    <3> QED
      BY <3>3, <3>4
  <2>6. Solved(g, m)
    BY <2>4, <2>5
  <2> HIDE DEF Solved
  <2> QED
    BY <2>1, <2>6
<1>4. \A m \in 0 .. N : m \in D
  <2> HIDE DEF D
  <2> QED
    BY <1>1, <1>2, <1>3, InductionDown DEF IsInductiveDown
<1>5. PICK f : Solved(f, 0)
  <2>1. 0 \in 0 .. N
    BY <1>1
  <2> QED
    BY <1>4, <2>1
<1>6. f = [i \in Nat |-> f[i]] /\ \A i \in Nat : f[i] = ItemsRead(t, f, i)
  BY <1>5
<1>7. f = [i \in Nat |-> ItemsRead(t, f, i)]
  BY <1>6
<1> QED
  BY <1>7

LEMMA ReadSteps ==
  ASSUME NEW S, NEW t \in Seq(S), NEW i \in Nat
  PROVE  ItemsOf(t)[i] = ItemsRead(t, ItemsOf(t), i)
<1> DEFINE Body(f, k) ==
             LET first == IF Token(t, k + 1) = ":" THEN k + 2 ELSE k
                 next  == ValueEnd(t, first)
                 value == ReadFrom(t, f, first)
             IN  IF Token(t, k) = "," THEN f[k + 1]
                 ELSE IF next = 0 THEN <<>>
                 ELSE <<IF first = k THEN value ELSE <<t[k], value>> >> \o f[next]
           IsRead(f) == f = [k \in Nat |-> Body(f, k)]
           items == CHOOSE f : IsRead(f)
<1>1. ItemsOf(t) = items
  BY DEF ItemsOf
<1>2. \A f, k : Body(f, k) = ItemsRead(t, f, k)
  BY DEF ItemsRead, FirstOf
<1>3. IsRead(items)
  <2>1. \E f : IsRead(f)
    <3>1. PICK f : f = [k \in Nat |-> ItemsRead(t, f, k)]
      BY ReadingExists
    <3> HIDE DEF Body
    <3>2. IsRead(f)
      BY <1>2, <3>1
    <3> QED
      BY <3>2, Zenon
  <2> HIDE DEF IsRead
  <2> QED
    BY <2>1
<1> HIDE DEF items
<1>4. items[i] = Body(items, i)
  <2> HIDE DEF Body
  <2> QED
    BY <1>3
<1> HIDE DEF Body
<1> QED
  BY <1>1, <1>2, <1>4

\* The three things that can be at a place among items.
LEMMA CommaRead ==
  ASSUME NEW S, NEW t \in Seq(S), NEW i \in Nat, Token(t, i) = ","
  PROVE  ItemsOf(t)[i] = ItemsOf(t)[i + 1]
BY ReadSteps DEF ItemsRead

LEMMA ItemRead ==
  ASSUME NEW S, NEW t \in Seq(S), NEW i \in Nat, Token(t, i) # ",", Token(t, i + 1) # ":",
         ValueEnd(t, i) # 0
  PROVE  ItemsOf(t)[i] = <<ValueAt(t, i)>> \o ItemsOf(t)[ValueEnd(t, i)]
<1>1. FirstOf(t, i) = i
  BY DEF FirstOf
<1> QED
  BY <1>1, ReadSteps, Zenon DEF ItemsRead, ValueAt

LEMMA TwoOn == \A i \in Nat : i + 2 # i
OBVIOUS

LEMMA MemberRead ==
  ASSUME NEW S, NEW t \in Seq(S), NEW i \in Nat, Token(t, i) # ",", Token(t, i + 1) = ":",
         ValueEnd(t, i + 2) # 0
  PROVE  ItemsOf(t)[i] = <<<<t[i], ValueAt(t, i + 2)>>>> \o ItemsOf(t)[ValueEnd(t, i + 2)]
<1>1. FirstOf(t, i) = i + 2
  BY Zenon DEF FirstOf
<1>2. i + 2 # i
  BY TwoOn
<1> QED
  BY <1>1, <1>2, ReadSteps, Zenon DEF ItemsRead, ValueAt

LEMMA CloseRead ==
  ASSUME NEW S, NEW t \in Seq(S), NEW i \in Nat, Token(t, i) \in {"]", "}"},
         Token(t, i + 1) # ":"
  PROVE  ItemsOf(t)[i] = <<>>
<1>1. FirstOf(t, i) = i
  BY DEF FirstOf
<1>2. ValueEnd(t, i) = 0
  BY DEF ValueEnd, EndFrom, Punctuation
<1> QED
  BY <1>1, <1>2, ReadSteps DEF ItemsRead

-----------------------------------------------------------------------------
(* Calls one after another.                                                *)

LEMMA CallingNothing ==
  ASSUME NEW j, Reads(j)
  PROVE  Calling(j, <<>>) = j
<1> DEFINE none == <<>>
           N == Len(none)
<1>1. none \in Seq(AllCalls) /\ N = 0
  OBVIOUS
<1> HIDE DEF none
<1>2. PICK after : Calling(j, none) = after[N] /\ after[0] = j
  <2>1. none \in Seq(AllCalls)
    BY <1>1
  <2> QED
    BY <2>1, CallSteps
<1> HIDE DEF N
<1>3. Calling(j, none) = j
  BY <1>1, <1>2
<1> QED
  BY <1>3 DEF none

LEMMA FurtherOn ==
  ASSUME NEW a \in Nat, NEW b \in Nat, NEW n, NEW i \in 1 .. b, i - 1 = n
  PROVE  \E k \in 1 .. a + b : k = a + i /\ k - 1 = a + n
<1> DEFINE k == a + i
<1>1. k \in 1 .. a + b /\ k - 1 = a + n /\ k = a + i
  OBVIOUS
<1> HIDE DEF k
<1> QED
  BY <1>1

LEMMA CallingConcatenated ==
  ASSUME NEW j, Reads(j), NEW a \in Seq(AllCalls), NEW b \in Seq(AllCalls)
  PROVE  Calling(j, a \o b) = Calling(Calling(j, a), b)
<1> DEFINE A == Len(a)
           B == Len(b)
           c == a \o b
           m == Calling(j, a)
<1>1. /\ c \in Seq(AllCalls) /\ Len(c) = A + B /\ A \in Nat /\ B \in Nat
      /\ \A n \in 1 .. A : c[n] = a[n]
      /\ \A n \in 1 .. B : c[A + n] = b[n]
  BY Concatenated, ConcatProperties
<1> HIDE DEF c
<1>2. Reads(m)
  BY CallingReads
<1>3. PICK f : /\ Calling(j, a) = f[A] /\ f[0] = j
               /\ \A n \in 1 .. A : f[n] = NextCall(f[n - 1], a[n])
  BY CallSteps
<1>4. PICK g : /\ Calling(m, b) = g[B] /\ g[0] = m
               /\ \A n \in 1 .. B : g[n] = NextCall(g[n - 1], b[n])
  <2> HIDE DEF m
  <2> QED
    BY <1>2, CallSteps
<1> DEFINE C == Len(c)
<1>5. PICK h : /\ Calling(j, c) = h[C] /\ h[0] = j
               /\ \A n \in 1 .. C : h[n] = NextCall(h[n - 1], c[n])
  <2>1. c \in Seq(AllCalls)
    BY <1>1
  <2> QED
    BY <2>1, CallSteps
<1>6. C = A + B
  BY <1>1
<1> HIDE DEF A, B, C
<1> DEFINE D == {n \in 0 .. A : h[n] = f[n]}
           E == {n \in 0 .. B : h[A + n] = g[n]}
<1>7. A \in D
  <2>1. 0 \in D
    BY <1>1, <1>3, <1>5
  <2>2. ASSUME NEW n \in 0 .. A - 1, n \in D PROVE n + 1 \in D
    <3>1. PICK i \in 1 .. A : i = n + 1 /\ i - 1 = n /\ i \in 0 .. A /\ i \in 1 .. C
      <4>1. n + 1 \in 1 .. A /\ n + 1 - 1 = n /\ n + 1 \in 0 .. A /\ n + 1 \in 1 .. C
        BY <1>1, <1>6
      <4> QED
        BY <4>1
    <3>2. h[i] = NextCall(h[i - 1], c[i]) /\ f[i] = NextCall(f[i - 1], a[i]) /\ c[i] = a[i]
      BY <1>1, <1>3, <1>5, <3>1
    <3>3. h[i] = f[i]
      BY <2>2, <3>1, <3>2
    <3> QED
      BY <3>1, <3>3
  <2> HIDE DEF D
  <2> QED
    BY <1>1, <2>1, <2>2, InductionUpTo DEF IsInductive
<1>8. B \in E
  <2>1. 0 \in E
    <3>1. A + 0 = A /\ 0 \in 0 .. B
      BY <1>1
    <3>2. h[A] = m
      BY <1>3, <1>7
    <3> QED
      BY <1>4, <3>1, <3>2
  <2>2. ASSUME NEW n \in 0 .. B - 1, n \in E PROVE n + 1 \in E
    <3>1. PICK i \in 1 .. B, k \in 1 .. C :
            i = n + 1 /\ i - 1 = n /\ i \in 0 .. B /\ k = A + i /\ k - 1 = A + n
      <4>1. PICK i \in 1 .. B : i = n + 1 /\ i - 1 = n /\ i \in 0 .. B
        <5>1. n + 1 \in 1 .. B /\ n + 1 - 1 = n /\ n + 1 \in 0 .. B
          BY <1>1
        <5> QED
          BY <5>1
      <4>2. PICK k \in 1 .. C : k = A + i /\ k - 1 = A + n
        BY <1>1, <1>6, <4>1, FurtherOn
      <4> QED
        BY <4>1, <4>2
    <3>2. h[k] = NextCall(h[k - 1], c[k]) /\ g[i] = NextCall(g[i - 1], b[i])
      BY <1>4, <1>5, Zenon
    <3>3. c[k] = b[i] /\ h[k - 1] = g[i - 1]
      BY <1>1, <2>2, <3>1
    <3>4. h[k] = g[i]
      BY <3>2, <3>3, Zenon
    <3> QED
      BY <3>1, <3>4
  <2> HIDE DEF E
  <2> QED
    BY <1>1, <2>1, <2>2, InductionUpTo DEF IsInductive
<1>9. Calling(j, c) = Calling(m, b)
  BY <1>4, <1>5, <1>6, <1>8
<1> QED
  BY <1>9 DEF c, m

LEMMA CallingOne ==
  ASSUME NEW j, Reads(j), j.state # "error", NEW c \in AllCalls
  PROVE  Calling(j, <<c>>) = Called(j, c)
<1> DEFINE one == <<c>>
<1>1. one \in Seq(AllCalls) /\ Len(one) = 1 /\ one[1] = c
  OBVIOUS
<1> HIDE DEF one
<1> DEFINE N == Len(one)
<1>2. PICK after : /\ Calling(j, one) = after[N] /\ after[0] = j
                   /\ \A n \in 1 .. N : after[n] = NextCall(after[n - 1], one[n])
  <2>1. one \in Seq(AllCalls)
    BY <1>1
  <2> QED
    BY <2>1, CallSteps
<1>3. 1 \in 1 .. N /\ 1 - 1 = 0 /\ N = 1
  BY <1>1
<1> HIDE DEF N
<1>4. after[1] = NextCall(after[1 - 1], one[1])
  BY <1>2, <1>3
<1>5. Calling(j, one) = Called(j, c)
  BY <1>1, <1>2, <1>3, <1>4 DEF NextCall
<1> QED
  BY <1>5 DEF one

-----------------------------------------------------------------------------
(* One token that is written.                                              *)

Short(x) == Width(x) <= Size - 1

Puts(j, k, x) ==
  /\ Short(x) => k.lost = j.lost
  /\ ~k.lost =>
       /\ ~j.lost /\ Here(k) = Here(j) + 1
       /\ \A t : Continues(t, k) =>
            Continues(t, j) /\ Token(t, Here(j)) = x /\ t[Here(j)] = x

LEMMA WrittenPuts ==
  ASSUME NEW j, IsStream(j), NEW x \in Tokens
  PROVE  Puts(j, Written(j, x), x) /\ IsStream(Written(j, x)) /\ SameState(j, Written(j, x))
<1> DEFINE k == Written(j, x)
<1>1. Wrote(j, k, <<x>>) /\ (Short(x) => k.lost = j.lost)
  BY WrittenStream DEF Short
<1> HIDE DEF k
<1>2. IsStream(k) /\ SameState(j, k) /\ (~k.lost => ~j.lost)
  BY <1>1 DEF Wrote
<1>3. ASSUME ~k.lost
      PROVE  /\ Here(k) = Here(j) + 1
             /\ \A t : Continues(t, k) =>
                  Continues(t, j) /\ Token(t, Here(j)) = x /\ Here(j) \in DOMAIN t
  BY <1>1, <1>3, ContinuesWritten
<1>4. \A t : Here(j) \in DOMAIN t => t[Here(j)] = Token(t, Here(j))
  BY DEF Token
<1>5. Puts(j, k, x)
  BY <1>1, <1>2, <1>3, <1>4 DEF Puts
<1> QED
  BY <1>2, <1>5 DEF k

LEMMA MovedPuts ==
  ASSUME NEW j, NEW k, NEW l, NEW x, NEW s, NEW n, Puts(j, k, x), Moved(k, l, s, n)
  PROVE  Puts(j, l, x)
<1>1. l.lost = k.lost /\ Here(l) = Here(k) /\ \A t : Continues(t, l) <=> Continues(t, k)
  BY MovedContinues DEF Moved
<1> QED
  BY <1>1 DEF Puts

LEMMA SeparatedPuts ==
  ASSUME NEW j, IsStream(j)
  PROVE  /\ IsStream(Separated(j)) /\ SameState(j, Separated(j))
         /\ j.state \in {"array_item", "object_value"} => Puts(j, Separated(j), ",")
         /\ j.state \notin {"array_item", "object_value"} => Separated(j) = j
<1>1. "," \in Tokens
  BY DEF Tokens, Punctuation
<1>2. CASE j.state \in {"array_item", "object_value"}
  <2>1. Separated(j) = Written(j, ",")
    BY <1>2 DEF Separated
  <2> QED
    BY <1>1, <1>2, <2>1, WrittenPuts
<1>3. CASE j.state \notin {"array_item", "object_value"}
  <2>1. Separated(j) = j
    BY <1>3 DEF Separated
  <2> QED
    BY <1>3, <2>1 DEF SameState
<1> QED
  BY <1>2, <1>3

ValueStates == {"start", "array", "array_item", "object_key"}

LEMMA ValuePuts ==
  ASSUME NEW j, IsStream(j), NEW x \in Tokens, j.state \in ValueStates
  PROVE  LET k == AsValue(j, x)
         IN  /\ k.state = Outside(j.nesting) /\ k.nesting = j.nesting
             /\ Puts(Separated(j), k, x)
<1> DEFINE s == Separated(j)
           l == Written(s, x)
           m == [l EXCEPT !.state = Outside(j.nesting)]
<1>1. IsStream(s) /\ SameState(j, s) /\ j.nesting \in Seq(Nests)
  BY SeparatedPuts DEF IsStream, Streams
<1> HIDE DEF s
<1>2. Puts(s, l, x) /\ IsStream(l) /\ l.nesting = j.nesting
  BY <1>1, WrittenPuts DEF SameState
<1>3. Outside(j.nesting) \in StreamStates
  BY <1>1, OutsideNests DEF StreamStates
<1> HIDE DEF l
<1>4. Moved(l, m, Outside(j.nesting), j.nesting)
  BY <1>1, <1>2, <1>3, MovedStream
<1>5. AsValue(j, x) = m
  BY DEF AsValue, ValueStates, l, s
<1> HIDE DEF m
<1>6. Puts(s, m, x)
  BY <1>2, <1>4, MovedPuts
<1> QED
  BY <1>4, <1>5, <1>6 DEF Moved, s

LEMMA KeyPuts ==
  ASSUME NEW j, IsStream(j), NEW x \in Tokens, j.state \in {"object", "object_value"}
  PROVE  LET k == AsString(j, x)
         IN  /\ k.state = "object_key" /\ k.nesting = j.nesting
             /\ \E l : Puts(Separated(j), l, x) /\ Puts(l, k, ":")
<1> DEFINE s == Separated(j)
           l == Written(s, x)
           m == Written(l, ":")
           n == [m EXCEPT !.state = "object_key"]
<1>1. IsStream(s) /\ SameState(j, s) /\ j.nesting \in Seq(Nests) /\ ":" \in Tokens
  BY SeparatedPuts DEF IsStream, Streams, Tokens, Punctuation
<1> HIDE DEF s
<1>2. Puts(s, l, x) /\ IsStream(l) /\ l.nesting = j.nesting
  BY <1>1, WrittenPuts DEF SameState
<1> HIDE DEF l
<1>3. Puts(l, m, ":") /\ IsStream(m) /\ m.nesting = j.nesting
  BY <1>1, <1>2, WrittenPuts DEF SameState
<1> HIDE DEF m
<1>4. Moved(m, n, "object_key", j.nesting)
  BY <1>1, <1>3, MovedStream DEF StreamStates
<1>5. AsString(j, x) = n
  BY DEF AsString, m, l, s
<1> HIDE DEF n
<1>6. Puts(l, n, ":")
  BY <1>3, <1>4, MovedPuts
<1> QED
  BY <1>2, <1>4, <1>5, <1>6 DEF Moved, s

NestOf(of) == IF of = "{" THEN "object" ELSE "array"

LEMMA StartPuts ==
  ASSUME NEW j, IsStream(j), NEW of \in Brackets, j.state \in ValueStates
  PROVE  LET k == Started(j, of)
         IN  /\ k.state = NestOf(of) /\ k.nesting = Append(j.nesting, NestOf(of))
             /\ Puts(Separated(j), k, of)
<1> DEFINE nest == NestOf(of)
           inner == Append(j.nesting, nest)
           s == Separated(j)
           l == Written(s, of)
           m == [l EXCEPT !.state = nest, !.nesting = inner]
<1>1. /\ IsStream(s) /\ SameState(j, s) /\ j.nesting \in Seq(Nests) /\ of \in Tokens
      /\ nest \in Nests /\ nest \in StreamStates
  BY SeparatedPuts DEF IsStream, Streams, Tokens, Punctuation, Brackets, NestOf, Nests, StreamStates
<1>2. Started(j, of) = [l EXCEPT !.state = nest, !.nesting = Append(@, nest)]
  BY DEF Started, ValueStates, NestOf
<1> HIDE DEF s, nest
<1>3. Puts(s, l, of) /\ IsStream(l) /\ l.nesting = j.nesting /\ l \in Streams
  BY <1>1, WrittenPuts DEF SameState, IsStream
<1> HIDE DEF l
<1>4. Started(j, of) = m
  BY <1>2, <1>3 DEF Streams
<1>5. inner \in Seq(Nests)
  BY <1>1, AppendedEnds
<1> HIDE DEF inner
<1>6. Moved(l, m, nest, inner)
  BY <1>1, <1>3, <1>5, MovedStream
<1> HIDE DEF m
<1>7. Puts(s, m, of)
  BY <1>3, <1>6, MovedPuts
<1> QED
  BY <1>4, <1>6, <1>7 DEF Moved, s, nest, inner

LEMMA EndPuts ==
  ASSUME NEW j, IsStream(j), NEW of \in Brackets, j.nesting # <<>>,
         \/ of = "{" /\ j.state \in {"object", "object_value"}
         \/ of = "[" /\ j.state \in {"array", "array_item"}
  PROVE  LET k == Ended(j, Closing(of))
         IN  /\ k.state = Outside(Front(j.nesting)) /\ k.nesting = Front(j.nesting)
             /\ Puts(j, k, Closing(of))
<1> DEFINE close == Closing(of)
           outer == Front(j.nesting)
           l == Written(j, close)
           m == [l EXCEPT !.state = Outside(outer), !.nesting = outer]
<1>1. close \in Tokens /\ j.nesting \in Seq(Nests)
  BY DEF IsStream, Streams, Tokens, Punctuation, Closing
<1>2. Ended(j, close) = [l EXCEPT !.nesting = Front(@), !.state = Outside(Front(j.nesting))]
  BY DEF Ended, Closing
<1> HIDE DEF close
<1>3. Puts(j, l, close) /\ IsStream(l) /\ l.nesting = j.nesting /\ l \in Streams
  BY <1>1, WrittenPuts DEF SameState, IsStream
<1> HIDE DEF l
<1>4. Ended(j, close) = m
  BY <1>2, <1>3 DEF Streams
<1>5. outer \in Seq(Nests)
  BY <1>1, FrontAndLast
<1>6. Outside(outer) \in StreamStates
  <2> HIDE DEF outer
  <2> QED
    BY <1>5, OutsideNests DEF StreamStates
<1> HIDE DEF outer
<1>7. Moved(l, m, Outside(outer), outer)
  BY <1>3, <1>5, <1>6, MovedStream
<1> HIDE DEF m
<1>8. Puts(j, m, close)
  BY <1>3, <1>7, MovedPuts
<1> QED
  BY <1>4, <1>7, <1>8 DEF Moved, outer, close

-----------------------------------------------------------------------------
(* Sequences, whatever they are made of.                                   *)

IsSeq(s) == \E S : s \in Seq(S)

LEMMA Concatenation ==
  ASSUME NEW a, IsSeq(a), NEW b, IsSeq(b)
  PROVE  IsSeq(a \o b) /\ <<>> \o a = a /\ a \o <<>> = a
<1>1. PICK A : a \in Seq(A)
  BY DEF IsSeq
<1>2. PICK B : b \in Seq(B)
  BY DEF IsSeq
<1> DEFINE U == A \cup B
<1>3. a \in Seq(U) /\ b \in Seq(U)
  BY <1>1, <1>2, SeqMonotonic
<1>4. a \o b \in Seq(U) /\ <<>> \o a = a /\ a \o <<>> = a
  BY <1>3, ConcatProperties, ConcatEmptySeq
<1> QED
  BY <1>4 DEF IsSeq

LEMMA Associativity ==
  ASSUME NEW a, IsSeq(a), NEW b, IsSeq(b), NEW c, IsSeq(c)
  PROVE  IsAssociative(a, b, c)
<1>1. PICK A : a \in Seq(A)
  BY DEF IsSeq
<1>2. PICK B : b \in Seq(B)
  BY DEF IsSeq
<1>3. PICK C : c \in Seq(C)
  BY DEF IsSeq
<1> DEFINE U == A \cup B \cup C
<1>4. a \in Seq(U) /\ b \in Seq(U) /\ c \in Seq(U)
  BY <1>1, <1>2, <1>3, SeqMonotonic
<1> HIDE DEF U
<1> QED
  BY <1>4, ConcatIsAssociative

-----------------------------------------------------------------------------
(* Calls that write items into a bracket.                                  *)

NestItem(nest) == IF nest = "object" THEN "object_value" ELSE "array_item"
Inside(j, nest) == Reads(j) /\ j.state \in {nest, NestItem(nest)}
Unmoved(j, k) == Reads(k) /\ k.nesting = j.nesting /\ k.lost = j.lost

\* A text that goes on after j.
Goes(t, j) == Continues(t, j) /\ Token(t, Here(j)) # ":"

\* Where the bracket ends that j is in.
Fin(t, nest, j) ==
  IF j.state = nest THEN Opened(t, BracketOf(nest), Here(j))
  ELSE AfterIn(t, Ends(t), BracketOf(nest), Here(j))

\* From j to k, "things" are read.
Passes(nest, j, k, things) ==
  \A t : Goes(t, k) =>
    /\ Goes(t, j) /\ Fin(t, nest, j) = Fin(t, nest, k)
    /\ IsSeq(ItemsOf(t)[Here(k)]) => ItemsOf(t)[Here(j)] = things \o ItemsOf(t)[Here(k)]

Run(nest, calls, things) ==
  /\ calls \in Seq(AllCalls) /\ IsSeq(things)
  /\ \A j : Inside(j, nest) =>
       LET k == Calling(j, calls)
       IN  Inside(k, nest) /\ Unmoved(j, k) /\ (~k.lost => Passes(nest, j, k, things))

LEMMA RunNothing ==
  ASSUME NEW nest
  PROVE  Run(nest, <<>>, <<>>)
<1>1. <<>> \in Seq(AllCalls) /\ IsSeq(<<>>)
  BY DEF IsSeq
<1>2. \A s : IsSeq(s) => <<>> \o s = s
  BY Concatenation
<1>3. ASSUME NEW j, Inside(j, nest)
      PROVE  LET k == Calling(j, <<>>)
             IN  Inside(k, nest) /\ Unmoved(j, k) /\ Passes(nest, j, k, <<>>)
  <2>1. Calling(j, <<>>) = j
    BY <1>3, CallingNothing DEF Inside
  <2>2. Passes(nest, j, j, <<>>)
    BY <1>2 DEF Passes
  <2>3. Unmoved(j, j)
    BY <1>3 DEF Unmoved, Inside
  <2> QED
    BY <1>3, <2>1, <2>2, <2>3
<1> QED
  BY <1>1, <1>3 DEF Run

LEMMA RunConcatenated ==
  ASSUME NEW nest, NEW a, NEW b, NEW x, NEW y, Run(nest, a, x), Run(nest, b, y)
  PROVE  Run(nest, a \o b, x \o y)
<1>1. a \in Seq(AllCalls) /\ b \in Seq(AllCalls) /\ IsSeq(x) /\ IsSeq(y)
  BY DEF Run
<1>2. a \o b \in Seq(AllCalls) /\ IsSeq(x \o y)
  BY <1>1, ConcatProperties, Concatenation
<1>3. ASSUME NEW j, Inside(j, nest)
      PROVE  LET k == Calling(j, a \o b)
             IN  Inside(k, nest) /\ Unmoved(j, k) /\ (~k.lost => Passes(nest, j, k, x \o y))
  <2> DEFINE m == Calling(j, a)
             k == Calling(m, b)
  <2>1. Calling(j, a \o b) = k
    BY <1>1, <1>3, CallingConcatenated DEF Inside
  <2>2. Inside(m, nest) /\ Unmoved(j, m) /\ (~m.lost => Passes(nest, j, m, x))
    BY <1>3 DEF Run
  <2> HIDE DEF m
  <2>3. Inside(k, nest) /\ Unmoved(m, k) /\ (~k.lost => Passes(nest, m, k, y))
    BY <2>2 DEF Run
  <2> HIDE DEF k
  <2>4. Unmoved(j, k)
    BY <2>2, <2>3 DEF Unmoved
  <2>5. ASSUME ~k.lost, NEW t, Goes(t, k)
        PROVE  /\ Goes(t, j) /\ Fin(t, nest, j) = Fin(t, nest, k)
               /\ IsSeq(ItemsOf(t)[Here(k)]) =>
                    ItemsOf(t)[Here(j)] = (x \o y) \o ItemsOf(t)[Here(k)]
    <3>1. /\ Goes(t, m) /\ Fin(t, nest, m) = Fin(t, nest, k)
          /\ IsSeq(ItemsOf(t)[Here(k)]) => ItemsOf(t)[Here(m)] = y \o ItemsOf(t)[Here(k)]
      BY <2>3, <2>5 DEF Passes
    <3>2. /\ Goes(t, j) /\ Fin(t, nest, j) = Fin(t, nest, m)
          /\ IsSeq(ItemsOf(t)[Here(m)]) => ItemsOf(t)[Here(j)] = x \o ItemsOf(t)[Here(m)]
      BY <2>2, <2>3, <2>5, <3>1 DEF Passes, Unmoved
    <3>3. ASSUME IsSeq(ItemsOf(t)[Here(k)])
          PROVE  ItemsOf(t)[Here(j)] = (x \o y) \o ItemsOf(t)[Here(k)]
      <4> DEFINE rest == ItemsOf(t)[Here(k)]
      <4>1. IsSeq(rest)
        BY <3>3
      <4>2. ItemsOf(t)[Here(m)] = y \o rest
        BY <3>1, <3>3
      <4> HIDE DEF rest
      <4>3. IsSeq(y \o rest)
        BY <1>1, <4>1, Concatenation, Zenon
      <4>5. IsAssociative(x, y, rest)
        BY <1>1, <4>1, Associativity, Zenon
      <4>4. ItemsOf(t)[Here(j)] = x \o (y \o rest)
        BY <3>2, <4>2, <4>3, Zenon
      <4> QED
        BY <4>4, <4>5, Zenon DEF rest, IsAssociative
    <3> QED
      BY <3>1, <3>2, <3>3
  <2>6. ~k.lost => Passes(nest, j, k, x \o y)
    BY <2>5 DEF Passes
  <2> QED
    BY <2>1, <2>3, <2>4, <2>6
<1> QED
  BY <1>2, <1>3 DEF Run

-----------------------------------------------------------------------------
(* Calls that write a value.                                               *)

\* The calls write one value wherever one can be, and r is what is read of it.
IsValue(calls, r) ==
  /\ calls \in Seq(AllCalls)
  /\ \A j : Reads(j) /\ j.state \in ValueStates =>
       LET k == Calling(j, calls)
           p == Here(Separated(j))
       IN  /\ Unmoved(j, k) /\ k.state = Outside(j.nesting)
           /\ ~k.lost => \A t : Goes(t, k) =>
                /\ Continues(t, Separated(j))
                /\ Token(t, p) \notin {",", ":", "]", "}"} /\ Token(t, p + 1) # ":"
                /\ ValueEnd(t, p) = Here(k) /\ ValueAt(t, p) = r

LEMMA ShortPunctuation == \A x \in Punctuation : x \in Tokens /\ Short(x)
BY WidthAssumption DEF Short, Tokens

\* A comma is never lost.
LEMMA SeparatedKept ==
  ASSUME NEW j, Reads(j)
  PROVE  /\ IsStream(Separated(j)) /\ SameState(j, Separated(j)) /\ Separated(j).lost = j.lost
         /\ Here(Separated(j)) \in Nat /\ Here(Separated(j)) # 0
<1>1. Short(",")
  BY ShortPunctuation DEF Punctuation
<1>2. IsStream(Separated(j)) /\ SameState(j, Separated(j)) /\ Separated(j).lost = j.lost
  BY <1>1, SeparatedStream DEF Reads, Short
<1> QED
  BY <1>2, HereTyped

LEMMA OneTyped == \A c \in AllCalls : <<c>> \in Seq(AllCalls)
OBVIOUS

LEMMA ScalarIsValue ==
  ASSUME NEW x \in Tokens \ Punctuation, Short(x), NEW c \in {Value(x), String(x)},
         c \in AllCalls
  PROVE  IsValue(<<c>>, x)
<1>1. <<c>> \in Seq(AllCalls)
  OBVIOUS
<1>2. ASSUME NEW j, Reads(j), j.state \in ValueStates
      PROVE  LET k == Calling(j, <<c>>)
                 p == Here(Separated(j))
             IN  /\ Unmoved(j, k) /\ k.state = Outside(j.nesting)
                 /\ ~k.lost => \A t : Goes(t, k) =>
                      /\ Continues(t, Separated(j))
                      /\ Token(t, p) \notin {",", ":", "]", "}"} /\ Token(t, p + 1) # ":"
                      /\ ValueEnd(t, p) = Here(k) /\ ValueAt(t, p) = x
  <2> DEFINE k == AsValue(j, x)
             s == Separated(j)
             p == Here(s)
  <2>1. Called(j, c) = k
    BY <1>2 DEF Called, Value, String, AsString, ValueStates
  <2>2. Calling(j, <<c>>) = k /\ Reads(k)
    BY <1>2, <2>1, CallingOne, CalledReads DEF ValueStates
  <2>3. k.state = Outside(j.nesting) /\ k.nesting = j.nesting /\ Puts(s, k, x)
    BY <1>2, ValuePuts DEF Reads
  <2>4. s.lost = j.lost /\ p \in Nat
    BY <1>2, SeparatedKept
  <2> HIDE DEF k, s
  <2>5. Unmoved(j, k)
    BY <2>2, <2>3, <2>4 DEF Unmoved, Puts
  <2>6. ASSUME ~k.lost, NEW t, Goes(t, k)
        PROVE  /\ Continues(t, s)
               /\ Token(t, p) \notin {",", ":", "]", "}"} /\ Token(t, p + 1) # ":"
               /\ ValueEnd(t, p) = Here(k) /\ ValueAt(t, p) = x
    <3>1. Continues(t, s) /\ Token(t, p) = x /\ t[p] = x /\ Here(k) = p + 1
      BY <2>3, <2>6 DEF Puts, Goes
    <3>2. ValueEnd(t, p) = p + 1
      BY <2>4, <3>1, ValueEndSteps DEF Continues
    <3>3. ValueAt(t, p) = x
      BY <3>1 DEF ValueAt, ReadFrom, Punctuation
    <3> QED
      BY <2>6, <3>1, <3>2, <3>3 DEF Goes, Punctuation
  <2> QED
    BY <2>2, <2>3, <2>5, <2>6 DEF s
<1> QED
  BY <1>1, <1>2 DEF IsValue

\* What is written between two brackets is what is read of the value.
LEMMA BracketIsValue ==
  ASSUME NEW nest \in Nests, NEW inner, NEW things, Run(nest, inner, things)
  PROVE  IsValue((<<<<"start", BracketOf(nest)>>>> \o inner)
                   \o <<<<"end", Closing(BracketOf(nest))>>>>, things)
<1> DEFINE of == BracketOf(nest)
           close == Closing(of)
           first == <<"start", of>>
           last == <<"end", close>>
<1>1. /\ of \in Brackets /\ NestOf(of) = nest /\ first \in AllCalls /\ last \in AllCalls
      /\ of \in Punctuation /\ close \in {"}", "]"} /\ close \in Punctuation
      /\ of # close /\ close # "," /\ close # ":" /\ of \notin {",", ":", "]", "}"}
  BY DEF BracketOf, Closing, Brackets, Nests, NestOf, AllCalls, ObjectStart, ObjectEnd,
         ArrayStart, ArrayEnd, Punctuation
<1>2. ASSUME NEW j PROVE Called(j, first) = Started(j, of) /\ Called(j, last) = Ended(j, close)
  BY DEF Called
<1> HIDE DEF of, close, first, last
<1> DEFINE a == <<first>>
           b == <<last>>
           ai == a \o inner
           calls == ai \o b
<1>3. a \in Seq(AllCalls) /\ b \in Seq(AllCalls) /\ inner \in Seq(AllCalls) /\ IsSeq(things)
  <2>1. a \in Seq(AllCalls) /\ b \in Seq(AllCalls)
    BY <1>1, OneTyped
  <2> QED
    BY <2>1 DEF Run
<1>4. ai \in Seq(AllCalls)
  <2> HIDE DEF a
  <2> QED
    BY <1>3, ConcatProperties
<1>5. calls \in Seq(AllCalls)
  <2> HIDE DEF ai, b
  <2> QED
    BY <1>3, <1>4, ConcatProperties
<1>6. Short(of) /\ Short(close)
  BY <1>1, ShortPunctuation
<1>7. ASSUME NEW j, Reads(j), j.state \in ValueStates
      PROVE  LET k == Calling(j, calls)
                 p == Here(Separated(j))
             IN  /\ Unmoved(j, k) /\ k.state = Outside(j.nesting)
                 /\ ~k.lost => \A t : Goes(t, k) =>
                      /\ Continues(t, Separated(j))
                      /\ Token(t, p) \notin {",", ":", "]", "}"} /\ Token(t, p + 1) # ":"
                      /\ ValueEnd(t, p) = Here(k) /\ ValueAt(t, p) = things
  <2> DEFINE s == Separated(j)
             p == Here(s)
             l == Started(j, of)
             m == Calling(l, inner)
             k == Ended(m, close)
  <2>1. s.lost = j.lost /\ p \in Nat
    BY <1>7, SeparatedKept
  <2>2. Calling(j, a) = l /\ Reads(l)
    BY <1>1, <1>2, <1>7, CallingOne, CalledReads DEF ValueStates
  <2>3. l.state = nest /\ l.nesting = Append(j.nesting, nest) /\ Puts(s, l, of)
    BY <1>1, <1>7, StartPuts DEF Reads
  <2>4. j.nesting \in Seq(Nests)
    BY <1>7 DEF Reads, IsStream, Streams
  <2>5. l.nesting # <<>> /\ Front(l.nesting) = j.nesting
    BY <2>3, <2>4, AppendedEnds
  <2>6. Calling(j, ai) = m
    <3> HIDE DEF a, l, m
    <3>1. Calling(j, a \o inner) = Calling(Calling(j, a), inner)
      BY <1>3, <1>7, CallingConcatenated
    <3> QED
      BY <2>2, <3>1 DEF m
  <2> HIDE DEF s, l
  <2>7. Inside(m, nest) /\ Unmoved(l, m) /\ (~m.lost => Passes(nest, l, m, things))
    BY <2>2, <2>3 DEF Run, Inside
  <2> HIDE DEF m
  <2>8. m.nesting # <<>> /\ Front(m.nesting) = j.nesting /\ m.state # "error" /\ IsStream(m)
    BY <2>5, <2>7 DEF Unmoved, Inside, NestItem, Nests, Reads
  <2>9. Calling(m, b) = k /\ Reads(k)
    BY <1>1, <1>2, <2>7, <2>8, CallingOne, CalledReads DEF Inside
  <2>10. Calling(j, calls) = k
    <3> HIDE DEF ai, b, k
    <3>1. Calling(j, ai \o b) = Calling(Calling(j, ai), b)
      BY <1>3, <1>4, <1>7, CallingConcatenated
    <3> QED
      BY <2>6, <2>9, <3>1
  <2>11. \/ of = "{" /\ m.state \in {"object", "object_value"}
         \/ of = "[" /\ m.state \in {"array", "array_item"}
    BY <2>7 DEF Inside, NestItem, of, BracketOf, Nests
  <2>12. k.state = Outside(j.nesting) /\ k.nesting = j.nesting /\ Puts(m, k, close)
    BY <1>1, <2>8, <2>11, EndPuts DEF close
  <2> HIDE DEF k
  <2>13. Unmoved(j, k)
    BY <1>6, <2>1, <2>3, <2>7, <2>9, <2>12 DEF Unmoved, Puts
  <2>14. ASSUME ~k.lost, NEW t, Goes(t, k)
         PROVE  /\ Continues(t, s)
                /\ Token(t, p) \notin {",", ":", "]", "}"} /\ Token(t, p + 1) # ":"
                /\ ValueEnd(t, p) = Here(k) /\ ValueAt(t, p) = things
    <3>1. /\ Continues(t, m) /\ Token(t, Here(m)) = close /\ Here(k) = Here(m) + 1
          /\ Token(t, Here(k)) # ":" /\ ~m.lost
      BY <2>12, <2>14 DEF Puts, Goes
    <3>2. Goes(t, m)
      BY <1>1, <3>1 DEF Goes
    <3>3. /\ Goes(t, l) /\ Fin(t, nest, l) = Fin(t, nest, m) /\ ~l.lost
          /\ IsSeq(ItemsOf(t)[Here(m)]) => ItemsOf(t)[Here(l)] = things \o ItemsOf(t)[Here(m)]
      BY <2>7, <3>1, <3>2 DEF Passes, Unmoved
    <3>4. /\ Continues(t, s) /\ Token(t, p) = of /\ t[p] = of /\ Here(l) = p + 1
          /\ Token(t, p + 1) # ":"
      BY <2>3, <3>3 DEF Puts, Goes
    <3>5. t \in Seq(Tokens) /\ Here(m) \in Nat /\ Here(m) # 0
      BY <2>8, <3>1, HereTyped DEF Continues
    <3>6. Fin(t, nest, m) = Here(m) + 1
      BY <1>1, <3>1, <3>5 DEF Fin, Opened, AfterIn, of, close
    <3>7. ValueEnd(t, p) = Here(k)
      <4>1. ValueEnd(t, p) = Opened(t, of, p + 1)
        BY <1>1, <2>1, <3>4, <3>5, ValueEndSteps
      <4>2. Fin(t, nest, l) = Opened(t, of, p + 1)
        BY <2>3, <3>4 DEF Fin, of
      <4> QED
        BY <3>1, <3>3, <3>6, <4>1, <4>2
    <3>8. ValueAt(t, p) = things
      <4>1. ItemsOf(t)[Here(m)] = <<>>
        BY <1>1, <3>1, <3>5, CloseRead
      <4>2. ItemsOf(t)[Here(l)] = things \o <<>>
        BY <3>3, <4>1 DEF IsSeq
      <4>3. things \o <<>> = things
        BY <1>3, Concatenation
      <4>4. ValueAt(t, p) = ItemsOf(t)[p + 1]
        BY <1>1, <3>4 DEF ValueAt, ReadFrom, Brackets
      <4> QED
        BY <3>4, <4>2, <4>3, <4>4
    <3> QED
      BY <1>1, <3>4, <3>7, <3>8
  <2> QED
    BY <2>10, <2>12, <2>13, <2>14 DEF s
<1>8. IsValue(calls, things)
  <2> HIDE DEF calls
  <2> QED
    BY <1>5, <1>7 DEF IsValue
<1> QED
  BY <1>8 DEF of, close, first, last

-----------------------------------------------------------------------------
(* The items of an array and the members of an object.                     *)

LEMMA ItemRuns ==
  ASSUME NEW calls, NEW r, IsValue(calls, r)
  PROVE  Run("array", calls, <<r>>)
<1>1. calls \in Seq(AllCalls) /\ IsSeq(<<r>>)
  <2>1. <<r>> \in Seq({r})
    OBVIOUS
  <2> QED
    BY <2>1 DEF IsValue, IsSeq
<1>2. ASSUME NEW j, Inside(j, "array")
      PROVE  LET k == Calling(j, calls)
             IN  Inside(k, "array") /\ Unmoved(j, k) /\ (~k.lost => Passes("array", j, k, <<r>>))
  <2> DEFINE k == Calling(j, calls)
             s == Separated(j)
             p == Here(s)
  <2>1. Reads(j) /\ j.state \in {"array", "array_item"} /\ IsStream(j)
    BY <1>2 DEF Inside, NestItem, Reads
  <2>2. /\ Unmoved(j, k) /\ k.state = Outside(j.nesting)
        /\ ~k.lost => \A t : Goes(t, k) =>
             /\ Continues(t, s)
             /\ Token(t, p) \notin {",", ":", "]", "}"} /\ Token(t, p + 1) # ":"
             /\ ValueEnd(t, p) = Here(k) /\ ValueAt(t, p) = r
    BY <2>1, Zenon DEF IsValue, ValueStates
  <2>3. s.lost = j.lost /\ p \in Nat
    BY <2>1, SeparatedKept
  <2>4. k.state = "array_item"
    BY <2>1, <2>2 DEF Reads, Nested, Outside
  <2>5. /\ j.state = "array" => s = j
        /\ j.state = "array_item" => Puts(j, s, ",")
    BY <2>1, SeparatedPuts
  <2>6. Here(j) \in Nat
    BY <2>1, HereTyped
  <2> HIDE DEF k, s
  <2>7. Here(k) \in Nat /\ Here(k) # 0
    BY <2>2, HereTyped DEF Unmoved, Reads
  <2>8. ASSUME ~k.lost, NEW t, Goes(t, k)
        PROVE  /\ Goes(t, j) /\ Fin(t, "array", j) = Fin(t, "array", k)
               /\ IsSeq(ItemsOf(t)[Here(k)]) =>
                    ItemsOf(t)[Here(j)] = <<r>> \o ItemsOf(t)[Here(k)]
    <3>1. /\ Continues(t, s)
          /\ Token(t, p) \notin {",", ":", "]", "}"} /\ Token(t, p + 1) # ":"
          /\ ValueEnd(t, p) = Here(k) /\ ValueAt(t, p) = r
      BY <2>2, <2>8
    <3>2. t \in Seq(Tokens)
      BY <3>1 DEF Continues
    <3>3. ItemsOf(t)[p] = <<r>> \o ItemsOf(t)[Here(k)]
      BY <2>3, <2>7, <3>1, <3>2, ItemRead
    <3>4. Ends(t)["["][p] = AfterIn(t, Ends(t), "[", Here(k))
      BY <2>3, <3>1, <3>2, ValueEndSteps
    <3>5. Fin(t, "array", k) = AfterIn(t, Ends(t), "[", Here(k))
      BY <2>4 DEF Fin, BracketOf
    <3>6. CASE j.state = "array"
      <4>1. p = Here(j) /\ Goes(t, j)
        BY <2>5, <3>1, <3>6 DEF Goes
      <4>2. Fin(t, "array", j) = Ends(t)["["][p]
        BY <3>1, <3>6, <4>1 DEF Fin, BracketOf, Opened, Closing
      <4> QED
        BY <3>3, <3>4, <3>5, <4>1, <4>2
    <3>7. CASE j.state = "array_item"
      <4>1. Token(t, Here(j)) = "," /\ p = Here(j) + 1 /\ Goes(t, j)
        BY <2>2, <2>3, <2>5, <2>8, <3>1, <3>7 DEF Goes, Puts, Unmoved
      <4>2. Fin(t, "array", j) = Ends(t)["["][p]
        BY <2>1, <2>6, <3>7, <4>1, HereTyped DEF Fin, BracketOf, AfterIn
      <4>3. ItemsOf(t)[Here(j)] = ItemsOf(t)[p]
        BY <2>6, <3>2, <4>1, CommaRead
      <4> QED
        BY <3>3, <3>4, <3>5, <4>1, <4>2, <4>3
    <3> QED
      BY <2>1, <3>6, <3>7
  <2>9. ~k.lost => Passes("array", j, k, <<r>>)
    BY <2>8 DEF Passes
  <2>10. Inside(k, "array")
    BY <2>2, <2>4 DEF Inside, NestItem, Unmoved
  <2> QED
    BY <2>2, <2>9, <2>10 DEF k
<1> QED
  BY <1>1, <1>2 DEF Run

LEMMA MemberRuns ==
  ASSUME NEW key \in Tokens \ (Punctuation \cup Literals), Short(key),
         NEW calls, NEW r, IsValue(calls, r)
  PROVE  Run("object", <<String(key)>> \o calls, << <<key, r>> >>)
<1> DEFINE c == String(key)
           a == <<c>>
           ac == a \o calls
           item == <<key, r>>
<1>1. c \in AllCalls /\ \A j : j.state \notin ValueStates => Called(j, c) = AsString(j, key)
  BY DEF AllCalls, Called, String
<1> HIDE DEF c, item
<1>2. a \in Seq(AllCalls) /\ calls \in Seq(AllCalls)
  BY <1>1, OneTyped DEF IsValue
<1>3. ac \in Seq(AllCalls) /\ IsSeq(<<item>>)
  <2>1. <<item>> \in Seq({item})
    OBVIOUS
  <2> HIDE DEF a
  <2>2. ac \in Seq(AllCalls)
    BY <1>2, ConcatProperties
  <2> QED
    BY <2>1, <2>2 DEF IsSeq
<1>4. Short(":")
  BY ShortPunctuation DEF Punctuation
<1>5. ASSUME NEW j, Inside(j, "object")
      PROVE  LET k == Calling(j, ac)
             IN  /\ Inside(k, "object") /\ Unmoved(j, k)
                 /\ ~k.lost => Passes("object", j, k, <<item>>)
  <2> DEFINE s == Separated(j)
             q == Here(s)
             m == AsString(j, key)
             k == Calling(m, calls)
             p == Here(m)
  <2>1. Reads(j) /\ j.state \in {"object", "object_value"} /\ IsStream(j)
    BY <1>5 DEF Inside, NestItem, Reads
  <2>2. Calling(j, a) = m /\ Reads(m)
    BY <1>1, <2>1, CallingOne, CalledReads DEF ValueStates
  <2>3. m.state = "object_key" /\ m.nesting = j.nesting
    BY <2>1, KeyPuts
  <2>4. PICK l : Puts(s, l, key) /\ Puts(l, m, ":")
    BY <2>1, KeyPuts
  <2>5. s.lost = j.lost /\ q \in Nat /\ q # 0
    BY <2>1, SeparatedKept
  <2>6. Calling(j, ac) = k
    <3> HIDE DEF a, m
    <3>1. Calling(j, a \o calls) = Calling(Calling(j, a), calls)
      BY <1>2, <2>1, CallingConcatenated
    <3> QED
      BY <2>2, <3>1
  <2>7. Separated(m) = m
    BY <2>3 DEF Separated
  <2> HIDE DEF m
  <2>8. /\ Unmoved(m, k) /\ k.state = Outside(m.nesting)
        /\ ~k.lost => \A t : Goes(t, k) =>
             /\ Continues(t, Separated(m))
             /\ ValueEnd(t, Here(Separated(m))) = Here(k) /\ ValueAt(t, Here(Separated(m))) = r
    BY <2>2, <2>3, Zenon DEF IsValue, ValueStates
  <2>9. ~k.lost => \A t : Goes(t, k) =>
          Continues(t, m) /\ ValueEnd(t, p) = Here(k) /\ ValueAt(t, p) = r
    BY <2>7, <2>8
  <2>10. k.state = "object_value"
    BY <2>1, <2>3, <2>8 DEF Reads, Nested, Outside
  <2>11. /\ j.state = "object" => s = j
         /\ j.state = "object_value" => Puts(j, s, ",")
    BY <2>1, SeparatedPuts
  <2>12. Here(j) \in Nat /\ Here(j) # 0
    BY <2>1, HereTyped
  <2>13. Unmoved(j, k)
    BY <1>4, <2>3, <2>4, <2>5, <2>8 DEF Unmoved, Puts
  <2> HIDE DEF k, s
  <2>14. Here(k) \in Nat /\ Here(k) # 0
    BY <2>8, HereTyped DEF Unmoved, Reads
  <2>15. ASSUME ~k.lost, NEW t, Goes(t, k)
         PROVE  /\ Goes(t, j) /\ Fin(t, "object", j) = Fin(t, "object", k)
                /\ IsSeq(ItemsOf(t)[Here(k)]) =>
                     ItemsOf(t)[Here(j)] = <<item>> \o ItemsOf(t)[Here(k)]
    <3>1. Continues(t, m) /\ ValueEnd(t, p) = Here(k) /\ ValueAt(t, p) = r /\ ~m.lost
      BY <2>8, <2>9, <2>15 DEF Unmoved
    <3>2. Continues(t, l) /\ Token(t, Here(l)) = ":" /\ p = Here(l) + 1 /\ ~l.lost
      BY <2>4, <3>1 DEF Puts
    <3>3. /\ Continues(t, s) /\ Token(t, q) = key /\ t[q] = key /\ Here(l) = q + 1
      BY <2>4, <3>2 DEF Puts
    <3>4. t \in Seq(Tokens) /\ Token(t, q + 1) = ":" /\ p = q + 2
      BY <2>5, <3>2, <3>3 DEF Continues
    <3>5. key \notin {",", ":", "}"}
      BY DEF Punctuation
    <3>6. ItemsOf(t)[q] = <<item>> \o ItemsOf(t)[Here(k)]
      BY <2>5, <2>14, <3>1, <3>3, <3>4, <3>5, MemberRead, ZenonT(40) DEF item
    <3>7. IsKey(t, q)
      BY <3>3, <3>4 DEF IsKey
    <3>8. Ends(t)["{"][q] = AfterIn(t, Ends(t), "{", Here(k))
      <4>1. t \in Seq(Tokens) /\ q \in Nat /\ q + 2 = p
        BY <2>5, <3>4
      <4>2. Ends(t)["{"][q] = AfterIn(t, Ends(t), "{", ValueEnd(t, q + 2))
        BY <3>7, <4>1, ValueEndSteps, Zenon
      <4> QED
        BY <3>1, <4>1, <4>2, Zenon
    <3>9. Fin(t, "object", k) = AfterIn(t, Ends(t), "{", Here(k))
      BY <2>10 DEF Fin, BracketOf
    <3>10. CASE j.state = "object"
      <4>1. q = Here(j) /\ Goes(t, j)
        BY <2>11, <3>3, <3>5, <3>10 DEF Goes
      <4>2. Fin(t, "object", j) = Ends(t)["{"][q]
        BY <3>3, <3>5, <3>10, <4>1 DEF Fin, BracketOf, Opened, Closing
      <4> QED
        BY <3>6, <3>8, <3>9, <4>1, <4>2
    <3>11. CASE j.state = "object_value"
      <4>1. Token(t, Here(j)) = "," /\ q = Here(j) + 1 /\ Goes(t, j)
        BY <2>5, <2>11, <2>13, <2>15, <3>3, <3>11 DEF Goes, Puts, Unmoved
      <4>2. Fin(t, "object", j) = Ends(t)["{"][q]
        BY <2>12, <3>11, <4>1 DEF Fin, BracketOf, AfterIn
      <4>3. ItemsOf(t)[Here(j)] = ItemsOf(t)[q]
        BY <2>12, <3>4, <4>1, CommaRead
      <4> QED
        BY <3>6, <3>8, <3>9, <4>1, <4>2, <4>3
    <3> QED
      BY <2>1, <3>10, <3>11
  <2>16. ~k.lost => Passes("object", j, k, <<item>>)
    BY <2>15 DEF Passes
  <2>17. Inside(k, "object")
    BY <2>8, <2>10 DEF Inside, NestItem, Unmoved
  <2> QED
    BY <2>6, <2>13, <2>16, <2>17 DEF k
<1>6. Run("object", ac, <<item>>)
  <2> HIDE DEF ac
  <2> QED
    BY <1>3, <1>5 DEF Run
<1> QED
  BY <1>6 DEF c, item

-----------------------------------------------------------------------------
(* Lists.                                                                  *)

\* Rows of one thing each.
LEMMA RowsRun ==
  ASSUME NEW nest, NEW N \in Nat, NEW pieces, IsRow(pieces, N),
         NEW r, IsRow(r, N), \A i \in 1 .. N : Run(nest, pieces[i], <<r[i]>>)
  PROVE  Run(nest, FlattenSeq(pieces), r)
<1> DEFINE up(n) == [i \in 1 .. n |-> r[i]]
<1>1. \A i \in 1 .. N : pieces[i] \in Seq(AllCalls)
  BY DEF Run
<1>6. PICK flat : IsFlattening(flat, pieces, N)
  BY <1>1, FlattenPieces
<1>2. /\ FlattenSeq(pieces) = flat[N] /\ flat[0] = <<>>
      /\ \A n \in 1 .. N : flat[n] = flat[n - 1] \o pieces[n]
  BY <1>6 DEF IsFlattening
<1> DEFINE D == {n \in 0 .. N : Run(nest, flat[n], up(n))}
<1>3. 0 \in D
  <2>1. up(0) = <<>>
    OBVIOUS
  <2> QED
    BY <1>2, <2>1, RunNothing
<1>4. ASSUME NEW n \in 0 .. N - 1, n \in D PROVE n + 1 \in D
  <2>1. PICK i \in 1 .. N : i = n + 1 /\ i - 1 = n /\ i \in 0 .. N
    <3>1. n + 1 \in 1 .. N /\ n + 1 - 1 = n /\ n + 1 \in 0 .. N
      OBVIOUS
    <3> QED
      BY <3>1
  <2>2. up(i) = up(n) \o <<r[i]>>
    BY <2>1
  <2>3. /\ flat[i] = flat[n] \o pieces[i]
        /\ Run(nest, pieces[i], <<r[i]>>) /\ Run(nest, flat[n], up(n))
    BY <1>2, <1>4, <2>1
  <2> HIDE DEF up
  <2>4. Run(nest, flat[n] \o pieces[i], up(n) \o <<r[i]>>)
    BY <2>3, RunConcatenated
  <2>5. Run(nest, flat[i], up(i))
    BY <2>2, <2>3, <2>4, Zenon
  <2> QED
    BY <2>1, <2>5
<1>5. N \in D /\ up(N) = r
  <2> HIDE DEF D
  <2>1. N \in D
    BY <1>3, <1>4, InductionUpTo DEF IsInductive
  <2> QED
    BY <2>1 DEF IsRow
<1> QED
  BY <1>2, <1>5

LEMMA ToSetConcatenated ==
  ASSUME NEW a, IsSeq(a), NEW b, IsSeq(b)
  PROVE  ToSet(a \o b) = ToSet(a) \cup ToSet(b)
<1>1. PICK A : a \in Seq(A)
  BY DEF IsSeq
<1>2. PICK B : b \in Seq(B)
  BY DEF IsSeq
<1> DEFINE U == A \cup B
<1>3. a \in Seq(U) /\ b \in Seq(U)
  BY <1>1, <1>2, SeqMonotonic
<1> HIDE DEF U
<1> DEFINE c == a \o b
<1>4. /\ Len(a) \in Nat /\ Len(b) \in Nat /\ DOMAIN c = 1 .. Len(a) + Len(b)
      /\ DOMAIN a = 1 .. Len(a) /\ DOMAIN b = 1 .. Len(b)
      /\ \A i \in 1 .. Len(a) : i \in DOMAIN c /\ c[i] = a[i]
      /\ \A i \in 1 .. Len(b) : Len(a) + i \in DOMAIN c /\ c[Len(a) + i] = b[i]
      /\ \A i \in DOMAIN c : i \in DOMAIN a \/ (i - Len(a) \in DOMAIN b /\ c[i] = b[i - Len(a)])
  BY <1>3
<1> HIDE DEF c
<1>5. ToSet(c) = ToSet(a) \cup ToSet(b)
  <2>1. ASSUME NEW x \in ToSet(a) PROVE x \in ToSet(c)
    BY <1>4 DEF ToSet
  <2>2. ASSUME NEW x \in ToSet(b) PROVE x \in ToSet(c)
    BY <1>4 DEF ToSet
  <2>3. ASSUME NEW x \in ToSet(c) PROVE x \in ToSet(a) \/ x \in ToSet(b)
    <3>1. PICK i \in DOMAIN c : x = c[i]
      BY DEF ToSet
    <3>2. CASE i \in DOMAIN a
      BY <1>4, <3>1, <3>2 DEF ToSet
    <3>3. CASE i - Len(a) \in DOMAIN b /\ c[i] = b[i - Len(a)]
      BY <3>1, <3>3 DEF ToSet
    <3> QED
      BY <1>4, <3>2, <3>3
  <2> QED
    BY <2>1, <2>2, <2>3
<1> QED
  BY <1>5 DEF c

\* Pieces of any number of things: what they are, in no order.
Gathers(things, r, n) == ToSet(things) = UNION {ToSet(r[i]) : i \in 1 .. n}

LEMMA PiecesRun ==
  ASSUME NEW nest, NEW N \in Nat, NEW pieces, IsRow(pieces, N),
         NEW r, \A i \in 1 .. N : Run(nest, pieces[i], r[i])
  PROVE  \E things : Run(nest, FlattenSeq(pieces), things) /\ Gathers(things, r, N)
<1> DEFINE All(n) == UNION {ToSet(r[i]) : i \in 1 .. n}
<1>1. \A i \in 1 .. N : pieces[i] \in Seq(AllCalls) /\ IsSeq(r[i])
  BY DEF Run
<1>0. ToSet(<<>>) = {} /\ All(0) = {}
  BY DEF ToSet
<1>6. PICK flat : IsFlattening(flat, pieces, N)
  BY <1>1, FlattenPieces
<1>2. /\ FlattenSeq(pieces) = flat[N] /\ flat[0] = <<>>
      /\ \A n \in 1 .. N : flat[n] = flat[n - 1] \o pieces[n]
  BY <1>6 DEF IsFlattening
<1> DEFINE D == {n \in 0 .. N : \E x : Run(nest, flat[n], x) /\ ToSet(x) = All(n)}
<1>3. 0 \in D
  <2>1. Run(nest, flat[0], <<>>)
    BY <1>2, RunNothing
  <2>2. ToSet(<<>>) = All(0) /\ 0 \in 0 .. N
    BY <1>0, <1>1
  <2> HIDE DEF All
  <2> QED
    BY <2>1, <2>2, Zenon
<1>4. ASSUME NEW n \in 0 .. N - 1, n \in D PROVE n + 1 \in D
  <2>1. PICK i \in 1 .. N : i = n + 1 /\ i - 1 = n /\ i \in 0 .. N
    <3>1. n + 1 \in 1 .. N /\ n + 1 - 1 = n /\ n + 1 \in 0 .. N
      OBVIOUS
    <3> QED
      BY <3>1
  <2>2. All(i) = All(n) \cup ToSet(r[i])
    <3>1. 1 .. i = (1 .. n) \cup {i}
      BY <2>1
    <3> QED
      BY <3>1
  <2>3. flat[i] = flat[n] \o pieces[i] /\ Run(nest, pieces[i], r[i])
    BY <1>2, <2>1
  <2>4. PICK x : Run(nest, flat[n], x) /\ ToSet(x) = All(n)
    BY <1>4
  <2> HIDE DEF All
  <2>5. Run(nest, flat[i], x \o r[i])
    BY <2>3, <2>4, RunConcatenated
  <2>6. ToSet(x \o r[i]) = All(i)
    BY <2>2, <2>3, <2>4, ToSetConcatenated DEF Run
  <2> QED
    BY <2>1, <2>5, <2>6
<1>5. N \in D
  <2> HIDE DEF D
  <2> QED
    BY <1>3, <1>4, InductionUpTo DEF IsInductive
<1> QED
  BY <1>2, <1>5 DEF Gathers

-----------------------------------------------------------------------------
(* Objects: members of different names.                                    *)

Distinct(object) == \A i, k \in DOMAIN object : object[i][1] = object[k][1] => i = k

LEMMA KeysConcatenated ==
  ASSUME NEW a, IsSeq(a), NEW b, IsSeq(b)
  PROVE  /\ Keys(a \o b) = Keys(a) \cup Keys(b)
         /\ Distinct(a) /\ Distinct(b) /\ Keys(a) \cap Keys(b) = {} =>
              /\ Distinct(a \o b)
              /\ \A key \in Keys(a) : At(a \o b, key) = At(a, key)
              /\ \A key \in Keys(b) : At(a \o b, key) = At(b, key)
<1>1. PICK A : a \in Seq(A)
  BY DEF IsSeq
<1>2. PICK B : b \in Seq(B)
  BY DEF IsSeq
<1> DEFINE U == A \cup B
<1>3. a \in Seq(U) /\ b \in Seq(U)
  BY <1>1, <1>2, SeqMonotonic
<1> HIDE DEF U
<1> DEFINE c == a \o b
           M == Len(a)
           N == Len(b)
<1>4. /\ M \in Nat /\ N \in Nat /\ DOMAIN c = 1 .. M + N
      /\ DOMAIN a = 1 .. M /\ DOMAIN b = 1 .. N
      /\ \A i \in 1 .. M : c[i] = a[i]
      /\ \A i \in 1 .. N : c[M + i] = b[i]
  BY <1>3
<1> HIDE DEF c, M, N
<1>5. /\ \A i \in 1 .. M : i \in 1 .. M + N
      /\ \A i \in 1 .. N : M + i \in 1 .. M + N
      /\ \A i \in 1 .. M + N : i \in 1 .. M \/ \E k \in 1 .. N : i = M + k
  <2>1. ASSUME NEW i \in 1 .. M + N, i \notin 1 .. M PROVE \E k \in 1 .. N : i = M + k
    <3> DEFINE k == i - M
    <3>1. k \in 1 .. N /\ i = M + k
      BY <1>4, <2>1
    <3> HIDE DEF k
    <3> QED
      BY <3>1
  <2> QED
    BY <1>4, <2>1
<1>6. Keys(c) = Keys(a) \cup Keys(b)
  <2>1. ASSUME NEW x \in Keys(c) PROVE x \in Keys(a) \/ x \in Keys(b)
    <3>1. PICK i \in 1 .. M + N : x = c[i][1]
      BY <1>4 DEF Keys
    <3>2. CASE i \in 1 .. M
      BY <1>4, <3>1, <3>2 DEF Keys
    <3>3. CASE \E k \in 1 .. N : i = M + k
      BY <1>4, <3>1, <3>3 DEF Keys
    <3> QED
      BY <1>5, <3>2, <3>3
  <2>2. ASSUME NEW x \in Keys(a) PROVE x \in Keys(c)
    BY <1>4, <1>5 DEF Keys
  <2>3. ASSUME NEW x \in Keys(b) PROVE x \in Keys(c)
    BY <1>4, <1>5 DEF Keys
  <2> QED
    BY <2>1, <2>2, <2>3
<1>7. ASSUME Distinct(a), Distinct(b), Keys(a) \cap Keys(b) = {}
      PROVE  Distinct(c)
  <2>1. ASSUME NEW i \in 1 .. M + N, NEW k \in 1 .. M + N, c[i][1] = c[k][1] PROVE i = k
    <3>1. ASSUME NEW p \in 1 .. M, NEW q \in 1 .. N, c[p][1] = c[M + q][1] PROVE FALSE
      <4>1. a[p][1] \in Keys(a) /\ b[q][1] \in Keys(b) /\ a[p][1] = b[q][1]
        BY <1>4, <3>1 DEF Keys
      <4> QED
        BY <1>7, <4>1
    <3>2. CASE i \in 1 .. M /\ k \in 1 .. M
      <4>1. a[i][1] = a[k][1] /\ i \in DOMAIN a /\ k \in DOMAIN a
        BY <1>4, <2>1, <3>2
      <4> QED
        BY <1>7, <4>1, Zenon DEF Distinct
    <3>3. CASE i \notin 1 .. M /\ k \notin 1 .. M
      <4>1. PICK p \in 1 .. N, q \in 1 .. N : i = M + p /\ k = M + q
        BY <1>5, <3>3
      <4>2. b[p][1] = b[q][1]
        BY <1>4, <2>1, <4>1
      <4>3. p = q
        BY <1>4, <1>7, <4>2 DEF Distinct
      <4> QED
        BY <4>1, <4>3
    <3>4. CASE i \in 1 .. M /\ k \notin 1 .. M
      BY <1>5, <2>1, <3>1, <3>4
    <3>5. CASE i \notin 1 .. M /\ k \in 1 .. M
      BY <1>5, <2>1, <3>1, <3>5
    <3> QED
      BY <3>2, <3>3, <3>4, <3>5
  <2> QED
    BY <1>4, <2>1 DEF Distinct
<1>8. \A s, i : Distinct(s) /\ i \in DOMAIN s => At(s, s[i][1]) = s[i][2]
  <2>1. ASSUME NEW s, NEW i, Distinct(s), i \in DOMAIN s PROVE At(s, s[i][1]) = s[i][2]
    <3> DEFINE key == s[i][1]
               k == CHOOSE m \in DOMAIN s : s[m][1] = key
    <3>1. k \in DOMAIN s /\ s[k][1] = key
      BY <2>1
    <3>2. k = i
      BY <2>1, <3>1 DEF Distinct
    <3>3. At(s, key) = s[k][2]
      BY DEF At
    <3> HIDE DEF k
    <3> QED
      BY <3>2, <3>3
  <2> QED
    BY <2>1
<1>9. ASSUME Distinct(a), Distinct(b), Keys(a) \cap Keys(b) = {}
      PROVE  /\ \A key \in Keys(a) : At(c, key) = At(a, key)
             /\ \A key \in Keys(b) : At(c, key) = At(b, key)
  <2>1. ASSUME NEW key \in Keys(a) PROVE At(c, key) = At(a, key)
    <3>1. PICK i \in 1 .. M : key = a[i][1]
      BY <1>4 DEF Keys
    <3>2. i \in DOMAIN c /\ c[i] = a[i] /\ i \in DOMAIN a
      BY <1>4, <1>5
    <3> QED
      BY <1>7, <1>8, <1>9, <3>1, <3>2
  <2>2. ASSUME NEW key \in Keys(b) PROVE At(c, key) = At(b, key)
    <3>1. PICK i \in 1 .. N : key = b[i][1]
      BY <1>4 DEF Keys
    <3>2. M + i \in DOMAIN c /\ c[M + i] = b[i] /\ i \in DOMAIN b
      BY <1>4, <1>5
    <3> QED
      BY <1>7, <1>8, <1>9, <3>1, <3>2
  <2> QED
    BY <2>1, <2>2
<1> QED
  BY <1>6, <1>7, <1>9 DEF c

LEMMA DistinctIsObject ==
  ASSUME NEW a, IsSeq(a), Distinct(a)
  PROVE  IsObject(a)
<1>1. PICK A : a \in Seq(A)
  BY DEF IsSeq
<1> DEFINE N == Len(a)
           f == [i \in 1 .. N |-> a[i][1]]
<1>2. N \in Nat /\ DOMAIN a = 1 .. N
  BY <1>1
<1> HIDE DEF N
<1>3. ExistsBijection(1 .. N, Keys(a))
  <2>1. f \in [1 .. N -> Keys(a)]
    BY <1>2 DEF Keys
  <2>2. \A i, k \in 1 .. N : f[i] = f[k] => i = k
    BY <1>2 DEF Distinct
  <2>3. \A x \in Keys(a) : \E i \in 1 .. N : f[i] = x
    BY <1>2 DEF Keys
  <2> HIDE DEF f
  <2> QED
    BY <2>1, <2>2, <2>3 DEF ExistsBijection, Bijection, Injection, Surjection, IsInjective
<1>4. IsFiniteSet(1 .. N) /\ Cardinality(1 .. N) = N
  <2>1. 1 \in Int /\ N \in Int /\ 1 <= N + 1 /\ N - 1 + 1 = N
    BY <1>2
  <2> QED
    BY <1>2, <2>1, FS_Interval
<1>5. Cardinality(Keys(a)) = Cardinality(1 .. N)
  <2> HIDE DEF f
  <2> QED
    BY <1>3, <1>4, FS_Bijection
<1> QED
  BY <1>4, <1>5 DEF IsObject, N

-----------------------------------------------------------------------------
(* What the handlers put together.                                         *)

LEMMA NamesTyped ==
  ASSUME NEW x \in Names
  PROVE  x \in Tokens \ (Punctuation \cup Literals) /\ Short(x) /\ IsValue(<<String(x)>>, x)
<1>1. x \in Tokens \ (Punctuation \cup Literals) /\ Short(x)
  BY WidthAssumption, AnswersAssumption DEF Tokens, Short
<1>2. String(x) \in AllCalls
  BY <1>1 DEF AllCalls
<1> QED
  BY <1>1, <1>2, ScalarIsValue

LEMMA OthersTyped ==
  ASSUME NEW x \in Others
  PROVE  IsValue(<<Value(x)>>, x)
<1>1. x \in Tokens \ Punctuation /\ Short(x)
  BY WidthAssumption, AnswersAssumption DEF Tokens, Short
<1>2. Value(x) \in AllCalls
  BY <1>1 DEF AllCalls
<1> QED
  BY <1>1, <1>2, ScalarIsValue

\* The calls write the members P, with names of K.
Members(calls, P, K) ==
  Run("object", calls, P) /\ Distinct(P) /\ Keys(P) \subseteq K

LEMMA MembersNothing == \A K : Members(<<>>, <<>>, K)
<1>1. Distinct(<<>>) /\ Keys(<<>>) = {}
  BY DEF Distinct, Keys
<1>2. Run("object", <<>>, <<>>)
  BY RunNothing
<1> QED
  BY <1>1, <1>2 DEF Members

\* The members of P are among those of S.
Holds(S, P) == Keys(P) \subseteq Keys(S) /\ \A key \in Keys(P) : At(S, key) = At(P, key)

Adds(S, P, Q) == Keys(S) = Keys(P) \cup Keys(Q) /\ Holds(S, P) /\ Holds(S, Q)

LEMMA MembersConcatenated ==
  ASSUME NEW a, NEW b, NEW P, NEW Q, NEW K, NEW L, Members(a, P, K), Members(b, Q, L),
         K \cap L = {}
  PROVE  Members(a \o b, P \o Q, K \cup L) /\ Adds(P \o Q, P, Q)
<1>1. IsSeq(P) /\ IsSeq(Q) /\ Distinct(P) /\ Distinct(Q) /\ Keys(P) \cap Keys(Q) = {}
  BY DEF Members, Run
<1>2. Run("object", a \o b, P \o Q)
  BY RunConcatenated DEF Members
<1> QED
  BY <1>1, <1>2, KeysConcatenated DEF Members, Adds, Holds

LEMMA OneMember ==
  ASSUME NEW key \in Names, NEW calls, NEW r, IsValue(calls, r)
  PROVE  \E P : /\ Members(<<String(key)>> \o calls, P, {key})
                /\ Keys(P) = {key} /\ At(P, key) = r
<1> DEFINE P == << <<key, r>> >>
<1>1. DOMAIN P = {1} /\ P[1][1] = key /\ P[1][2] = r
  OBVIOUS
<1>2. Run("object", <<String(key)>> \o calls, P)
  BY NamesTyped, MemberRuns
<1> HIDE DEF P
<1>3. Keys(P) = {key} /\ Distinct(P) /\ At(P, key) = r
  <2>1. (CHOOSE i \in DOMAIN P : P[i][1] = key) = 1
    BY <1>1
  <2> QED
    BY <1>1, <2>1 DEF Keys, Distinct, At
<1> QED
  BY <1>2, <1>3 DEF Members

LEMMA MemberIs ==
  ASSUME NEW key \in Names, NEW x \in Others
  PROVE  \E P : Members(Member(key, x), P, {key}) /\ Keys(P) = {key} /\ At(P, key) = x
<1>1. Member(key, x) = <<String(key)>> \o <<Value(x)>>
  BY DEF Member
<1>2. IsValue(<<Value(x)>>, x)
  BY OthersTyped
<1> DEFINE calls == <<Value(x)>>
<1> HIDE DEF calls
<1>3. \E P : /\ Members(<<String(key)>> \o calls, P, {key})
             /\ Keys(P) = {key} /\ At(P, key) = x
  BY <1>2, OneMember DEF calls
<1> QED
  BY <1>1, <1>3 DEF calls

LEMMA StringMemberIs ==
  ASSUME NEW key \in Names, NEW x \in Names
  PROVE  \E P : Members(StringMember(key, x), P, {key}) /\ Keys(P) = {key} /\ At(P, key) = x
<1>1. StringMember(key, x) = <<String(key)>> \o <<String(x)>>
  BY DEF StringMember
<1>2. IsValue(<<String(x)>>, x)
  BY NamesTyped
<1> DEFINE calls == <<String(x)>>
<1> HIDE DEF calls
<1>3. \E P : /\ Members(<<String(key)>> \o calls, P, {key})
             /\ Keys(P) = {key} /\ At(P, key) = x
  BY <1>2, OneMember DEF calls
<1> QED
  BY <1>1, <1>3 DEF calls

LEMMA ListIs ==
  ASSUME NEW key \in Names, NEW items, NEW r, Run("array", FlattenSeq(items), r)
  PROVE  \E P : Members(List(key, items), P, {key}) /\ Keys(P) = {key} /\ At(P, key) = r
<1> DEFINE inner == FlattenSeq(items)
           k == <<String(key)>>
           a == <<ArrayStart>>
           b == <<ArrayEnd>>
           calls == (a \o inner) \o b
<1>1. IsValue(calls, r)
  <2>1. "array" \in Nests /\ BracketOf("array") = "[" /\ Closing("[") = "]"
    BY DEF Nests, BracketOf, Closing
  <2> HIDE DEF inner
  <2>2. IsValue((<<<<"start", BracketOf("array")>>>> \o inner)
                  \o <<<<"end", Closing(BracketOf("array"))>>>>, r)
    BY <2>1, BracketIsValue DEF inner
  <2> QED
    BY <2>1, <2>2 DEF ArrayStart, ArrayEnd
<1>2. String(key) \in AllCalls
  BY NamesTyped DEF AllCalls
<1>3. inner \in Seq(AllCalls) /\ k \in Seq(AllCalls) /\ a \in Seq(AllCalls) /\ b \in Seq(AllCalls)
  <2>1. ArrayStart \in AllCalls /\ ArrayEnd \in AllCalls
    BY DEF AllCalls
  <2>2. k \in Seq(AllCalls) /\ a \in Seq(AllCalls) /\ b \in Seq(AllCalls)
    BY <1>2, <2>1, OneTyped
  <2> QED
    BY <2>2 DEF Run
<1>4. <<String(key), ArrayStart>> = k \o a
  OBVIOUS
<1> HIDE DEF inner, k, a, b
<1>5. List(key, items) = k \o calls
  <2>1. a \o inner \in Seq(AllCalls) /\ k \o a \in Seq(AllCalls)
    BY <1>3, ConcatProperties
  <2>2. IsAssociative(k, a, inner)
    BY <1>3, ConcatIsAssociative
  <2>3. IsAssociative(k, a \o inner, b)
    BY <1>3, <2>1, ConcatIsAssociative
  <2>4. List(key, items) = ((k \o a) \o inner) \o b
    BY <1>4 DEF List, inner, b
  <2> QED
    BY <2>2, <2>3, <2>4, Zenon DEF IsAssociative
<1> HIDE DEF calls
<1>6. \E P : /\ Members(<<String(key)>> \o calls, P, {key})
             /\ Keys(P) = {key} /\ At(P, key) = r
  BY <1>1, OneMember
<1> QED
  BY <1>5, <1>6 DEF k

LEMMA ObjectIsValue ==
  ASSUME NEW calls, NEW P, NEW K, Members(calls, P, K)
  PROVE  IsValue(Object(calls), P) /\ IsObject(P)
<1>1. "object" \in Nests /\ BracketOf("object") = "{" /\ Closing("{") = "}"
  BY DEF Nests, BracketOf, Closing
<1>2. IsValue((<<<<"start", BracketOf("object")>>>> \o calls)
                \o <<<<"end", Closing(BracketOf("object"))>>>>, P)
  BY <1>1, BracketIsValue DEF Members
<1>3. IsValue(Object(calls), P)
  BY <1>1, <1>2 DEF Object, ObjectStart, ObjectEnd
<1> QED
  BY <1>3, DistinctIsObject DEF Members, Run

\* A member that is written on a condition.
IsWhen(condition, Q, P) == (condition => Q = P) /\ (~condition => Keys(Q) = {})

LEMMA WhenIs ==
  ASSUME NEW condition \in BOOLEAN, NEW calls, NEW P, NEW K, Members(calls, P, K)
  PROVE  \E Q : Members(When(condition, calls), Q, K) /\ IsWhen(condition, Q, P)
<1>1. CASE condition
  BY <1>1 DEF When, IsWhen
<1>2. CASE ~condition
  <2>1. Keys(<<>>) = {}
    BY DEF Keys
  <2>2. Members(When(condition, calls), <<>>, K)
    BY <1>2, MembersNothing DEF When
  <2> QED
    BY <1>2, <2>1, <2>2 DEF IsWhen
<1> QED
  BY <1>1, <1>2

\* A body of one value is read as that value.
LEMMA AnswerIsRead ==
  ASSUME NEW header, NEW calls, NEW r, IsValue(calls, r)
  PROVE  /\ Answer(header, calls).header = header
         /\ Arrives(Answer(header, calls).body)
         /\ Read(Answer(header, calls)) = r
<1> DEFINE j == NewStream
           k == Calling(j, calls)
           text == TextOf(k)
           body == Flushed(k)
<1>1. Reads(j) /\ j.state = "start" /\ j.nesting = <<>> /\ ~j.lost /\ Separated(j) = j
  BY NewStreamReads DEF NewStream, Separated
<1>2. Here(j) = 1
  <2>1. TextOf(j) = <<>>
    <3>1. FlattenSeq(<<>>) \o <<>> = <<>>
      BY FlattenNothing
    <3> QED
      BY <3>1 DEF TextOf, NewStream
  <2> QED
    BY <2>1 DEF Here
<1>3. Answer(header, calls) = [header |-> header, body |-> body]
  BY DEF Answer, Stream
<1> HIDE DEF j
<1>4. /\ Unmoved(j, k) /\ k.state = Outside(j.nesting)
      /\ ~k.lost => \A t : Goes(t, k) => ValueAt(t, Here(Separated(j))) = r
  BY <1>1, Zenon DEF IsValue, ValueStates
<1> HIDE DEF k
<1>5. Reads(k) /\ k.state = "end" /\ ~k.lost
  BY <1>1, <1>4 DEF Unmoved, Outside
<1>6. Arrives(body)
  BY <1>5, EndedArrives
<1>7. FlattenSeq(body.chunks) = text
  BY <1>5, FlushedStream DEF Reads
<1>8. text \in Seq(Tokens)
  BY <1>5, TextTyped DEF Reads
<1>9. Goes(text, k)
  <2>1. Continues(text, k)
    BY <1>8 DEF Continues, Begins
  <2>2. Token(text, Here(k)) = "end"
    BY <1>8 DEF Token, Here
  <2> QED
    BY <2>1, <2>2 DEF Goes
<1> HIDE DEF text, body
<1>10. ValueAt(text, 1) = r
  BY <1>1, <1>2, <1>4, <1>5, <1>9
<1> QED
  BY <1>3, <1>6, <1>7, <1>8, <1>10, LexedPlain DEF Read

-----------------------------------------------------------------------------
(* A characteristic.                                                       *)

LEMMA ValuesRun ==
  ASSUME NEW N \in Nat, NEW tokens, IsRow(tokens, N), \A i \in 1 .. N : tokens[i] \in Others
  PROVE  Run("array", FlattenSeq(Values(tokens)), tokens)
<1> DEFINE pieces == Values(tokens)
<1>1. DOMAIN tokens = 1 .. N
  BY DEF IsRow
<1>2. pieces = [i \in 1 .. N |-> <<Value(tokens[i])>>]
  BY <1>1 DEF Values
<1>3. IsRow(pieces, N) /\ \A i \in 1 .. N : pieces[i] = <<Value(tokens[i])>>
  BY <1>2 DEF IsRow
<1>4. ASSUME NEW i \in 1 .. N PROVE Run("array", pieces[i], <<tokens[i]>>)
  <2>1. IsValue(<<Value(tokens[i])>>, tokens[i])
    BY OthersTyped
  <2> HIDE DEF pieces
  <2>2. IsValue(pieces[i], tokens[i])
    BY <1>3, <2>1
  <2> QED
    BY <2>2, ItemRuns
<1> HIDE DEF pieces
<1>5. Run("array", FlattenSeq(pieces), tokens)
  BY <1>3, <1>4, RowsRun
<1> QED
  BY <1>5 DEF pieces

LEMMA FlattenOne ==
  ASSUME NEW calls \in Seq(AllCalls)
  PROVE  FlattenSeq(<<calls>>) = calls
<1> DEFINE pieces == <<calls>>
<1>1. IsRow(pieces, 1) /\ pieces[1] = calls /\ \A i \in 1 .. 1 : i = 1
  BY DEF IsRow
<1> HIDE DEF pieces
<1>2. \A i \in 1 .. 1 : pieces[i] \in Seq(AllCalls)
  BY <1>1
<1>3. PICK flat : IsFlattening(flat, pieces, 1)
  BY <1>1, <1>2, FlattenPieces
<1>4. FlattenSeq(pieces) = flat[1] /\ flat[0] = <<>> /\ flat[1] = flat[0] \o pieces[1]
  <2>1. 1 \in 1 .. 1 /\ 1 - 1 = 0
    OBVIOUS
  <2> QED
    BY <1>3, <2>1 DEF IsFlattening
<1>5. <<>> \o calls = calls
  BY ConcatEmptySeq
<1>6. FlattenSeq(pieces) = calls
  BY <1>1, <1>4, <1>5
<1> QED
  BY <1>6 DEF pieces

\* One value, written by what writes the tokens of a value.
LEMMA ValuesIsValue ==
  ASSUME NEW v \in Others
  PROVE  IsValue(FlattenSeq(Values(<<v>>)), v)
<1> DEFINE calls == <<Value(v)>>
<1>1. Values(<<v>>) = <<calls>>
  <2>1. DOMAIN <<v>> = 1 .. 1 /\ <<v>>[1] = v
    OBVIOUS
  <2> QED
    BY <2>1 DEF Values
<1>2. IsValue(calls, v)
  BY OthersTyped
<1> HIDE DEF calls
<1>3. FlattenSeq(<<calls>>) = calls
  BY <1>2, FlattenOne DEF IsValue
<1> QED
  BY <1>1, <1>2, <1>3

LEMMA TwoInARow ==
  ASSUME NEW a, NEW b
  PROVE  <<a>> \o <<b>> = <<a, b>>
<1> DEFINE S == {a, b}
           s == <<a>>
           t == <<b>>
           u == <<a, b>>
           v == s \o t
<1>1. /\ s \in Seq(S) /\ Len(s) = 1 /\ s[1] = a
      /\ t \in Seq(S) /\ Len(t) = 1 /\ t[1] = b
      /\ u \in Seq(S) /\ Len(u) = 2 /\ u[1] = a /\ u[2] = b
  OBVIOUS
<1> HIDE DEF s, t, u, S
<1>2. /\ v \in Seq(S) /\ Len(v) = Len(s) + Len(t)
      /\ \A i \in 1 .. Len(s) + Len(t) :
           v[i] = IF i <= Len(s) THEN s[i] ELSE t[i - Len(s)]
  BY <1>1, ConcatProperties
<1> HIDE DEF v
<1>3. Len(v) = 2 /\ v[1] = a /\ v[2] = b
  BY <1>1, <1>2
<1>4. v = u
  BY <1>1, <1>2, <1>3, SeqEqual
<1> QED
  BY <1>4 DEF v, s, t, u

LEMMA FourInARow ==
  ASSUME NEW a, NEW b, NEW c, NEW d
  PROVE  (<<a>> \o <<b, c>>) \o <<d>> = <<a, b, c, d>>
<1> DEFINE S == {a, b, c, d}
           s == <<a>>
           t == <<b, c>>
           u == <<d>>
           w == <<a, b, c, d>>
           v == (s \o t) \o u
<1>1. /\ s \in Seq(S) /\ Len(s) = 1 /\ s[1] = a
      /\ t \in Seq(S) /\ Len(t) = 2 /\ t[1] = b /\ t[2] = c
      /\ u \in Seq(S) /\ Len(u) = 1 /\ u[1] = d
      /\ w \in Seq(S) /\ Len(w) = 4 /\ w[1] = a /\ w[2] = b /\ w[3] = c /\ w[4] = d
  OBVIOUS
<1> HIDE DEF s, t, u, w, S
<1> DEFINE st == s \o t
<1>2. /\ st \in Seq(S) /\ Len(st) = Len(s) + Len(t)
      /\ \A i \in 1 .. Len(s) + Len(t) :
           st[i] = IF i <= Len(s) THEN s[i] ELSE t[i - Len(s)]
  BY <1>1, ConcatProperties
<1> HIDE DEF st
<1>3. st \in Seq(S) /\ Len(st) = 3 /\ st[1] = a /\ st[2] = b /\ st[3] = c
  BY <1>1, <1>2
<1> DEFINE x == st \o u
<1>4. /\ x \in Seq(S) /\ Len(x) = Len(st) + Len(u)
      /\ \A i \in 1 .. Len(st) + Len(u) :
           x[i] = IF i <= Len(st) THEN st[i] ELSE u[i - Len(st)]
  BY <1>1, <1>3, ConcatProperties
<1> HIDE DEF x
<1>5. Len(x) = 4 /\ x[1] = a /\ x[2] = b /\ x[3] = c /\ x[4] = d
  BY <1>1, <1>3, <1>4
<1>6. x = w
  <2>1. \A i \in 1 .. 4 : i = 1 \/ i = 2 \/ i = 3 \/ i = 4
    OBVIOUS
  <2>2. Len(x) = Len(w) /\ \A i \in 1 .. Len(x) : x[i] = w[i]
    BY <1>1, <1>5, <2>1
  <2> QED
    BY <1>1, <1>4, <2>2, SeqEqual
<1> QED
  BY <1>6 DEF x, st, s, t, u, w

LEMMA PairIsValue ==
  ASSUME NEW x \in Others, NEW y \in Others
  PROVE  IsValue(<<ArrayStart, Value(x), Value(y), ArrayEnd>>, <<x, y>>)
<1> DEFINE a == <<Value(x)>>
           b == <<Value(y)>>
<1>1. Run("array", a, <<x>>) /\ Run("array", b, <<y>>)
  BY OthersTyped, ItemRuns
<1>2. Run("array", a \o b, <<x>> \o <<y>>)
  <2> DEFINE p == <<x>>
             q == <<y>>
  <2>1. Run("array", a, p) /\ Run("array", b, q)
    BY <1>1
  <2> HIDE DEF a, b, p, q
  <2>2. Run("array", a \o b, p \o q)
    BY <2>1, RunConcatenated
  <2> QED
    BY <2>2 DEF p, q
<1>3. a \o b = <<Value(x), Value(y)>> /\ <<x>> \o <<y>> = <<x, y>>
  BY TwoInARow
<1> DEFINE inner == <<Value(x), Value(y)>>
           pair == <<x, y>>
<1>4. Run("array", inner, pair)
  BY <1>2, <1>3
<1>5. (<<ArrayStart>> \o inner) \o <<ArrayEnd>> = <<ArrayStart, Value(x), Value(y), ArrayEnd>>
  BY FourInARow
<1>6. "array" \in Nests /\ BracketOf("array") = "[" /\ Closing("[") = "]"
  BY DEF Nests, BracketOf, Closing
<1> HIDE DEF inner, pair
<1>7. IsValue((<<<<"start", BracketOf("array")>>>> \o inner)
                \o <<<<"end", Closing(BracketOf("array"))>>>>, pair)
  BY <1>4, <1>6, BracketIsValue
<1>8. IsValue((<<ArrayStart>> \o inner) \o <<ArrayEnd>>, pair)
  BY <1>6, <1>7 DEF ArrayStart, ArrayEnd
<1> QED
  BY <1>5, <1>8 DEF pair

\* The permissions of a characteristic, in whatever order.
LEMMA PermissionsAre ==
  ASSUME NEW perms, perms \subseteq ToSet(PermissionNames)
  PROVE  LET pieces == [i \in DOMAIN PermissionNames |->
                          When(PermissionNames[i] \in perms, <<String(PermissionNames[i])>>)]
         IN  \E r : Run("array", FlattenSeq(pieces), r) /\ ToSet(r) = perms
<1> DEFINE N == Len(PermissionNames)
           names == PermissionNames
           pieces == [i \in DOMAIN names |-> When(names[i] \in perms, <<String(names[i])>>)]
           r == [i \in 1 .. N |-> IF names[i] \in perms THEN <<names[i]>> ELSE <<>>]
<1>1. N \in Nat /\ DOMAIN names = 1 .. N /\ ToSet(names) = {names[i] : i \in 1 .. N}
  BY DEF PermissionNames, ToSet
<1>2. \A i \in 1 .. N : names[i] \in Names
  BY <1>1 DEF Names
<1> HIDE DEF N, names
<1>3. IsRow(pieces, N)
  BY <1>1 DEF IsRow
<1>4. ASSUME NEW i \in 1 .. N PROVE Run("array", pieces[i], r[i])
  <2>1. CASE names[i] \in perms
    <3>1. IsValue(<<String(names[i])>>, names[i])
      BY <1>2, NamesTyped
    <3>2. Run("array", <<String(names[i])>>, <<names[i]>>)
      BY <3>1, ItemRuns
    <3> QED
      BY <1>1, <2>1, <3>2 DEF When
  <2>2. CASE names[i] \notin perms
    BY <1>1, <2>2, RunNothing DEF When
  <2> QED
    BY <2>1, <2>2
<1>5. UNION {ToSet(r[i]) : i \in 1 .. N} = perms
  <2>1. \A i \in 1 .. N : ToSet(r[i]) = IF names[i] \in perms THEN {names[i]} ELSE {}
    BY DEF ToSet
  <2> HIDE DEF r
  <2>2. ASSUME NEW p \in perms PROVE \E i \in 1 .. N : p \in ToSet(r[i])
    <3>1. PICK i \in 1 .. N : p = names[i]
      BY <1>1 DEF names
    <3> QED
      BY <2>1, <3>1
  <2>3. ASSUME NEW i \in 1 .. N, NEW p \in ToSet(r[i]) PROVE p \in perms
    BY <2>1
  <2> QED
    BY <2>2, <2>3
<1> HIDE DEF pieces, r
<1>6. PICK things : Run("array", FlattenSeq(pieces), things) /\ Gathers(things, r, N)
  BY <1>1, <1>3, <1>4, PiecesRun
<1> QED
  BY <1>5, <1>6 DEF pieces, names, Gathers

\* The members that describe a characteristic, of different names.
LEMMA DescriptionsAre ==
  ASSUME NEW id \in DOMAIN Db
  PROVE  LET meta == Db[id].meta
             pieces == [i \in DOMAIN meta |-> Member(meta[i][1], meta[i][2])]
         IN  \E P : Members(FlattenSeq(pieces), P, Names \ OwnNames)
<1> DEFINE meta == Db[id].meta
           N == Len(meta)
           pieces == [i \in DOMAIN meta |-> Member(meta[i][1], meta[i][2])]
           r == [i \in 1 .. N |-> <<meta[i][1], meta[i][2]>>]
<1>1. /\ N \in Nat /\ DOMAIN meta = 1 .. N
      /\ \A i \in 1 .. N : meta[i][1] \in Names \ OwnNames /\ meta[i][2] \in Others
      /\ \A i, k \in 1 .. N : meta[i][1] = meta[k][1] => i = k
  <2>1. /\ meta \in Seq((Names \ OwnNames) \X Others)
        /\ \A i, k \in DOMAIN meta : meta[i][1] = meta[k][1] => i = k
    BY AnswersAssumption
  <2> HIDE DEF meta
  <2> QED
    BY <2>1
<1> HIDE DEF meta, N
<1>2. IsRow(pieces, N) /\ IsRow(r, N)
  BY <1>1 DEF IsRow
<1>3. ASSUME NEW i \in 1 .. N PROVE Run("object", pieces[i], <<r[i]>>)
  <2> DEFINE key == meta[i][1]
             x == meta[i][2]
             calls == <<Value(x)>>
  <2>1. key \in Names /\ x \in Others
    BY <1>1
  <2> HIDE DEF key, x
  <2>2. pieces[i] = Member(key, x) /\ r[i] = <<key, x>>
    BY <1>1 DEF key, x
  <2>3. Member(key, x) = <<String(key)>> \o calls
    BY TwoInARow DEF Member
  <2>4. IsValue(calls, x)
    BY <2>1, OthersTyped
  <2> HIDE DEF calls
  <2>5. Run("object", <<String(key)>> \o calls, << <<key, x>> >>)
    BY <2>1, <2>4, NamesTyped, MemberRuns
  <2> HIDE DEF pieces, r
  <2> QED
    BY <2>2, <2>3, <2>5, Zenon
<1>4. Distinct(r) /\ Keys(r) \subseteq Names \ OwnNames
  BY <1>1 DEF Distinct, Keys
<1> HIDE DEF pieces, r
<1>5. Run("object", FlattenSeq(pieces), r)
  BY <1>1, <1>2, <1>3, RowsRun
<1>6. Members(FlattenSeq(pieces), r, Names \ OwnNames)
  BY <1>4, <1>5 DEF Members
<1> QED
  BY <1>6 DEF pieces, meta

LEMMA ShownTyped == \A ch \in Described : Shown(ch) \subseteq Others
BY DEF Others

LEMMA ValidValuesAre ==
  ASSUME NEW id \in DOMAIN Db
  PROVE  LET valid == Db[id].valid_values
             tokens == [i \in DOMAIN valid |-> Decimal(valid[i])]
         IN  \E r : Run("array", FlattenSeq(Values(tokens)), r)
<1> DEFINE valid == Db[id].valid_values
           N == Len(valid)
           tokens == [i \in DOMAIN valid |-> Decimal(valid[i])]
<1>1. N \in Nat /\ DOMAIN valid = 1 .. N /\ \A i \in 1 .. N : valid[i] \in ToSet(valid)
  <2>1. valid \in Seq(Int)
    BY WritesAssumption DEF IsCharacteristic
  <2> HIDE DEF valid
  <2> QED
    BY <2>1 DEF ToSet
<1>2. ASSUME NEW n \in ToSet(valid) PROVE Decimal(n) \in Others
  <2>1. Db[id] \in Described
    BY DEF Described
  <2> QED
    BY <2>1, ShownTyped DEF Shown
<1> HIDE DEF valid, N
<1>3. IsRow(tokens, N) /\ \A i \in 1 .. N : tokens[i] \in Others
  BY <1>1, <1>2 DEF IsRow
<1> HIDE DEF tokens
<1>4. Run("array", FlattenSeq(Values(tokens)), tokens)
  BY <1>1, <1>3, ValuesRun
<1> QED
  BY <1>4 DEF tokens, valid

LEMMA ValidRangesAre ==
  ASSUME NEW id \in DOMAIN Db
  PROVE  LET ranges == Db[id].valid_ranges
             pieces == [i \in DOMAIN ranges |->
                          LET x == ranges[i]
                          IN  <<ArrayStart, Value(Integer(x[1])), Value(Integer(x[2])),
                                ArrayEnd>>]
         IN  \E r : Run("array", FlattenSeq(pieces), r)
<1> DEFINE ranges == Db[id].valid_ranges
           N == Len(ranges)
           low(i) == Integer(ranges[i][1])
           high(i) == Integer(ranges[i][2])
           pieces == [i \in DOMAIN ranges |->
                        LET x == ranges[i]
                        IN  <<ArrayStart, Value(Integer(x[1])), Value(Integer(x[2])), ArrayEnd>>]
           r == [i \in 1 .. N |-> <<low(i), high(i)>>]
<1>1. N \in Nat /\ DOMAIN ranges = 1 .. N /\ \A i \in 1 .. N : ranges[i] \in ToSet(ranges)
  <2>1. ranges \in Seq(Int \X Int)
    BY WritesAssumption DEF IsCharacteristic
  <2> HIDE DEF ranges
  <2> QED
    BY <2>1 DEF ToSet
<1>2. ASSUME NEW i \in 1 .. N PROVE low(i) \in Others /\ high(i) \in Others
  <2>1. Db[id] \in Described
    BY DEF Described
  <2>2. ASSUME NEW x \in ToSet(ranges) PROVE Integer(x[1]) \in Others /\ Integer(x[2]) \in Others
    BY <2>1, ShownTyped DEF Shown
  <2> HIDE DEF ranges
  <2> QED
    BY <1>1, <2>2
<1>3. \A i \in 1 .. N : /\ pieces[i] = <<ArrayStart, Value(low(i)), Value(high(i)), ArrayEnd>>
                        /\ r[i] = <<low(i), high(i)>>
  <2> HIDE DEF ranges
  <2> QED
    BY <1>1
<1> HIDE DEF ranges, N, low, high
<1>4. IsRow(pieces, N) /\ IsRow(r, N)
  BY <1>1 DEF IsRow
<1> HIDE DEF pieces, r
<1>5. ASSUME NEW i \in 1 .. N PROVE Run("array", pieces[i], <<r[i]>>)
  <2>1. IsValue(<<ArrayStart, Value(low(i)), Value(high(i)), ArrayEnd>>, <<low(i), high(i)>>)
    BY <1>2, PairIsValue
  <2>2. IsValue(pieces[i], r[i])
    BY <1>3, <2>1
  <2> QED
    BY <2>2, ItemRuns
<1>6. Run("array", FlattenSeq(pieces), r)
  BY <1>1, <1>4, <1>5, RowsRun
<1> QED
  BY <1>6 DEF pieces, ranges

\* The names of members.
MetaNames == (Names \ OwnNames) \cup {"valid-values"} \cup {"valid-values-range"}

LEMMA MetaIs ==
  ASSUME NEW id \in DOMAIN Db
  PROVE  LET ch == Db[id]
         IN  \E P : Members(
               FlattenSeq([i \in DOMAIN ch.meta |-> Member(ch.meta[i][1], ch.meta[i][2])])
               \o When(ch.valid_values # <<>>,
                       List("valid-values", Values([i \in DOMAIN ch.valid_values |->
                                                      Decimal(ch.valid_values[i])])))
               \o When(ch.valid_ranges # <<>>,
                       List("valid-values-range",
                            [i \in DOMAIN ch.valid_ranges |->
                               LET r == ch.valid_ranges[i]
                               IN  <<ArrayStart, Value(Integer(r[1])), Value(Integer(r[2])),
                                     ArrayEnd>>])), P, MetaNames)
<1> DEFINE ch == Db[id]
           a == FlattenSeq([i \in DOMAIN ch.meta |-> Member(ch.meta[i][1], ch.meta[i][2])])
           values == Values([i \in DOMAIN ch.valid_values |-> Decimal(ch.valid_values[i])])
           ranges == [i \in DOMAIN ch.valid_ranges |->
                        LET r == ch.valid_ranges[i]
                        IN  <<ArrayStart, Value(Integer(r[1])), Value(Integer(r[2])), ArrayEnd>>]
           bs == List("valid-values", values)
           cs == List("valid-values-range", ranges)
           B == ch.valid_values # <<>>
           C == ch.valid_ranges # <<>>
           b == When(B, bs)
           c == When(C, cs)
<1>1. \E P : Members(a, P, Names \ OwnNames)
  BY DescriptionsAre, Zenon
<1>2. \E r : Run("array", FlattenSeq(values), r)
  BY ValidValuesAre, Zenon
<1>3. \E r : Run("array", FlattenSeq(ranges), r)
  BY ValidRangesAre, Zenon
<1>4. "valid-values" \in Names /\ "valid-values-range" \in Names
  BY DEF Names, OwnNames
<1>5. B \in BOOLEAN /\ C \in BOOLEAN
  OBVIOUS
<1> HIDE DEF a, values, ranges, B, C
<1>6. \E P : Members(b, P, {"valid-values"})
  <2>1. PICK P : Members(bs, P, {"valid-values"})
    BY <1>2, <1>4, ListIs
  <2> HIDE DEF bs
  <2> QED
    BY <1>5, <2>1, WhenIs
<1>7. \E P : Members(c, P, {"valid-values-range"})
  <2>1. PICK P : Members(cs, P, {"valid-values-range"})
    BY <1>3, <1>4, ListIs
  <2> HIDE DEF cs
  <2> QED
    BY <1>5, <2>1, WhenIs
<1> HIDE DEF b, c
<1>8. PICK P : Members(a, P, Names \ OwnNames)
  BY <1>1
<1>9. PICK Q : Members(b, Q, {"valid-values"})
  BY <1>6
<1>10. PICK R : Members(c, R, {"valid-values-range"})
  BY <1>7
<1> DEFINE K == Names \ OwnNames
           L == {"valid-values"}
           M == {"valid-values-range"}
<1>11. K \cap L = {} /\ (K \cup L) \cap M = {} /\ MetaNames = (K \cup L) \cup M
  BY DEF OwnNames, MetaNames
<1>12. Members(a, P, K) /\ Members(b, Q, L) /\ Members(c, R, M)
  BY <1>8, <1>9, <1>10
<1> HIDE DEF K, L, M
<1>13. Members(a \o b, P \o Q, K \cup L)
  BY <1>11, <1>12, MembersConcatenated
<1>14. Members((a \o b) \o c, (P \o Q) \o R, (K \cup L) \cup M)
  <2> DEFINE ab == a \o b
             PQ == P \o Q
             KL == K \cup L
  <2>1. Members(ab, PQ, KL) /\ KL \cap M = {}
    BY <1>11, <1>13
  <2> HIDE DEF ab, PQ, KL
  <2>2. Members(ab \o c, PQ \o R, KL \cup M)
    BY <1>12, <2>1, MembersConcatenated
  <2> QED
    BY <2>2 DEF ab, PQ, KL
<1>15. \E S : Members((a \o b) \o c, S, MetaNames)
  BY <1>11, <1>14, Zenon
<1> QED
  BY <1>15, Zenon DEF a, b, c, bs, cs, values, ranges, B, C, ch

LEMMA MembersJoined ==
  ASSUME NEW a, NEW b, NEW P, NEW Q, NEW K, NEW L, Members(a, P, K), Members(b, Q, L),
         K \cap L = {}
  PROVE  \E S : Members(a \o b, S, K \cup L) /\ Adds(S, P, Q)
BY MembersConcatenated

\* What write_characteristic_json writes.
CharacteristicNames ==
  ({"aid"} \cup {"iid"} \cup {"type"} \cup {"perms"} \cup {"ev"}) \cup MetaNames \cup {"value"}

LEMMA CharacteristicIs ==
  ASSUME NEW id \in DOMAIN Db, NEW format, NEW subscribed \in BOOLEAN, NEW values,
         AtMostOne(values), ToSet(values) \subseteq Others
  PROVE  \E S : /\ Members(Characteristic(Db[id], format, subscribed, values), S,
                           CharacteristicNames)
                /\ {"aid", "iid"} \subseteq Keys(S)
                /\ At(S, "aid") = id[1] /\ At(S, "iid") = id[2]
                /\ "ev" \in Keys(S) <=> "ev" \in format /\ "ev" \in Db[id].perms
                /\ "value" \in Keys(S) => "pr" \in Db[id].perms
                /\ "perms" \in format => ToSet(At(S, "perms")) = Db[id].perms
<1> DEFINE ch == Db[id]
           perms == [i \in DOMAIN PermissionNames |->
                       When(PermissionNames[i] \in ch.perms, <<String(PermissionNames[i])>>)]
           meta == FlattenSeq([i \in DOMAIN ch.meta |-> Member(ch.meta[i][1], ch.meta[i][2])])
                   \o When(ch.valid_values # <<>>,
                           List("valid-values", Values([i \in DOMAIN ch.valid_values |->
                                                          Decimal(ch.valid_values[i])])))
                   \o When(ch.valid_ranges # <<>>,
                           List("valid-values-range",
                                [i \in DOMAIN ch.valid_ranges |->
                                   LET r == ch.valid_ranges[i]
                                   IN  <<ArrayStart, Value(Integer(r[1])),
                                         Value(Integer(r[2])), ArrayEnd>>]))
           E == "ev" \in format /\ "ev" \in ch.perms
           V == "pr" \in ch.perms /\ values # <<>>
           a1 == Member("aid", ch.aid)
           a2 == Member("iid", ch.iid)
           a3 == When("type" \in format, StringMember("type", ch.type))
           a4 == When("perms" \in format, List("perms", perms))
           a5 == When(E, Member("ev", IF subscribed THEN "true" ELSE "false"))
           a6 == When("meta" \in format, meta)
           a7 == When(V, <<String("value")>> \o FlattenSeq(Values(values)))
<1>1. Characteristic(ch, format, subscribed, values)
        = ((((((a1 \o a2) \o a3) \o a4) \o a5) \o a6) \o a7)
  BY Zenon DEF Characteristic
<1>2. /\ {"aid", "iid", "type", "perms", "ev", "value"} \subseteq Names
      /\ ch.type \in Names /\ {"true", "false"} \subseteq Others
      /\ ch.aid = id[1] /\ ch.iid = id[2] /\ ch.aid \in Others /\ ch.iid \in Others
      /\ ch.perms \subseteq ToSet(PermissionNames)
  <2>1. ch \in Described /\ id \in Requested
    BY DEF Described, Requested
  <2>2. id = <<ch.aid, ch.iid>> /\ ch.perms \subseteq ToSet(PermissionNames)
    BY AnswersAssumption
  <2>3. ch.aid = id[1] /\ ch.iid = id[2]
    BY <2>2
  <2>4. id[1] \in Others /\ id[2] \in Others
    BY <2>1 DEF Others
  <2>5. ch.type \in Names
    BY <2>1 DEF Names
  <2>6. {"true", "false"} \subseteq Others
    BY DEF Others
  <2>7. {"aid", "iid", "type", "perms", "ev", "value"} \subseteq Names
    BY DEF Names, OwnNames
  <2> HIDE DEF ch
  <2> QED
    BY <2>2, <2>3, <2>4, <2>5, <2>6, <2>7
<1>3. PICK P1 : Members(a1, P1, {"aid"}) /\ Keys(P1) = {"aid"} /\ At(P1, "aid") = ch.aid
  <2> HIDE DEF ch
  <2> QED
    BY <1>2, MemberIs
<1>4. PICK P2 : Members(a2, P2, {"iid"}) /\ Keys(P2) = {"iid"} /\ At(P2, "iid") = ch.iid
  <2> HIDE DEF ch
  <2> QED
    BY <1>2, MemberIs
<1>5. PICK P3 : Members(a3, P3, {"type"})
  <2> DEFINE calls == StringMember("type", ch.type)
             T == "type" \in format
  <2>1. PICK P : Members(calls, P, {"type"})
    <3> HIDE DEF ch
    <3> QED
      BY <1>2, StringMemberIs
  <2>2. T \in BOOLEAN
    OBVIOUS
  <2> HIDE DEF calls, T
  <2>3. \E Q : Members(When(T, calls), Q, {"type"})
    BY <2>1, <2>2, WhenIs
  <2> QED
    BY <2>3 DEF calls, T
<1>6. PICK P4 : /\ Members(a4, P4, {"perms"})
                /\ "perms" \in format => "perms" \in Keys(P4) /\ ToSet(At(P4, "perms")) = ch.perms
  <2> DEFINE calls == List("perms", perms)
             T == "perms" \in format
             X == ch.perms
  <2>1. PICK r : Run("array", FlattenSeq(perms), r) /\ ToSet(r) = X
    BY <1>2, PermissionsAre, Zenon
  <2>2. T \in BOOLEAN
    OBVIOUS
  <2> HIDE DEF perms, X
  <2>3. PICK P : Members(calls, P, {"perms"}) /\ Keys(P) = {"perms"} /\ At(P, "perms") = r
    BY <1>2, <2>1, ListIs
  <2> HIDE DEF calls, T
  <2>4. PICK Q : Members(When(T, calls), Q, {"perms"}) /\ IsWhen(T, Q, P)
    BY <2>2, <2>3, WhenIs
  <2>5. \E R : /\ Members(When(T, calls), R, {"perms"})
               /\ T => "perms" \in Keys(R) /\ ToSet(At(R, "perms")) = X
    BY <2>1, <2>3, <2>4 DEF IsWhen
  <2> QED
    BY <2>5, Zenon DEF calls, T, perms, X
<1>7. PICK P5 : Members(a5, P5, {"ev"}) /\ ("ev" \in Keys(P5) <=> E)
  <2> DEFINE x == IF subscribed THEN "true" ELSE "false"
             calls == Member("ev", x)
  <2>1. x \in Others
    BY <1>2
  <2>2. E \in BOOLEAN
    OBVIOUS
  <2> HIDE DEF x, E
  <2>3. PICK P : Members(calls, P, {"ev"}) /\ Keys(P) = {"ev"}
    BY <1>2, <2>1, MemberIs
  <2> HIDE DEF calls
  <2>4. PICK Q : Members(When(E, calls), Q, {"ev"}) /\ IsWhen(E, Q, P)
    BY <2>2, <2>3, WhenIs
  <2>5. \E Q1 : Members(When(E, calls), Q1, {"ev"}) /\ ("ev" \in Keys(Q1) <=> E)
    BY <2>2, <2>3, <2>4 DEF IsWhen
  <2> QED
    BY <2>5, Zenon DEF calls, x
<1>8. PICK P6 : Members(a6, P6, MetaNames)
  <2> DEFINE T == "meta" \in format
  <2>1. PICK P : Members(meta, P, MetaNames)
    BY MetaIs, Zenon
  <2>2. T \in BOOLEAN
    OBVIOUS
  <2> HIDE DEF meta, T
  <2>3. \E Q : Members(When(T, meta), Q, MetaNames)
    BY <2>1, <2>2, WhenIs
  <2> QED
    BY <2>3, Zenon DEF T
<1>9. PICK P7 : Members(a7, P7, {"value"}) /\ ("value" \in Keys(P7) => "pr" \in ch.perms)
  <2> DEFINE calls == <<String("value")>> \o FlattenSeq(Values(values))
             R == "pr" \in ch.perms
  <2>1. CASE values = <<>>
    <3>1. a7 = <<>> /\ Keys(<<>>) = {}
      BY <2>1 DEF When, Keys
    <3> HIDE DEF a7
    <3> QED
      BY <3>1, MembersNothing
  <2>2. CASE values # <<>>
    <3> DEFINE v == values[1]
    <3>1. values = <<v>> /\ v \in Others
      <4>1. values = <<v>>
        BY <2>2 DEF AtMostOne
      <4>2. v \in ToSet(values)
        BY <4>1 DEF ToSet
      <4> QED
        BY <4>1, <4>2
    <3>2. V \in BOOLEAN /\ (V => R)
      OBVIOUS
    <3> HIDE DEF v, V, R
    <3>3. IsValue(FlattenSeq(Values(values)), v)
      BY <3>1, ValuesIsValue
    <3>4. PICK P : Members(calls, P, {"value"})
      BY <1>2, <3>3, OneMember
    <3> HIDE DEF calls
    <3>5. PICK Q : Members(When(V, calls), Q, {"value"}) /\ IsWhen(V, Q, P)
      BY <3>2, <3>4, WhenIs
    <3>6. \E S : Members(When(V, calls), S, {"value"}) /\ ("value" \in Keys(S) => R)
      BY <3>2, <3>5 DEF IsWhen
    <3> QED
      BY <3>6, Zenon DEF calls, R
  <2> QED
    BY <2>1, <2>2
<1> HIDE DEF a1, a2, a3, a4, a5, a6, a7
<1>10. /\ "value" \notin MetaNames /\ "aid" \notin MetaNames /\ "iid" \notin MetaNames
       /\ "type" \notin MetaNames /\ "perms" \notin MetaNames /\ "ev" \notin MetaNames
  BY DEF MetaNames, OwnNames
<1> DEFINE K2 == {"aid"} \cup {"iid"}
           K3 == K2 \cup {"type"}
           K4 == K3 \cup {"perms"}
           K5 == K4 \cup {"ev"}
           K6 == K5 \cup MetaNames
           A2 == a1 \o a2
           A3 == A2 \o a3
           A4 == A3 \o a4
           A5 == A4 \o a5
           A6 == A5 \o a6
<1>11. /\ {"aid"} \cap {"iid"} = {} /\ K2 \cap {"type"} = {} /\ K3 \cap {"perms"} = {}
       /\ K4 \cap {"ev"} = {} /\ K5 \cap MetaNames = {} /\ K6 \cap {"value"} = {}
       /\ CharacteristicNames = K6 \cup {"value"}
  BY <1>10 DEF CharacteristicNames
<1>12. PICK S2 : Members(A2, S2, K2) /\ Adds(S2, P1, P2)
  BY <1>3, <1>4, <1>11, MembersJoined
<1> HIDE DEF A2, K2
<1>13. PICK S3 : Members(A3, S3, K3) /\ Adds(S3, S2, P3)
  BY <1>5, <1>11, <1>12, MembersJoined
<1> HIDE DEF A3, K3
<1>14. PICK S4 : Members(A4, S4, K4) /\ Adds(S4, S3, P4)
  BY <1>6, <1>11, <1>13, MembersJoined
<1> HIDE DEF A4, K4
<1>15. PICK S5 : Members(A5, S5, K5) /\ Adds(S5, S4, P5)
  BY <1>7, <1>11, <1>14, MembersJoined
<1> HIDE DEF A5, K5
<1>16. PICK S6 : Members(A6, S6, K6) /\ Adds(S6, S5, P6)
  BY <1>8, <1>11, <1>15, MembersJoined
<1> HIDE DEF A6, K6
<1>17. PICK S7 : Members(A6 \o a7, S7, K6 \cup {"value"}) /\ Adds(S7, S6, P7)
  BY <1>9, <1>11, <1>16, MembersJoined
<1>18. Members(Characteristic(ch, format, subscribed, values), S7, CharacteristicNames)
  BY <1>1, <1>11, <1>17, Zenon DEF A2, A3, A4, A5, A6
<1>19. {"aid", "iid"} \subseteq Keys(S7) /\ At(S7, "aid") = ch.aid /\ At(S7, "iid") = ch.iid
  <2>1. Holds(S7, P1) /\ Holds(S7, P2)
    BY <1>12, <1>13, <1>14, <1>15, <1>16, <1>17 DEF Adds, Holds
  <2> QED
    BY <1>3, <1>4, <2>1 DEF Holds
<1>20. "perms" \in format => ToSet(At(S7, "perms")) = ch.perms
  <2>1. Holds(S7, P4)
    BY <1>14, <1>15, <1>16, <1>17 DEF Adds, Holds
  <2> QED
    BY <1>6, <2>1 DEF Holds
<1>21. "ev" \in Keys(S7) <=> E
  <2>1. "ev" \notin Keys(P6) /\ "ev" \notin Keys(P7)
    BY <1>8, <1>9, <1>10 DEF Members
  <2>2. "ev" \notin Keys(S4)
    <3>1. "ev" \notin K4
      BY <1>11
    <3> QED
      BY <1>14, <3>1 DEF Members
  <2>3. \A key : key \in Keys(S7) <=> key \in Keys(S4) \/ key \in Keys(P5) \/ key \in Keys(P6)
                                      \/ key \in Keys(P7)
    BY <1>15, <1>16, <1>17 DEF Adds
  <2> QED
    BY <1>7, <2>1, <2>2, <2>3
<1>22. "value" \in Keys(S7) => "pr" \in ch.perms
  <2>1. "value" \notin Keys(S6)
    BY <1>11, <1>16 DEF Members
  <2> QED
    BY <1>9, <1>17, <2>1 DEF Adds
<1> HIDE DEF perms, meta, V
<1>23. /\ Members(Characteristic(Db[id], format, subscribed, values), S7, CharacteristicNames)
       /\ {"aid", "iid"} \subseteq Keys(S7)
       /\ At(S7, "aid") = id[1] /\ At(S7, "iid") = id[2]
       /\ "ev" \in Keys(S7) <=> "ev" \in format /\ "ev" \in Db[id].perms
       /\ "value" \in Keys(S7) => "pr" \in Db[id].perms
       /\ "perms" \in format => ToSet(At(S7, "perms")) = Db[id].perms
  BY <1>2, <1>18, <1>19, <1>20, <1>21, <1>22, Zenon DEF ch, E
<1> QED
  BY <1>23, Zenon

-----------------------------------------------------------------------------
(* The answers to a read, and events.                                      *)

LEMMA StatusShown ==
  ASSUME NEW status \in Int
  PROVE  Status(status) \in Others
<1>1. status % 256 \in 0 .. 255
  OBVIOUS
<1>2. \A n \in 0 .. 255 : Decimal(n) \in Others
  BY DEF Others
<1> DEFINE n == status % 256
<1> HIDE DEF n
<1>3. Decimal(n) \in Others
  BY <1>1, <1>2 DEF n
<1> QED
  BY <1>3 DEF n, Status

\* Eight bits keep the statuses apart.
Statuses == {Success, ReadOnly, WriteOnly, NotificationsUnsupported, NoResource, InvalidValue}

LEMMA StatusesApart ==
  ASSUME NEW s \in Statuses, NEW t \in Statuses
  PROVE  Status(s) = Status(t) <=> s = t
<1>1. s \in Int /\ t \in Int /\ 0 - 70410 <= s /\ s <= 0 /\ 0 - 70410 <= t /\ t <= 0
  BY DEF Statuses, Success, ReadOnly, WriteOnly, NotificationsUnsupported, NoResource, InvalidValue
<1>2. s % 256 = t % 256 => s = t
  BY DEF Statuses, Success, ReadOnly, WriteOnly, NotificationsUnsupported, NoResource, InvalidValue
<1>3. s % 256 \in 0 .. 255 /\ t % 256 \in 0 .. 255
  BY <1>1
<1> DEFINE m == s % 256
           n == t % 256
<1>4. Status(s) = Decimal(m) /\ Status(t) = Decimal(n)
  BY Zenon DEF Status
<1> HIDE DEF m, n
<1>5. Decimal(m) = Decimal(n) => m = n
  BY <1>3, AnswersAssumption DEF m, n
<1> QED
  BY <1>2, <1>4, <1>5 DEF m, n

LEMMA SuccessShown == Status(Success) = "0"
<1>1. PICK x \in Int : x = 0
  OBVIOUS
<1>2. x % 256 = 0
  BY <1>1
<1>3. Decimal(0) = "0"
  BY AnswersAssumption
<1> DEFINE m == x % 256
<1>4. Status(Success) = Decimal(m)
  BY <1>1 DEF Status, Success
<1> QED
  BY <1>2, <1>3, <1>4, Zenon

\* What write_characteristic_error writes.
LEMMA ErrorIs ==
  ASSUME NEW id \in Requested, NEW status \in Int
  PROVE  \E P : /\ IsValue(Error(id, status), P) /\ IsObject(P)
                /\ "status" \in Keys(P) /\ "value" \notin Keys(P)
                /\ Id(P) = id /\ At(P, "status") = Status(status)
<1> DEFINE a == Member("aid", id[1])
           b == Member("iid", id[2])
           c == Member("status", Status(status))
<1>1. {"aid", "iid", "status"} \subseteq Names
  BY DEF Names, OwnNames
<1>2. id[1] \in Others /\ id[2] \in Others /\ Status(status) \in Others
  BY StatusShown DEF Others
<1>3. PICK P1 : Members(a, P1, {"aid"}) /\ Keys(P1) = {"aid"} /\ At(P1, "aid") = id[1]
  BY <1>1, <1>2, MemberIs
<1>4. PICK P2 : Members(b, P2, {"iid"}) /\ Keys(P2) = {"iid"} /\ At(P2, "iid") = id[2]
  BY <1>1, <1>2, MemberIs
<1>5. PICK P3 : /\ Members(c, P3, {"status"}) /\ Keys(P3) = {"status"}
                /\ At(P3, "status") = Status(status)
  BY <1>1, <1>2, MemberIs
<1> DEFINE K2 == {"aid"} \cup {"iid"}
           A2 == a \o b
<1>6. {"aid"} \cap {"iid"} = {} /\ K2 \cap {"status"} = {}
  OBVIOUS
<1> HIDE DEF a, b, c
<1>7. PICK S2 : Members(A2, S2, K2) /\ Adds(S2, P1, P2)
  BY <1>3, <1>4, <1>6, MembersJoined
<1> HIDE DEF A2, K2
<1>8. PICK S3 : Members(A2 \o c, S3, K2 \cup {"status"}) /\ Adds(S3, S2, P3)
  BY <1>5, <1>6, <1>7, MembersJoined
<1> DEFINE calls == A2 \o c
<1>9. Error(id, status) = Object(calls)
  BY Zenon DEF Error, A2, a, b, c
<1> HIDE DEF calls
<1>10. IsValue(Object(calls), S3) /\ IsObject(S3)
  BY <1>8, ObjectIsValue DEF calls
<1>11. Holds(S3, P1) /\ Holds(S3, P2) /\ Holds(S3, P3)
  BY <1>7, <1>8 DEF Adds, Holds
<1>12. Id(S3) = id
  <2>1. At(S3, "aid") = id[1] /\ At(S3, "iid") = id[2]
    BY <1>3, <1>4, <1>11 DEF Holds
  <2>2. id = <<id[1], id[2]>>
    BY AnswersAssumption
  <2> QED
    BY <2>1, <2>2, Zenon DEF Id
<1>13. "status" \in Keys(S3) /\ At(S3, "status") = Status(status)
  BY <1>5, <1>11 DEF Holds
<1>14. "value" \notin Keys(S3)
  BY <1>3, <1>4, <1>5, <1>7, <1>8 DEF Adds
<1> QED
  BY <1>9, <1>10, <1>12, <1>13, <1>14

\* What is written of a characteristic, by itself or with a status.
LEMMA DescriptionIs ==
  ASSUME NEW id \in DOMAIN Db, NEW format, NEW subscribed \in BOOLEAN, NEW values,
         AtMostOne(values), ToSet(values) \subseteq Others
  PROVE  \E S : /\ IsValue(Object(Characteristic(Db[id], format, subscribed, values)), S)
                /\ IsObject(S) /\ Id(S) = id
                /\ "ev" \in Keys(S) <=> "ev" \in format /\ "ev" \in Db[id].perms
                /\ "perms" \in format => ToSet(At(S, "perms")) = Db[id].perms
<1>1. PICK S : /\ Members(Characteristic(Db[id], format, subscribed, values), S,
                          CharacteristicNames)
               /\ {"aid", "iid"} \subseteq Keys(S)
               /\ At(S, "aid") = id[1] /\ At(S, "iid") = id[2]
               /\ "ev" \in Keys(S) <=> "ev" \in format /\ "ev" \in Db[id].perms
               /\ "value" \in Keys(S) => "pr" \in Db[id].perms
               /\ "perms" \in format => ToSet(At(S, "perms")) = Db[id].perms
  BY CharacteristicIs
<1>2. id = <<id[1], id[2]>>
  BY AnswersAssumption DEF Requested
<1>3. Id(S) = id
  BY <1>1, <1>2, Zenon DEF Id
<1>4. IsValue(Object(Characteristic(Db[id], format, subscribed, values)), S) /\ IsObject(S)
  BY <1>1, ObjectIsValue, Zenon
<1> QED
  BY <1>1, <1>3, <1>4, Zenon

\* What homekit_server_on_get_characteristics writes for an id.
LEMMA ElementIs ==
  ASSUME NEW id \in Requested, NEW subscriptions, NEW format, NEW success \in BOOLEAN,
         success => Readable(Db, id)
  PROVE  \E S : /\ IsValue(Element(Db, subscriptions, format, success, id), S)
                /\ IsObject(S) /\ Id(S) = id
                /\ "status" \in Keys(S) <=> ~success
                /\ "status" \in Keys(S) => (At(S, "status") = "0" <=> Readable(Db, id))
                /\ "value" \in Keys(S) => Readable(Db, id)
<1>1. Status(Success) = "0" /\ Status(WriteOnly) # "0" /\ Status(NoResource) # "0"
  <2>1. Success # WriteOnly /\ Success # NoResource
    BY DEF Success, WriteOnly, NoResource
  <2>2. {Success, WriteOnly, NoResource} \subseteq Statuses
    BY DEF Statuses
  <2> QED
    BY <2>1, <2>2, SuccessShown, StatusesApart
<1>2. CASE Readable(Db, id)
  <2> DEFINE ch == Db[id]
             on == id \in subscriptions
             a == Characteristic(ch, format, on, ch.values)
             b == When(~success, Member("status", Status(Success)))
  <2>1. /\ id \in DOMAIN Db /\ on \in BOOLEAN
        /\ AtMostOne(ch.values) /\ ToSet(ch.values) \subseteq Others
    <3>1. id \in DOMAIN Db
      BY <1>2 DEF Readable
    <3>2. ch \in Described /\ AtMostOne(ch.values)
      BY <3>1, AnswersAssumption DEF Described
    <3>3. ToSet(ch.values) \subseteq Others
      BY <3>2, ShownTyped DEF Shown
    <3> QED
      BY <3>1, <3>2, <3>3
  <2>2. PICK P : /\ Members(a, P, CharacteristicNames) /\ {"aid", "iid"} \subseteq Keys(P)
                 /\ At(P, "aid") = id[1] /\ At(P, "iid") = id[2]
    <3> DEFINE Is(S) ==
                 /\ Members(Characteristic(Db[id], format, on, Db[id].values), S,
                            CharacteristicNames)
                 /\ {"aid", "iid"} \subseteq Keys(S)
                 /\ At(S, "aid") = id[1] /\ At(S, "iid") = id[2]
                 /\ "ev" \in Keys(S) <=> "ev" \in format /\ "ev" \in Db[id].perms
                 /\ "value" \in Keys(S) => "pr" \in Db[id].perms
                 /\ "perms" \in format => ToSet(At(S, "perms")) = Db[id].perms
    <3> HIDE DEF on
    <3>1. \E S : Is(S)
      BY <2>1, CharacteristicIs
    <3> QED
      BY <3>1, Zenon
  <2>3. PICK Q : /\ Members(b, Q, {"status"})
                 /\ "status" \in Keys(Q) <=> ~success
                 /\ ~success => At(Q, "status") = "0"
    <3> DEFINE x == Status(Success)
               calls == Member("status", x)
               T == ~success
    <3>1. "status" \in Names /\ x \in Others
      BY StatusShown DEF Names, OwnNames, Success
    <3>2. T \in BOOLEAN
      OBVIOUS
    <3>3. x = "0"
      BY <1>1
    <3> HIDE DEF x, T
    <3>4. PICK R : Members(calls, R, {"status"}) /\ Keys(R) = {"status"} /\ At(R, "status") = x
      BY <3>1, MemberIs
    <3> HIDE DEF calls
    <3>5. PICK Q : Members(When(T, calls), Q, {"status"}) /\ IsWhen(T, Q, R)
      BY <3>2, <3>4, WhenIs
    <3>6. /\ Members(When(T, calls), Q, {"status"})
          /\ "status" \in Keys(Q) <=> T
          /\ T => At(Q, "status") = "0"
      BY <3>2, <3>3, <3>4, <3>5 DEF IsWhen
    <3> QED
      BY <3>6, Zenon DEF T, calls, x
  <2>4. "status" \notin CharacteristicNames
    BY DEF CharacteristicNames, MetaNames, OwnNames
  <2>5. Element(Db, subscriptions, format, success, id) = Object(a \o b)
    BY <1>2, Zenon DEF Element
  <2> HIDE DEF a, b
  <2>6. PICK S : Members(a \o b, S, CharacteristicNames \cup {"status"}) /\ Adds(S, P, Q)
    <3>1. CharacteristicNames \cap {"status"} = {}
      BY <2>4
    <3> QED
      BY <2>2, <2>3, <3>1, MembersJoined
  <2> DEFINE calls == a \o b
  <2> HIDE DEF calls
  <2>7. IsValue(Object(calls), S) /\ IsObject(S)
    BY <2>6, ObjectIsValue DEF calls
  <2>8. Id(S) = id
    <3>1. At(S, "aid") = id[1] /\ At(S, "iid") = id[2]
      BY <2>2, <2>6 DEF Adds, Holds
    <3>2. id = <<id[1], id[2]>>
      BY AnswersAssumption
    <3> QED
      BY <3>1, <3>2, Zenon DEF Id
  <2>9. "status" \in Keys(S) <=> ~success
    <3>1. "status" \notin Keys(P)
      BY <2>2, <2>4 DEF Members
    <3> QED
      BY <2>3, <2>6, <3>1 DEF Adds
  <2>10. "status" \in Keys(S) => At(S, "status") = "0"
    BY <2>3, <2>6, <2>9 DEF Adds, Holds
  <2>11. Element(Db, subscriptions, format, success, id) = Object(calls)
    BY <2>5 DEF calls
  <2> QED
    BY <1>2, <2>7, <2>8, <2>9, <2>10, <2>11
<1>3. CASE ~Readable(Db, id)
  <2>1. PICK status \in {WriteOnly, NoResource} :
          Element(Db, subscriptions, format, success, id) = Error(id, status)
    BY <1>3, Zenon DEF Element
  <2>2. status \in Int
    BY <2>1 DEF WriteOnly, NoResource
  <2>3. PICK P : /\ IsValue(Error(id, status), P) /\ IsObject(P)
                 /\ "status" \in Keys(P) /\ "value" \notin Keys(P)
                 /\ Id(P) = id /\ At(P, "status") = Status(status)
    BY <2>2, ErrorIs, Zenon
  <2>4. Status(status) # "0"
    BY <1>1, <2>1
  <2>5. ~success
    BY <1>3
  <2> QED
    BY <1>3, <2>1, <2>3, <2>4, <2>5
<1> QED
  BY <1>2, <1>3

\* A document of a list of values.
LEMMA DocumentIs ==
  ASSUME NEW key \in Names, NEW N \in Nat, NEW items, IsRow(items, N), NEW r, IsRow(r, N),
         \A i \in 1 .. N : IsValue(items[i], r[i])
  PROVE  \E P : IsValue(Document(key, items), P) /\ At(P, key) = r
<1>1. \A i \in 1 .. N : Run("array", items[i], <<r[i]>>)
  BY ItemRuns
<1>2. Run("array", FlattenSeq(items), r)
  BY <1>1, RowsRun
<1>3. PICK P : Members(List(key, items), P, {key}) /\ At(P, key) = r
  BY <1>2, ListIs
<1>4. IsValue(Object(List(key, items)), P)
  BY <1>3, ObjectIsValue
<1> QED
  BY <1>3, <1>4 DEF Document

LEMMA ReadsAnswered ==
  ASSUME InputTyped
  PROVE  ReadsAreAnswered
<1> SUFFICES ASSUME kind = "get" PROVE ReadsAreAnswered
  BY DEF ReadsAreAnswered
<1> DEFINE N == Len(input)
           on == Initial.subscribed
           answer == GetCharacteristics(Db, on, option, input)
           refused == input = <<>> \/ <<>> \in ToSet(input)
           list == Elements(answer)
           success == \A i \in DOMAIN input : Readable(Db, input[i])
           items == [i \in DOMAIN input |-> Element(Db, on, option, success, input[i])]
           calls == Document("characteristics", items)
           header == IF success THEN "200" ELSE "207"
<1>1. /\ N \in Nat /\ DOMAIN input = 1 .. N
      /\ \A i \in 1 .. N : input[i] \in Symbols["get"] /\ input[i] \in ToSet(input)
  BY DEF InputTyped, ToSet
<1>2. CASE refused
  <2>1. answer = Bare("400")
    BY <1>2, Zenon DEF GetCharacteristics
  <2> HIDE DEF answer
  <2>2. answer.header = "400"
    BY <2>1 DEF Bare
  <2> QED
    BY <1>2, <2>2, Zenon DEF ReadsAreAnswered, answer
<1>3. CASE ~refused
  <2>1. answer = Answer(header, calls)
    BY <1>3, Zenon DEF GetCharacteristics
  <2>2. success \in BOOLEAN /\ \A i \in 1 .. N : success => Readable(Db, input[i])
    BY <1>1
  <2>3. \A i \in 1 .. N : input[i] \in Requested
    BY <1>1, <1>3 DEF Requested
  <2> DEFINE Is(i, S) ==
               /\ IsObject(S) /\ Id(S) = input[i]
               /\ "status" \in Keys(S) <=> ~success
               /\ "status" \in Keys(S) => (At(S, "status") = "0" <=> Readable(Db, input[i]))
               /\ "value" \in Keys(S) => Readable(Db, input[i])
             r == [i \in 1 .. N |-> CHOOSE S : IsValue(items[i], S) /\ Is(i, S)]
  <2>4. \A i \in 1 .. N : items[i] = Element(Db, on, option, success, input[i])
    BY <1>1
  <2> HIDE DEF success, on
  <2>5. ASSUME NEW i \in 1 .. N
        PROVE  \E S : IsValue(items[i], S) /\ Is(i, S)
    <3> DEFINE id == input[i]
    <3>1. id \in Requested /\ (success => Readable(Db, id))
      BY <2>2, <2>3
    <3> HIDE DEF id
    <3>2. \E S : /\ IsValue(Element(Db, on, option, success, id), S)
                 /\ IsObject(S) /\ Id(S) = id
                 /\ "status" \in Keys(S) <=> ~success
                 /\ "status" \in Keys(S) => (At(S, "status") = "0" <=> Readable(Db, id))
                 /\ "value" \in Keys(S) => Readable(Db, id)
      BY <2>2, <3>1, ElementIs
    <3> QED
      BY <2>4, <3>2, Zenon DEF id
  <2> HIDE DEF Is
  <2>6. \A i \in 1 .. N : IsValue(items[i], r[i]) /\ Is(i, r[i])
    BY <2>5, Zenon
  <2>7. IsRow(items, N) /\ IsRow(r, N)
    BY <1>1 DEF IsRow
  <2>8. "characteristics" \in Names
    BY DEF Names
  <2> HIDE DEF items, r
  <2>9. PICK P : IsValue(calls, P) /\ At(P, "characteristics") = r
    BY <1>1, <2>6, <2>7, <2>8, DocumentIs
  <2> HIDE DEF calls, header
  <2>10. answer.header = header /\ Arrives(answer.body) /\ Read(answer) = P
    BY <2>1, <2>9, AnswerIsRead
  <2> HIDE DEF answer
  <2>11. list = r
    BY <2>9, <2>10, Zenon DEF Elements
  <2>12. Len(r) = N
    BY <1>1, <2>7 DEF IsRow
  <2>13. /\ answer.header = "200" <=> success
         /\ answer.header = "207" <=> ~success
         /\ answer.header # "400"
    BY <2>2, <2>10 DEF header
  <2>14. /\ refused <=> answer.header = "400"
         /\ ~refused =>
             /\ Arrives(answer.body) /\ Len(list) = Len(input)
             /\ answer.header = "200" <=> success
             /\ \A i \in DOMAIN input :
                  /\ IsObject(list[i]) /\ Id(list[i]) = input[i]
                  /\ "status" \in Keys(list[i]) <=> answer.header = "207"
                  /\ "status" \in Keys(list[i]) =>
                       (At(list[i], "status") = "0" <=> Readable(Db, input[i]))
                  /\ "value" \in Keys(list[i]) => Readable(Db, input[i])
    <3> HIDE DEF refused, list
    <3>1. \A i \in DOMAIN input : Is(i, list[i])
      BY <1>1, <2>6, <2>11
    <3> QED
      BY <1>3, <2>10, <2>11, <2>12, <2>13, <3>1 DEF Is
  <2> QED
    BY <2>14, Zenon DEF ReadsAreAnswered, answer, list, refused, success, on
<1> QED
  BY <1>2, <1>3

(* The controller finds in the answer to a read every characteristic it    *)
(* asked for, in order; a status with each of them exactly if the answer   *)
(* is 207, and 0 exactly with those that can be read.                      *)
THEOREM ReadsTellEach == Spec => []ReadsAreAnswered
<1>1. InputTyped => ReadsAreAnswered
  BY ReadsAnswered
<1> QED
  BY <1>1, InputAlways, PTL

-----------------------------------------------------------------------------
(* A service of the accessory database.                                    *)

\* A service names what it consists of, and its characteristics in order.
IsService(s, S) ==
  /\ At(S, "iid") = s.iid /\ IsObject(S)
  /\ Len(At(S, "characteristics")) = Len(s.ids)
  /\ DOMAIN At(S, "characteristics") = DOMAIN s.ids
  /\ \A j \in DOMAIN s.ids :
       LET c == At(S, "characteristics")[j]
       IN  /\ Id(c) = s.ids[j] /\ IsObject(c)
           /\ "ev" \in Keys(c) <=> "ev" \in Db[s.ids[j]].perms
           /\ ToSet(At(c, "perms")) = Db[s.ids[j]].perms

\* A characteristic with the value it has.
LEMMA CurrentIs ==
  ASSUME NEW id \in DOMAIN Db, NEW format, NEW subscriptions
  PROVE  \E S : /\ IsValue(Object(Characteristic(Db[id], format, id \in subscriptions,
                                                 Db[id].values)), S)
                /\ IsObject(S) /\ Id(S) = id
                /\ "ev" \in Keys(S) <=> "ev" \in format /\ "ev" \in Db[id].perms
                /\ "perms" \in format => ToSet(At(S, "perms")) = Db[id].perms
<1> DEFINE on == id \in subscriptions
           values == Db[id].values
<1>1. on \in BOOLEAN /\ AtMostOne(values) /\ ToSet(values) \subseteq Others
  <2>1. Db[id] \in Described /\ AtMostOne(values)
    BY AnswersAssumption DEF Described
  <2>2. ToSet(values) \subseteq Others
    BY <2>1, ShownTyped DEF Shown
  <2> QED
    BY <2>1, <2>2
<1> HIDE DEF on, values
<1>2. \E S : /\ IsValue(Object(Characteristic(Db[id], format, on, values)), S)
             /\ IsObject(S) /\ Id(S) = id
             /\ "ev" \in Keys(S) <=> "ev" \in format /\ "ev" \in Db[id].perms
             /\ "perms" \in format => ToSet(At(S, "perms")) = Db[id].perms
  BY <1>1, DescriptionIs
<1> QED
  BY <1>2, Zenon DEF on, values

\* The characteristics of a service.
LEMMA ContentsAre ==
  ASSUME NEW ids \in Seq(DOMAIN Db), NEW subscriptions
  PROVE  LET format == {"type", "meta", "perms", "ev"}
             items == [i \in DOMAIN ids |->
                         Object(Characteristic(Db[ids[i]], format, ids[i] \in subscriptions,
                                               Db[ids[i]].values))]
         IN  \E r : /\ Run("array", FlattenSeq(items), r) /\ IsRow(r, Len(ids))
                    /\ \A i \in 1 .. Len(ids) :
                         /\ Id(r[i]) = ids[i] /\ IsObject(r[i])
                         /\ "ev" \in Keys(r[i]) <=> "ev" \in Db[ids[i]].perms
                         /\ ToSet(At(r[i], "perms")) = Db[ids[i]].perms
<1> DEFINE N == Len(ids)
           format == {"type", "meta", "perms", "ev"}
           One(i) == Object(Characteristic(Db[ids[i]], format, ids[i] \in subscriptions,
                                           Db[ids[i]].values))
           items == [i \in DOMAIN ids |-> One(i)]
           Is(i, S) == /\ Id(S) = ids[i] /\ IsObject(S)
                       /\ "ev" \in Keys(S) <=> "ev" \in Db[ids[i]].perms
                       /\ ToSet(At(S, "perms")) = Db[ids[i]].perms
           r == [i \in 1 .. N |-> CHOOSE S : IsValue(items[i], S) /\ Is(i, S)]
<1>1. N \in Nat /\ DOMAIN ids = 1 .. N /\ \A i \in 1 .. N : ids[i] \in DOMAIN Db
  OBVIOUS
<1>2. "ev" \in format /\ "perms" \in format
  OBVIOUS
<1> HIDE DEF N, format
<1>3. IsRow(items, N) /\ \A i \in 1 .. N : items[i] = One(i)
  BY <1>1 DEF IsRow
<1> HIDE DEF One, items
<1>4. ASSUME NEW i \in 1 .. N
      PROVE  \E S : IsValue(items[i], S) /\ Is(i, S)
  <2> DEFINE id == ids[i]
  <2>1. id \in DOMAIN Db
    BY <1>1
  <2>2. One(i) = Object(Characteristic(Db[id], format, id \in subscriptions, Db[id].values))
    BY Zenon DEF One
  <2> HIDE DEF id
  <2>3. PICK S : /\ IsValue(Object(Characteristic(Db[id], format, id \in subscriptions,
                                                 Db[id].values)), S)
                 /\ IsObject(S) /\ Id(S) = id
                 /\ "ev" \in Keys(S) <=> "ev" \in format /\ "ev" \in Db[id].perms
                 /\ "perms" \in format => ToSet(At(S, "perms")) = Db[id].perms
    BY <2>1, CurrentIs, Zenon
  <2>4. IsValue(items[i], S)
    BY <1>3, <2>2, <2>3, Zenon
  <2> QED
    BY <1>2, <2>3, <2>4, Zenon DEF id
<1> HIDE DEF Is
<1>5. \A i \in 1 .. N : IsValue(items[i], r[i]) /\ Is(i, r[i])
  BY <1>4, Zenon
<1>6. IsRow(r, N)
  BY <1>1 DEF IsRow
<1> HIDE DEF r
<1>7. \A i \in 1 .. N : Run("array", items[i], <<r[i]>>)
  BY <1>5, ItemRuns
<1>8. Run("array", FlattenSeq(items), r)
  BY <1>1, <1>3, <1>6, <1>7, RowsRun
<1> QED
  BY <1>5, <1>6, <1>8, Zenon DEF items, One, Is, N, format

LEMMA ToldTyped == \A s \in Symbols["accessories"] : s.iid \in Others
<1>1. Told \subseteq Others
  BY DEF Others
<1>2. ASSUME NEW s \in Symbols["accessories"] PROVE s.iid \in Told
  <2> DEFINE y == {s.iid} \cup ToSet(s.linked)
  <2>1. y \in {{t.iid} \cup ToSet(t.linked) : t \in Symbols["accessories"]}
    BY Zenon
  <2>2. s.iid \in y
    OBVIOUS
  <2> HIDE DEF y
  <2> QED
    BY <2>1, <2>2, Zenon DEF Told
<1> QED
  BY <1>1, <1>2

LEMMA NotifiedTyped == \A e \in Symbols["events"] : ToSet(e.values) \subseteq Others
<1>1. Notified \subseteq Others
  BY DEF Others
<1>2. \A e \in Symbols["events"] : ToSet(e.values) \subseteq Notified
  BY DEF Notified
<1> QED
  BY <1>1, <1>2

\* What homekit_server_on_get_accessories writes of a service.
LEMMA ServiceIs ==
  ASSUME NEW s \in Symbols["accessories"], NEW subscriptions
  PROVE  \E S : IsValue(Service(Db, subscriptions, s), S) /\ IsService(s, S)
<1> DEFINE items == [i \in DOMAIN s.ids |->
                       Object(Characteristic(Db[s.ids[i]], {"type", "meta", "perms", "ev"},
                                             s.ids[i] \in subscriptions,
                                             Db[s.ids[i]].values))]
           T == s.linked # <<>>
           links == List("linked", Values(s.linked))
           a1 == Member("iid", s.iid)
           a2 == StringMember("type", "t")
           a3 == Member("hidden", "false")
           a4 == Member("primary", "true")
           a5 == When(T, links)
           a6 == List("characteristics", items)
<1>1. Service(Db, subscriptions, s) = Object(((((a1 \o a2) \o a3) \o a4) \o a5) \o a6)
  BY Zenon DEF Service
<1>2. /\ {"iid", "type", "t", "hidden", "primary", "linked", "characteristics"} \subseteq Names
      /\ {"true", "false"} \subseteq Others /\ s.iid \in Others
  <2>1. {"iid", "type", "t", "hidden", "primary", "linked", "characteristics"} \subseteq Names
    BY DEF Names, OwnNames
  <2>2. {"true", "false"} \subseteq Others
    BY DEF Others
  <2>4. s.iid \in Others
    BY ToldTyped
  <2> QED
    BY <2>1, <2>2, <2>4
<1>3. s.ids \in Seq(DOMAIN Db) /\ s.linked \in Seq(Others)
  BY AnswersAssumption
<1>4. PICK P1 : Members(a1, P1, {"iid"}) /\ Keys(P1) = {"iid"} /\ At(P1, "iid") = s.iid
  BY <1>2, MemberIs
<1>5. PICK P2 : Members(a2, P2, {"type"})
  BY <1>2, StringMemberIs
<1>6. PICK P3 : Members(a3, P3, {"hidden"})
  BY <1>2, MemberIs
<1>7. PICK P4 : Members(a4, P4, {"primary"})
  BY <1>2, MemberIs
<1>8. PICK P5 : Members(a5, P5, {"linked"})
  <2> DEFINE linked == s.linked
             M == Len(linked)
  <2>1. M \in Nat /\ IsRow(linked, M) /\ \A i \in 1 .. M : linked[i] \in Others
    <3>1. linked \in Seq(Others)
      BY <1>3
    <3> HIDE DEF linked
    <3> QED
      BY <3>1 DEF IsRow
  <2> HIDE DEF linked, M
  <2>2. Run("array", FlattenSeq(Values(linked)), linked)
    BY <2>1, ValuesRun
  <2>3. PICK P : Members(List("linked", Values(linked)), P, {"linked"})
    BY <1>2, <2>2, ListIs
  <2>4. Members(links, P, {"linked"}) /\ T \in BOOLEAN
    BY <2>3 DEF linked
  <2> HIDE DEF links, T
  <2> QED
    BY <2>4, WhenIs
<1> DEFINE N == Len(s.ids)
<1>9. PICK r : /\ Run("array", FlattenSeq(items), r) /\ IsRow(r, N)
               /\ \A i \in 1 .. N :
                    /\ Id(r[i]) = s.ids[i] /\ IsObject(r[i])
                    /\ "ev" \in Keys(r[i]) <=> "ev" \in Db[s.ids[i]].perms
                    /\ ToSet(At(r[i], "perms")) = Db[s.ids[i]].perms
  BY <1>3, ContentsAre, ZenonT(40)
<1> HIDE DEF items
<1>10. PICK P6 : /\ Members(a6, P6, {"characteristics"})
                 /\ Keys(P6) = {"characteristics"} /\ At(P6, "characteristics") = r
  BY <1>2, <1>9, ListIs
<1> HIDE DEF a1, a2, a3, a4, a5, a6
<1> DEFINE K2 == {"iid"} \cup {"type"}
           K3 == K2 \cup {"hidden"}
           K4 == K3 \cup {"primary"}
           K5 == K4 \cup {"linked"}
           A2 == a1 \o a2
           A3 == A2 \o a3
           A4 == A3 \o a4
           A5 == A4 \o a5
<1>11. /\ {"iid"} \cap {"type"} = {} /\ K2 \cap {"hidden"} = {} /\ K3 \cap {"primary"} = {}
       /\ K4 \cap {"linked"} = {} /\ K5 \cap {"characteristics"} = {}
  OBVIOUS
<1>12. PICK S2 : Members(A2, S2, K2) /\ Adds(S2, P1, P2)
  BY <1>4, <1>5, <1>11, MembersJoined
<1> HIDE DEF A2, K2
<1>13. PICK S3 : Members(A3, S3, K3) /\ Adds(S3, S2, P3)
  BY <1>6, <1>11, <1>12, MembersJoined
<1> HIDE DEF A3, K3
<1>14. PICK S4 : Members(A4, S4, K4) /\ Adds(S4, S3, P4)
  BY <1>7, <1>11, <1>13, MembersJoined
<1> HIDE DEF A4, K4
<1>15. PICK S5 : Members(A5, S5, K5) /\ Adds(S5, S4, P5)
  BY <1>8, <1>11, <1>14, MembersJoined
<1> HIDE DEF A5, K5
<1> DEFINE calls == A5 \o a6
<1>16. PICK S : Members(calls, S, K5 \cup {"characteristics"}) /\ Adds(S, S5, P6)
  BY <1>10, <1>11, <1>15, MembersJoined
<1>17. Service(Db, subscriptions, s) = Object(calls)
  BY <1>1, Zenon DEF A5, A4, A3, A2
<1> HIDE DEF calls
<1>18. IsValue(Object(calls), S) /\ IsObject(S)
  BY <1>16, ObjectIsValue
<1>19. At(S, "iid") = s.iid /\ At(S, "characteristics") = r
  <2>1. Holds(S, P1) /\ Holds(S, P6)
    BY <1>12, <1>13, <1>14, <1>15, <1>16 DEF Adds, Holds
  <2> QED
    BY <1>4, <1>10, <2>1 DEF Holds
<1>20. N \in Nat /\ DOMAIN s.ids = 1 .. N
  <2> DEFINE ids == s.ids
  <2>1. ids \in Seq(DOMAIN Db)
    BY <1>3
  <2> HIDE DEF ids
  <2>2. Len(ids) \in Nat /\ DOMAIN ids = 1 .. Len(ids)
    BY <2>1
  <2> QED
    BY <2>2 DEF ids
<1> HIDE DEF N
<1>21. Len(r) = N /\ DOMAIN r = 1 .. N
  BY <1>9, <1>20 DEF IsRow
<1>22. IsService(s, S)
  BY <1>9, <1>18, <1>19, <1>20, <1>21, Zenon DEF IsService, N
<1> QED
  BY <1>17, <1>18, <1>22

-----------------------------------------------------------------------------
(* The accessory database.                                                 *)

\* The accessory database, of one accessory.
LEMMA DatabaseIs ==
  ASSUME NEW services \in Seq(Symbols["accessories"]), NEW subscriptions
  PROVE  LET answer == GetAccessories(Db, subscriptions, <<[aid |-> "1", services |-> services]>>)
             list == At(At(Read(answer), "accessories")[1], "services")
         IN  /\ Arrives(answer.body) /\ Len(list) = Len(services)
             /\ \A i \in DOMAIN services : IsService(services[i], list[i])
<1> DEFINE N == Len(services)
           one == [aid |-> "1", services |-> services]
           accessories == <<one>>
           answer == GetAccessories(Db, subscriptions, accessories)
           rows == [j \in DOMAIN services |-> Service(Db, subscriptions, services[j])]
           a == Member("aid", "1")
           b == List("services", rows)
           items == [i \in DOMAIN accessories |->
                       LET x == accessories[i]
                       IN  Object(Member("aid", x.aid)
                                  \o List("services",
                                          [j \in DOMAIN x.services |->
                                             Service(Db, subscriptions, x.services[j])]))]
           calls == Document("accessories", items)
           r == [i \in 1 .. N |-> CHOOSE S : IsValue(rows[i], S) /\ IsService(services[i], S)]
<1>1. /\ N \in Nat /\ DOMAIN services = 1 .. N
      /\ \A i \in 1 .. N : services[i] \in Symbols["accessories"]
  OBVIOUS
<1>2. {"aid", "accessories", "services"} \subseteq Names /\ "1" \in Others
  BY DEF Names, OwnNames, Others
<1>3. answer = Answer("200", calls)
  BY Zenon DEF GetAccessories
<1>4. IsRow(items, 1) /\ items[1] = Object(a \o b)
  <2>1. DOMAIN accessories = 1 .. 1 /\ accessories[1] = one
    OBVIOUS
  <2>2. one.aid = "1" /\ one.services = services
    OBVIOUS
  <2> HIDE DEF one, accessories
  <2> QED
    BY <2>1, <2>2 DEF IsRow
<1> HIDE DEF N
<1>5. IsRow(rows, N) /\ \A i \in 1 .. N : rows[i] = Service(Db, subscriptions, services[i])
  BY <1>1 DEF IsRow
<1> HIDE DEF rows
<1>6. \A i \in 1 .. N : IsValue(rows[i], r[i]) /\ IsService(services[i], r[i])
  <2>1. \A i \in 1 .. N : \E S : IsValue(rows[i], S) /\ IsService(services[i], S)
    BY <1>1, <1>5, ServiceIs
  <2> QED
    BY <2>1, Zenon
<1>7. IsRow(r, N) /\ Len(r) = N
  BY <1>1 DEF IsRow
<1> HIDE DEF r
<1>8. Run("array", FlattenSeq(rows), r)
  <2>1. \A i \in 1 .. N : Run("array", rows[i], <<r[i]>>)
    BY <1>6, ItemRuns
  <2> QED
    BY <1>1, <1>5, <1>7, <2>1, RowsRun
<1>9. PICK P : Members(a, P, {"aid"})
  BY <1>2, MemberIs
<1>10. PICK Q : Members(b, Q, {"services"}) /\ Keys(Q) = {"services"} /\ At(Q, "services") = r
  BY <1>2, <1>8, ListIs
<1> HIDE DEF a, b
<1> DEFINE ab == a \o b
<1>11. PICK S : Members(ab, S, {"aid"} \cup {"services"}) /\ Adds(S, P, Q)
  <2>1. {"aid"} \cap {"services"} = {}
    OBVIOUS
  <2> QED
    BY <1>9, <1>10, <2>1, MembersJoined
<1>12. At(S, "services") = r
  BY <1>10, <1>11 DEF Adds, Holds
<1>13. items[1] = Object(ab)
  BY <1>4
<1> HIDE DEF ab, items
<1>14. IsValue(items[1], S)
  BY <1>11, <1>13, ObjectIsValue
<1> DEFINE all == [i \in 1 .. 1 |-> S]
<1>15. IsRow(all, 1) /\ all[1] = S /\ \A i \in 1 .. 1 : IsValue(items[i], all[i])
  BY <1>14 DEF IsRow
<1> HIDE DEF all
<1>16. PICK T : IsValue(calls, T) /\ At(T, "accessories") = all
  BY <1>2, <1>4, <1>15, DocumentIs
<1> HIDE DEF calls
<1>17. Arrives(answer.body) /\ Read(answer) = T
  <2> HIDE DEF answer
  <2> QED
    BY <1>3, <1>16, AnswerIsRead
<1> HIDE DEF answer
<1>18. At(At(Read(answer), "accessories")[1], "services") = r
  BY <1>12, <1>15, <1>16, <1>17, Zenon
<1> DEFINE list == At(At(Read(answer), "accessories")[1], "services")
<1>19. list = r
  BY <1>18
<1> HIDE DEF list
<1>20. /\ Arrives(answer.body) /\ Len(list) = Len(services)
       /\ \A i \in DOMAIN services : IsService(services[i], list[i])
  BY <1>1, <1>6, <1>7, <1>17, <1>19, Zenon DEF N
<1> QED
  BY <1>20, Zenon DEF list, answer, accessories, one

\* An EVENT.
LEMMA EventsAre ==
  ASSUME NEW events \in Seq(Symbols["events"])
  PROVE  LET answer == ClientEvents(Db, events)
         IN  /\ Arrives(answer.body)
             /\ \A i \in DOMAIN events : Id(Elements(answer)[i]) = events[i].id
<1> DEFINE N == Len(events)
           answer == ClientEvents(Db, events)
           One(e) == Object(Characteristic(Db[e.id], {}, FALSE, e.values))
           items == [i \in DOMAIN events |-> One(events[i])]
           calls == Document("characteristics", items)
           r == [i \in 1 .. N |-> CHOOSE S : IsValue(items[i], S) /\ Id(S) = events[i].id]
<1>1. N \in Nat /\ DOMAIN events = 1 .. N /\ \A i \in 1 .. N : events[i] \in Symbols["events"]
  OBVIOUS
<1>2. "characteristics" \in Names
  BY DEF Names
<1>3. answer = Answer("EVENT", calls)
  BY Zenon DEF ClientEvents
<1>4. ASSUME NEW e \in Symbols["events"]
      PROVE  \E S : IsValue(One(e), S) /\ Id(S) = e.id
  <2> DEFINE id == e.id
             values == e.values
             format == {}
  <2>1. id \in DOMAIN Db /\ AtMostOne(values) /\ ToSet(values) \subseteq Others
    BY AnswersAssumption, NotifiedTyped
  <2>2. One(e) = Object(Characteristic(Db[id], format, FALSE, values)) /\ FALSE \in BOOLEAN
    BY Zenon
  <2> HIDE DEF id, values, format, One
  <2>3. PICK S : /\ IsValue(Object(Characteristic(Db[id], format, FALSE, values)), S)
                 /\ IsObject(S) /\ Id(S) = id
                 /\ "ev" \in Keys(S) <=> "ev" \in format /\ "ev" \in Db[id].perms
                 /\ "perms" \in format => ToSet(At(S, "perms")) = Db[id].perms
    BY <2>1, <2>2, DescriptionIs, Zenon
  <2> QED
    BY <2>2, <2>3, Zenon DEF id
<1> HIDE DEF One
<1> HIDE DEF N
<1>5. IsRow(items, N) /\ \A i \in 1 .. N : items[i] = One(events[i])
  BY <1>1 DEF IsRow
<1> HIDE DEF items
<1>6. \A i \in 1 .. N : IsValue(items[i], r[i]) /\ Id(r[i]) = events[i].id
  <2>1. \A i \in 1 .. N : \E S : IsValue(items[i], S) /\ Id(S) = events[i].id
    BY <1>1, <1>4, <1>5
  <2> QED
    BY <2>1, Zenon
<1>7. IsRow(r, N)
  BY <1>1 DEF IsRow
<1> HIDE DEF r
<1>8. PICK P : IsValue(calls, P) /\ At(P, "characteristics") = r
  BY <1>1, <1>2, <1>5, <1>6, <1>7, DocumentIs
<1> HIDE DEF calls, answer
<1>9. Arrives(answer.body) /\ Read(answer) = P
  BY <1>3, <1>8, AnswerIsRead
<1>10. Elements(answer) = r
  BY <1>8, <1>9, Zenon DEF Elements
<1>11. \A i \in DOMAIN events : Id(Elements(answer)[i]) = events[i].id
  BY <1>1, <1>6, <1>10
<1> QED
  BY <1>9, <1>11, Zenon DEF answer

LEMMA ListsWhole ==
  ASSUME InputTyped
  PROVE  ListsAreWhole
<1>1. ASSUME kind = "accessories"
      PROVE  LET answer == GetAccessories(Db, Initial.subscribed,
                                          <<[aid |-> "1", services |-> input]>>)
                 list == At(At(Read(answer), "accessories")[1], "services")
             IN  /\ Arrives(answer.body) /\ Len(list) = Len(input)
                 /\ \A i \in DOMAIN input : IsService(input[i], list[i])
  <2>1. input \in Seq(Symbols["accessories"])
    BY <1>1 DEF InputTyped
  <2> QED
    BY <2>1, DatabaseIs, Zenon
<1>2. ASSUME kind = "events"
      PROVE  LET answer == ClientEvents(Db, input)
             IN  /\ Arrives(answer.body)
                 /\ [i \in DOMAIN input |-> Id(Elements(answer)[i])]
                      = [i \in DOMAIN input |-> input[i].id]
  <2> DEFINE answer == ClientEvents(Db, input)
  <2>1. input \in Seq(Symbols["events"])
    BY <1>2 DEF InputTyped
  <2>2. /\ Arrives(answer.body)
        /\ \A i \in DOMAIN input : Id(Elements(answer)[i]) = input[i].id
    BY <2>1, EventsAre, Zenon
  <2> HIDE DEF answer
  <2>3. [i \in DOMAIN input |-> Id(Elements(answer)[i])] = [i \in DOMAIN input |-> input[i].id]
    BY <2>2
  <2> QED
    BY <2>2, <2>3, Zenon DEF answer
<1> DEFINE answer == GetAccessories(Db, Initial.subscribed,
                                    <<[aid |-> "1", services |-> input]>>)
           list == At(At(Read(answer), "accessories")[1], "services")
<1>3. kind = "accessories" =>
        /\ Arrives(answer.body) /\ Len(list) = Len(input)
        /\ \A i \in DOMAIN input :
             LET chars == At(list[i], "characteristics")
             IN  /\ At(list[i], "iid") = input[i].iid /\ IsObject(list[i])
                 /\ Len(chars) = Len(input[i].ids)
                 /\ \A j \in DOMAIN chars :
                      LET ch == Db[input[i].ids[j]]
                      IN  /\ Id(chars[j]) = input[i].ids[j] /\ IsObject(chars[j])
                          /\ "ev" \in Keys(chars[j]) <=> "ev" \in ch.perms
                          /\ ToSet(At(chars[j], "perms")) = ch.perms
  <2>1. kind = "accessories" =>
          /\ Arrives(answer.body) /\ Len(list) = Len(input)
          /\ \A i \in DOMAIN input : IsService(input[i], list[i])
    BY <1>1, Zenon
  <2> HIDE DEF answer, list
  <2> QED
    BY <2>1, Zenon DEF IsService
<1> QED
  BY <1>2, <1>3, Zenon DEF ListsAreWhole

(* The accessory database and the EVENTs hold what they are about, however *)
(* long they are: each service with its characteristics in order, "ev"     *)
(* where events can be had, and each event in order.                       *)
THEOREM ListsTellAll == Spec => []ListsAreWhole
<1>1. InputTyped => ListsAreWhole
  BY ListsWhole
<1> QED
  BY <1>1, InputAlways, PTL

-----------------------------------------------------------------------------
(* The answer to a write.                                                  *)

LEMMA StatusTyped ==
  ASSUME NEW e
  PROVE  UpdateStatus(Db, e) \in Statuses /\ ValueStatus(Db, e) \in Statuses
BY DEF UpdateStatus, ValueStatus, EventsStatus, Statuses

LEMMA StatusesTyped == Statuses \subseteq Int
BY DEF Statuses, Success, ReadOnly, WriteOnly, NotificationsUnsupported, NoResource, InvalidValue

\* An element that is refused changes nothing.
LEMMA RefusedUpdate ==
  ASSUME NEW s, NEW e, UpdateStatus(Db, e) # Success
  PROVE  Updated(Db, s, e) = s
<1>1. CASE e.id \notin DOMAIN Db \/ ValueStatus(Db, e) # Success
  BY <1>1 DEF Updated
<1>2. CASE e.id \in DOMAIN Db /\ ValueStatus(Db, e) = Success
  <2>1. EventsStatus(Db, e) # Success
    BY <1>2 DEF UpdateStatus
  <2>2. Db[e.id].perms = {}
    BY <2>1 DEF EventsStatus
  <2>3. e.value = <<>>
    BY <1>2, <2>2 DEF ValueStatus, Success, ReadOnly
  <2>4. AfterValue(Db, s, e) = s /\ AfterEvents(Db, s, e) = s
    BY <2>1, <2>3 DEF AfterValue, AfterEvents
  <2> QED
    BY <1>2, <2>4 DEF Updated
<1> QED
  BY <1>1, <1>2

\* A number is stored as it is, or cut.
LEMMA NumberConverted ==
  ASSUME NEW ch, IsCharacteristic(ch), NEW v \in JsonValue, v.type = "number",
         Converted(ch, v) # <<>>
  PROVE  Converted(ch, v)[1] = IF ch.format = "float" THEN v.double ELSE Truncated(v.double)
<1>1. CASE ch.format = "bool"
  <2>1. Converted(ch, v) = Bool(ch, v)
    BY <1>1 DEF Converted
  <2>2. Bool(ch, v)[1] = ValueInt(v)
    BY <2>1 DEF Bool
  <2> QED
    BY <1>1, <2>1, <2>2 DEF ValueInt
<1>2. CASE ch.format \in {"uint8", "uint16", "int"}
  <2>1. Converted(ch, v) = Number(ch, v)
    BY <1>2 DEF Converted
  <2> QED
    BY <1>2, <2>1 DEF Number
<1>3. CASE ch.format = "float"
  <2>1. Converted(ch, v) = Float(ch, v)
    BY <1>3 DEF Converted
  <2> QED
    BY <1>3, <2>1 DEF Float
<1>4. CASE ch.format \in {"string", "tlv", "data"}
  <2>1. Converted(ch, v) = Text(ch, v)
    BY <1>4 DEF Converted
  <2> QED
    BY <1>4, <2>1 DEF Text
<1> QED
  BY <1>1, <1>2, <1>3, <1>4 DEF IsCharacteristic, Formats

\* One that succeeds does what it says and no more.
LEMMA AcceptedUpdate ==
  ASSUME NEW s \in States, NEW e \in Symbols["put"], UpdateStatus(Db, e) = Success
  PROVE  LET t == Updated(Db, s, e)
         IN  /\ \A id \in DOMAIN Db \ {e.id} :
                  t.stored[id] = s.stored[id] /\ (id \in t.subscribed <=> id \in s.subscribed)
             /\ (e.value # <<>> /\ e.value[1].type = "number") =>
                  t.stored[e.id] = IF Db[e.id].format = "float" THEN e.value[1].double
                                   ELSE Truncated(e.value[1].double)
             /\ (e.ev # <<>> /\ e.ev[1] \in {"true", "false"}) =>
                  (e.id \in t.subscribed <=> e.ev[1] = "true")
<1>1. e.id \in DOMAIN Db /\ ValueStatus(Db, e) = Success /\ EventsStatus(Db, e) = Success
  BY DEF UpdateStatus, Success, NoResource
<1> DEFINE u == AfterValue(Db, s, e)
           t == AfterEvents(Db, u, e)
<1>2. /\ u \in States /\ u.subscribed = s.subscribed
      /\ \A id \in DOMAIN Db \ {e.id} : u.stored[id] = s.stored[id]
      /\ (e.value # <<>> /\ e.value[1].type = "number") =>
           u.stored[e.id] = IF Db[e.id].format = "float" THEN e.value[1].double
                            ELSE Truncated(e.value[1].double)
  <2>1. CASE e.value = <<>>
    BY <2>1 DEF AfterValue
  <2>2. CASE e.value # <<>>
    <3> DEFINE v == e.value[1]
               ch == Db[e.id]
               x == Converted(ch, v)[1]
    <3>1. v \in JsonValue /\ IsCharacteristic(ch)
      BY <1>1, <2>2, WritesAssumption
    <3>2. Converted(ch, v) # <<>>
      BY <1>1, <2>2 DEF ValueStatus, Success, InvalidValue, ReadOnly
    <3>3. u = [s EXCEPT !.stored[e.id] = x]
      BY <2>2 DEF AfterValue
    <3> HIDE DEF ch, v
    <3>4. x \in Int
      BY <3>1, <3>2, ConvertedAllowed
    <3>5. v.type = "number" =>
            x = IF ch.format = "float" THEN v.double ELSE Truncated(v.double)
      BY <3>1, <3>2, NumberConverted
    <3> HIDE DEF x, u
    <3>6. /\ u \in States /\ u.subscribed = s.subscribed
          /\ u.stored = [s.stored EXCEPT ![e.id] = x]
      BY <3>3, <3>4 DEF States
    <3>7. u.stored[e.id] = x /\ \A id \in DOMAIN Db \ {e.id} : u.stored[id] = s.stored[id]
      BY <1>1, <3>6 DEF States
    <3> QED
      BY <3>5, <3>6, <3>7, Zenon DEF ch, v
  <2> QED
    BY <2>1, <2>2
<1> HIDE DEF u
<1>3. /\ t.stored = u.stored
      /\ \A id \in DOMAIN Db \ {e.id} : id \in t.subscribed <=> id \in u.subscribed
      /\ (e.ev # <<>> /\ e.ev[1] \in {"true", "false"}) =>
           (e.id \in t.subscribed <=> e.ev[1] = "true")
  BY <1>1, <1>2 DEF AfterEvents, States
<1>4. Updated(Db, s, e) = t
  BY <1>1 DEF Updated, u
<1> HIDE DEF t
<1> DEFINE w == Updated(Db, s, e)
<1>5. w = t
  BY <1>4
<1> HIDE DEF w
<1>6. /\ \A id \in DOMAIN Db \ {e.id} :
            w.stored[id] = s.stored[id] /\ (id \in w.subscribed <=> id \in s.subscribed)
      /\ (e.value # <<>> /\ e.value[1].type = "number") =>
            w.stored[e.id] = IF Db[e.id].format = "float" THEN e.value[1].double
                             ELSE Truncated(e.value[1].double)
      /\ (e.ev # <<>> /\ e.ev[1] \in {"true", "false"}) =>
            (e.id \in w.subscribed <=> e.ev[1] = "true")
  BY <1>2, <1>3, <1>5
<1> QED
  BY <1>6, Zenon DEF w

\* The answer to an update that not all elements of succeed in.
LEMMA StatusesAre ==
  ASSUME NEW N \in Nat, NEW ids, IsRow(ids, N), NEW statuses, IsRow(statuses, N),
         \A i \in 1 .. N : ids[i] \in Requested /\ statuses[i] \in Statuses,
         \E i \in 1 .. N : statuses[i] # Success
  PROVE  LET answer == UpdateCharacteristics(ids, statuses)
             list == Elements(answer)
         IN  /\ answer.header = "207" /\ Arrives(answer.body) /\ Len(list) = N
             /\ \A i \in 1 .. N :
                  Id(list[i]) = ids[i] /\ At(list[i], "status") = Status(statuses[i])
<1> DEFINE answer == UpdateCharacteristics(ids, statuses)
           items == [i \in DOMAIN ids |-> Error(ids[i], statuses[i])]
           calls == Document("characteristics", items)
           Is(i, P) == Id(P) = ids[i] /\ At(P, "status") = Status(statuses[i])
           r == [i \in 1 .. N |-> CHOOSE P : IsValue(items[i], P) /\ Is(i, P)]
<1>1. DOMAIN ids = 1 .. N
  BY DEF IsRow
<1>2. answer = Answer("207", calls)
  BY <1>1, Zenon DEF UpdateCharacteristics
<1>3. "characteristics" \in Names
  BY DEF Names
<1>4. IsRow(items, N) /\ \A i \in 1 .. N : items[i] = Error(ids[i], statuses[i])
  BY <1>1 DEF IsRow
<1> HIDE DEF items
<1>5. ASSUME NEW i \in 1 .. N
      PROVE  \E P : IsValue(items[i], P) /\ Is(i, P)
  <2> DEFINE id == ids[i]
             status == statuses[i]
  <2>1. id \in Requested /\ status \in Int
    BY StatusesTyped
  <2> HIDE DEF id, status
  <2>2. PICK P : /\ IsValue(Error(id, status), P) /\ IsObject(P)
                 /\ "status" \in Keys(P) /\ "value" \notin Keys(P)
                 /\ Id(P) = id /\ At(P, "status") = Status(status)
    BY <2>1, ErrorIs, Zenon
  <2> QED
    BY <1>4, <2>2, Zenon DEF id, status
<1> HIDE DEF Is
<1>6. \A i \in 1 .. N : IsValue(items[i], r[i]) /\ Is(i, r[i])
  BY <1>5, Zenon
<1>7. IsRow(r, N) /\ Len(r) = N
  BY DEF IsRow
<1> HIDE DEF r
<1>8. PICK P : IsValue(calls, P) /\ At(P, "characteristics") = r
  BY <1>3, <1>4, <1>6, <1>7, DocumentIs
<1> HIDE DEF calls, answer
<1>9. answer.header = "207" /\ Arrives(answer.body) /\ Read(answer) = P
  BY <1>2, <1>8, AnswerIsRead
<1>10. Elements(answer) = r
  BY <1>8, <1>9, Zenon DEF Elements
<1> QED
  BY <1>6, <1>7, <1>9, <1>10, Zenon DEF answer, Is

LEMMA UpdatesAnswered ==
  ASSUME InputTyped
  PROVE  UpdatesAreAnswered
<1> SUFFICES ASSUME kind = "put", input # <<>> PROVE UpdatesAreAnswered
  BY DEF UpdatesAreAnswered
<1> DEFINE N == Len(input)
           e == Last(input)
           s == After[N - 1]
           t == After[N]
           ids == [i \in DOMAIN input |-> input[i].id]
           statuses == [i \in DOMAIN input |-> UpdateStatus(Db, input[i])]
           answer == UpdateCharacteristics(ids, statuses)
           list == Elements(answer)
<1>1. /\ N \in Nat /\ N \in 1 .. N /\ DOMAIN input = 1 .. N
      /\ \A i \in 1 .. N : input[i] \in Symbols["put"] /\ e = input[N]
  BY DEF InputTyped, Last
<1>2. s \in States /\ t = Updated(Db, s, e) /\ e \in Symbols["put"]
  <2>1. N - 1 \in 0 .. N
    BY <1>1
  <2>2. s \in States
    BY <2>1, AfterTyped
  <2>3. t = Updated(Db, s, e)
    BY <1>1, AfterSteps
  <2> QED
    BY <1>1, <2>2, <2>3
<1> HIDE DEF N, e, s, t
<1>3. /\ IsRow(ids, N) /\ IsRow(statuses, N)
      /\ \A i \in 1 .. N : ids[i] = input[i].id /\ statuses[i] = UpdateStatus(Db, input[i])
  BY <1>1 DEF IsRow
<1>4. Last(statuses) = UpdateStatus(Db, e)
  <2>1. Len(statuses) = N
    BY <1>1
  <2> HIDE DEF statuses
  <2> QED
    BY <1>1, <1>3, <2>1 DEF Last
<1> HIDE DEF ids, statuses
<1>5. \A i \in 1 .. N : ids[i] \in Requested /\ statuses[i] \in Statuses
  <2>1. \A x \in Symbols["put"] : x.id \in Requested
    BY DEF Requested
  <2> QED
    BY <1>1, <1>3, <2>1, StatusTyped
<1>6. Last(statuses) # Success => t = s
  BY <1>2, <1>4, RefusedUpdate
<1>7. Last(statuses) = Success =>
        /\ \A id \in DOMAIN Db \ {e.id} :
             t.stored[id] = s.stored[id] /\ (id \in t.subscribed <=> id \in s.subscribed)
        /\ (e.value # <<>> /\ e.value[1].type = "number") =>
             t.stored[e.id] = IF Db[e.id].format = "float" THEN e.value[1].double
                              ELSE Truncated(e.value[1].double)
        /\ (e.ev # <<>> /\ e.ev[1] \in {"true", "false"}) =>
             (e.id \in t.subscribed <=> e.ev[1] = "true")
  BY <1>2, <1>4, AcceptedUpdate, Zenon
<1>8. DOMAIN ids = 1 .. N
  BY <1>3 DEF IsRow
<1> DEFINE All == \A i \in DOMAIN input : statuses[i] = Success
           Tells == /\ Arrives(answer.body) /\ Len(list) = Len(input)
                    /\ \A i, j \in DOMAIN input :
                         /\ Id(list[i]) = ids[i]
                         /\ (At(list[i], "status") = At(list[j], "status")
                               <=> statuses[i] = statuses[j])
<1>9. ASSUME All PROVE answer.header = "204"
  <2>1. answer = Bare("204")
    BY <1>1, <1>8, <1>9, Zenon DEF UpdateCharacteristics
  <2> HIDE DEF answer
  <2> QED
    BY <2>1 DEF Bare
<1>10. ASSUME ~All PROVE answer.header # "204" /\ Tells
  <2>1. \E i \in 1 .. N : statuses[i] # Success
    BY <1>1, <1>10, Zenon
  <2>2. /\ answer.header = "207" /\ Arrives(answer.body) /\ Len(list) = N
        /\ \A i \in 1 .. N : Id(list[i]) = ids[i] /\ At(list[i], "status") = Status(statuses[i])
    BY <1>1, <1>3, <1>5, <2>1, StatusesAre
  <2> HIDE DEF answer, list
  <2>3. \A i, j \in 1 .. N :
          At(list[i], "status") = At(list[j], "status") <=> statuses[i] = statuses[j]
    BY <1>5, <2>2, StatusesApart
  <2>4. Tells
    BY <1>1, <2>2, <2>3, Zenon DEF N
  <2> QED
    BY <2>2, <2>4
<1> HIDE DEF Tells, All
<1>11. /\ answer.header = "204" <=> All
       /\ answer.header # "204" => Tells
  <2> HIDE DEF answer
  <2> QED
    BY <1>9, <1>10, Zenon
<1> HIDE DEF answer
<1> QED
  BY <1>6, <1>7, <1>11, Zenon
     DEF UpdatesAreAnswered, All, Tells, answer, list, ids, statuses, e, s, t, N

(* An element of an update that succeeds has stored the number it gave and *)
(* set the subscription it asked for, and touched nothing else; one that   *)
(* is refused has changed nothing; and the answer tells the statuses apart *)
(* unless all have succeeded (homekit_server_on_update_characteristics).   *)
THEOREM UpdatesTellEach == Spec => []UpdatesAreAnswered
<1>1. InputTyped => UpdatesAreAnswered
  BY UpdatesAnswered
<1> QED
  BY <1>1, InputAlways, PTL
=============================================================================
