------------------------- MODULE SecureChannelProofs -------------------------
(***************************************************************************)
(* Three facts for frames of every size and requests cut in every way: the *)
(* state stays in its types; as long as every read takes one frame, the    *)
(* parser gets the stream in order; and both ends of a connection number   *)
(* the server's frames alike.  The server counts a frame when its session  *)
(* is encrypted, the controller when pair verify has been answered: these  *)
(* are the same, since only the handler of a request that was really sent  *)
(* answers in plain, and the plain stream reaches the parser in order.     *)
(***************************************************************************)
EXTENDS SecureChannel, Induction, FiniteSetTheorems, SequenceTheorems

-----------------------------------------------------------------------------
(* The sizes of a request's frames, and frames behind one another.         *)

LEMMA BytesSum ==
  ASSUME NEW sizes \in Seq(1 .. MaxChunk)
  PROVE  /\ Bytes(sizes)[0] = 0
         /\ \A k \in 0 .. Len(sizes) : Bytes(sizes)[k] \in Nat
         /\ \A k \in 1 .. Len(sizes) : Bytes(sizes)[k] = Bytes(sizes)[k - 1] + sizes[k]
<1> DEFINE n == Len(sizes)
           step == [i \in 1 .. n |-> [t \in Nat |-> t + sizes[i]]]
<1>1. n \in Nat /\ \A i \in 1 .. n : sizes[i] \in Nat
  BY FrameAssumption
<1>2. IsStep(step, n, Nat)
  BY <1>1 DEF IsStep
<1>3. PICK f : f \in [0 .. n -> Nat] /\ Follows(f, n, 0, step)
  <2> HIDE DEF step, n
  <2> QED
    BY <1>1, <1>2, RecursionUpTo
<1>4. ASSUME NEW i \in 1 .. n PROVE f[i] = f[i - 1] + sizes[i]
  <2>1. f[i - 1] \in Nat
    <3> HIDE DEF step, n
    <3> QED
      BY <1>1, <1>3
  <2> QED
    BY <1>3, <2>1 DEF Follows
<1> DEFINE Sums(g) == g = [k \in 0 .. Len(sizes) |->
                              IF k = 0 THEN 0 ELSE g[k - 1] + sizes[k]]
           sum == CHOOSE g : Sums(g)
<1>5. Sums(f)
  <2>1. \A i \in 0 .. n : i = 0 \/ i \in 1 .. n
    BY <1>1
  <2>2. \A i \in 0 .. n : f[i] = IF i = 0 THEN 0 ELSE f[i - 1] + sizes[i]
    BY <1>3, <1>4, <2>1 DEF Follows
  <2> QED
    BY <1>3, <2>2
<1>6. Sums(sum)
  <2> HIDE DEF Sums
  <2> QED
    BY <1>5
<1>7. Bytes(sizes) = sum
  BY DEF Bytes
<1> HIDE DEF sum
<1>8. sum[0] = 0 /\ \A i \in 1 .. n : sum[i] = sum[i - 1] + sizes[i]
  <2>1. \A i \in 0 .. n : sum[i] = IF i = 0 THEN 0 ELSE sum[i - 1] + sizes[i]
    BY <1>6, Zenon
  <2>2. 0 \in 0 .. n /\ \A i \in 1 .. n : i \in 0 .. n /\ i # 0
    BY <1>1
  <2> QED
    BY <2>1, <2>2
<1> HIDE DEF Sums, step
<1>9. \A k \in 0 .. n : sum[k] \in Nat
  <2> DEFINE S == {k \in 0 .. n : sum[k] \in Nat}
  <2>1. IsInductive(S, n)
    BY <1>1, <1>8 DEF IsInductive
  <2> HIDE DEF S
  <2>2. \A k \in 0 .. n : k \in S
    BY <1>1, <2>1, InductionUpTo
  <2> QED
    BY <2>2 DEF S
<1> QED
  BY <1>7, <1>8, <1>9

\* Some of a request's frames hold no more than all of them, which hold some.
LEMMA BytesTotal ==
  ASSUME NEW sizes \in Seq(1 .. MaxChunk) \ {<<>>}
  PROVE  /\ Total(sizes) \in Nat \ {0}
         /\ \A k \in 0 .. Len(sizes) : Bytes(sizes)[k] <= Total(sizes)
<1> DEFINE n == Len(sizes)
           B == Bytes(sizes)
<1>1. n \in Nat \ {0} /\ \A i \in 1 .. n : sizes[i] \in Nat \ {0}
  BY FrameAssumption
<1>2. /\ \A k \in 0 .. n : B[k] \in Nat
      /\ \A k \in 1 .. n : B[k] = B[k - 1] + sizes[k]
  BY BytesSum
<1>3. Total(sizes) = B[n]
  BY DEF Total
<1> HIDE DEF B, n
<1>4. \A k \in 0 .. n : B[n - k] <= B[n]
  <2> DEFINE S == {k \in 0 .. n : B[n - k] <= B[n]}
  <2>1. 0 \in S
    BY <1>1, <1>2
  <2>2. ASSUME NEW k \in 0 .. n - 1, k \in S
        PROVE  k + 1 \in S
    <3>1. n - k \in 1 .. n /\ n - (k + 1) = n - k - 1 /\ n - (k + 1) \in 0 .. n
      BY <1>1
    <3>2. /\ B[n - k] = B[n - k - 1] + sizes[n - k] /\ B[n - k - 1] \in Nat
          /\ sizes[n - k] \in Nat
      BY <1>1, <1>2, <3>1
    <3>3. B[n - k] <= B[n] /\ B[n] \in Nat
      BY <1>1, <1>2, <2>2
    <3> QED
      BY <1>1, <3>1, <3>2, <3>3
  <2> HIDE DEF S
  <2>3. \A k \in 0 .. n : k \in S
    BY <1>1, <2>1, <2>2, InductionUpTo DEF IsInductive
  <2> QED
    BY <2>3 DEF S
<1>5. ASSUME NEW k \in 0 .. n PROVE B[k] <= B[n]
  <2>1. n - k \in 0 .. n /\ n - (n - k) = k
    BY <1>1
  <2> QED
    BY <1>4, <2>1
<1>6. B[n] \in Nat \ {0}
  <2>1. n \in 1 .. n /\ n - 1 \in 0 .. n
    BY <1>1
  <2> QED
    BY <1>1, <1>2, <2>1
<1> QED
  BY <1>3, <1>5, <1>6 DEF B, n

LEMMA SealedTyped ==
  ASSUME NEW frames \in Seq(Frame), Len(frames) <= MaxFrames,
         NEW n \in 0 .. Len(frames) - 1
  PROVE  /\ frames[n + 1] \in Frame /\ frames[n + 1].size \in Nat \ {0}
         /\ Sealed(frames, n) \in Seq(Byte)
         /\ Len(Sealed(frames, n)) = frames[n + 1].size + Overhead
         /\ Sealed(frames, n)[1] = <<n, 0>>
<1>1. frames[n + 1] \in Frame /\ n \in -1 .. MaxFrames
  BY BoundsAssumption
<1>2. frames[n + 1].size \in Nat \ {0}
  BY <1>1, FrameAssumption DEF Frame
<1> DEFINE len == frames[n + 1].size + Overhead
<1>3. len \in Nat \ {0}
  BY <1>2, FrameAssumption
<1>4. Sealed(frames, n) = [i \in 1 .. len |-> <<n, i - 1>>]
  BY DEF Sealed
<1> HIDE DEF len
<1>5. \A i \in 1 .. len : <<n, i - 1>> \in Byte
  BY <1>1, <1>3 DEF Byte
<1>6. Sealed(frames, n) \in Seq(Byte) /\ Len(Sealed(frames, n)) = len
  BY <1>3, <1>4, <1>5
<1>7. Sealed(frames, n)[1] = <<n, 0>>
  BY <1>3, <1>4
<1> QED
  BY <1>1, <1>2, <1>6, <1>7 DEF len

LEMMA TailsTyped ==
  ASSUME NEW frames \in Seq(Frame), Len(frames) <= MaxFrames,
         NEW n \in 0 .. Len(frames)
  PROVE  /\ Tails(frames, n)[0] = <<>>
         /\ \A k \in 0 .. n : Tails(frames, n)[k] \in Seq(Byte)
         /\ \A k \in 1 .. n : Tails(frames, n)[k]
                               = Sealed(frames, n - k) \o Tails(frames, n)[k - 1]
<1> DEFINE T == Seq(Byte)
           step == [i \in 1 .. n |-> [t \in T |-> Sealed(frames, n - i) \o t]]
<1>1. n \in Nat /\ \A i \in 1 .. n : Sealed(frames, n - i) \in T
  <2>1. \A i \in 1 .. n : n - i \in 0 .. Len(frames) - 1
    OBVIOUS
  <2> QED
    BY <2>1, SealedTyped
<1>2. IsStep(step, n, T)
  <2>1. \A i \in 1 .. n, t \in T : Sealed(frames, n - i) \o t \in T
    BY <1>1
  <2> HIDE DEF T
  <2> QED
    BY <2>1 DEF IsStep
<1>3. <<>> \in T
  OBVIOUS
<1>4. PICK f : f \in [0 .. n -> T] /\ Follows(f, n, <<>>, step)
  <2> HIDE DEF step, T
  <2> QED
    BY <1>1, <1>2, <1>3, RecursionUpTo
<1>5. ASSUME NEW i \in 1 .. n PROVE f[i] = Sealed(frames, n - i) \o f[i - 1]
  <2> HIDE DEF T
  <2>1. f[i - 1] \in T
    BY <1>1, <1>4
  <2> QED
    BY <1>4, <2>1 DEF Follows
<1> DEFINE Joins(g) == g = [k \in 0 .. n |-> IF k = 0 THEN <<>>
                                             ELSE Sealed(frames, n - k) \o g[k - 1]]
           tail == CHOOSE g : Joins(g)
<1>6. Joins(f)
  <2>1. \A i \in 0 .. n : i = 0 \/ i \in 1 .. n
    BY <1>1
  <2>2. \A i \in 0 .. n : f[i] = IF i = 0 THEN <<>> ELSE Sealed(frames, n - i) \o f[i - 1]
    BY <1>4, <1>5, <2>1 DEF Follows
  <2> QED
    BY <1>4, <2>2
<1>7. Joins(tail)
  <2> HIDE DEF Joins
  <2> QED
    BY <1>6
<1>8. Tails(frames, n) = tail
  BY DEF Tails
<1> HIDE DEF tail
<1>9. tail[0] = <<>> /\ \A i \in 1 .. n : tail[i] = Sealed(frames, n - i) \o tail[i - 1]
  <2>1. \A i \in 0 .. n : tail[i] = IF i = 0 THEN <<>> ELSE Sealed(frames, n - i) \o tail[i - 1]
    BY <1>7, Zenon
  <2>2. 0 \in 0 .. n /\ \A i \in 1 .. n : i \in 0 .. n /\ i # 0
    BY <1>1
  <2> QED
    BY <2>1, <2>2
<1> HIDE DEF Joins, step
<1>10. \A k \in 0 .. n : tail[k] \in T
  <2> HIDE DEF T
  <2> DEFINE S == {k \in 0 .. n : tail[k] \in T}
  <2>1. 0 \in S
    BY <1>1, <1>3, <1>9
  <2>2. ASSUME NEW k \in 0 .. n - 1, k \in S
        PROVE  k + 1 \in S
    <3>1. k + 1 \in 1 .. n /\ k + 1 - 1 = k
      BY <1>1
    <3> DEFINE j == k + 1
    <3>2. tail[j] = Sealed(frames, n - j) \o tail[j - 1]
      <4> HIDE DEF j
      <4> QED
        BY <1>9, <3>1 DEF j
    <3>3. Sealed(frames, n - j) \in T /\ tail[j - 1] \in T
      BY <1>1, <2>2, <3>1
    <3>4. tail[j] \in T
      <4> HIDE DEF j
      <4> QED
        BY <3>2, <3>3 DEF T
    <3> QED
      BY <1>1, <3>1, <3>4
  <2> HIDE DEF S
  <2>3. \A k \in 0 .. n : k \in S
    BY <1>1, <2>1, <2>2, InductionUpTo DEF IsInductive
  <2> QED
    BY <2>3 DEF S
<1> QED
  BY <1>8, <1>9, <1>10

-----------------------------------------------------------------------------
(* The numbers of the frames.                                              *)

Shapes ==
  /\ DOMAIN ctl = {"frames", "stream", "asked", "answered", "seen"}
  /\ DOMAIN ctx = {"encrypted", "data", "writes", "reads", "parser", "got", "done"}
  /\ ctl.asked \in Nat /\ ctl.answered \in Nat /\ ctl.seen \in Nat
  /\ ctx.encrypted \in BOOLEAN

Sides == ctx.encrypted <=> Secure

\* What is on the wire follows what the parser has got.
PlainStream ==
  ~ctx.encrypted =>
    /\ ctx.parser = "ok" /\ ctx.got \in Nat
    /\ wire \in Seq({Plain} \X Nat)
    /\ \A i \in 1 .. Len(wire) : wire[i][2] = ctx.got + i
    /\ ctl.asked = 0 => wire = <<>> /\ ctx.got = 0

Inv == Shapes /\ CountersAgree /\ Sides /\ PlainStream

-----------------------------------------------------------------------------

\* Content that continues what the parser has is all in order.
LEMMA AllInOrder ==
  ASSUME NEW x, NEW k \in Nat, NEW content, DOMAIN content = 1 .. k,
         \A i \in 1 .. k : content[i] = x.got + i
  PROVE  InOrder(x, content) = k
<1>1. {m \in DOMAIN content : \A i \in 1 .. m : content[i] = x.got + i} = 1 .. k
  OBVIOUS
<1>2. Cardinality(1 .. k) = k
  BY FS_Interval
<1> QED
  BY <1>1, <1>2 DEF InOrder

\* A connection that has ended is a new one.
LEMMA EndedIsNew == Ended => Inv'
<1> SUFFICES ASSUME Ended PROVE Inv'
  OBVIOUS
<1>1. ctl' = NewController /\ ctx' = NewContext /\ wire' = <<>>
  BY DEF Ended
<1>2. Shapes' /\ CountersAgree' /\ Sides'
  BY <1>1 DEF Shapes, CountersAgree, Sides, Secure, NewController, NewContext
<1>3. PlainStream'
  BY <1>1 DEF PlainStream, NewController, NewContext
<1> QED
  BY <1>2, <1>3 DEF Inv

LEMMA InitInv == Init => Inv
<1> SUFFICES ASSUME Init PROVE Inv
  OBVIOUS
<1>1. Shapes /\ CountersAgree /\ Sides
  BY DEF Init, Shapes, CountersAgree, Sides, Secure, NewController, NewContext
<1>2. PlainStream
  BY DEF Init, PlainStream, NewController, NewContext
<1> QED
  BY <1>1, <1>2 DEF Inv

\* What the parser does not touch.
LEMMA ParsedKeeps ==
  ASSUME NEW x, NEW content,
         DOMAIN x = {"encrypted", "data", "writes", "reads", "parser", "got", "done"}
  PROVE  /\ DOMAIN Parsed(x, content) = DOMAIN x
         /\ Parsed(x, content).encrypted = x.encrypted
         /\ Parsed(x, content).reads = x.reads
  BY DEF Parsed

\* Answering a request that was sent, in a context that is encrypted as the
\* controller expects, counts on both sides or on none.
LEMMA AnswerAgrees ==
  ASSUME Shapes, CountersAgree, Sides, NEW y, NEW pieces \in Nat,
         DOMAIN y = DOMAIN ctx, y.encrypted = ctx.encrypted, y.reads = ctx.reads,
         ctl' = [Opening(ctl, pieces) EXCEPT !.answered = @ + 1],
         \/ ctx' = Answered(y, pieces)
         \/ ctx.encrypted /\ ctx' = Sealing(y, pieces)
  PROVE  Shapes' /\ CountersAgree' /\ Sides' /\ ctx'.encrypted
<1>1. /\ DOMAIN ctl' = DOMAIN ctl /\ ctl'.asked = ctl.asked
      /\ ctl'.answered = ctl.answered + 1
      /\ ctl'.seen = IF Secure THEN ctl.seen + pieces ELSE ctl.seen
  BY DEF Opening, Shapes
<1>2. Secure'
  BY <1>1 DEF Secure, Shapes
<1> DEFINE Counted ==
      /\ DOMAIN ctx' = DOMAIN ctx /\ ctx'.encrypted = TRUE
      /\ ctx'.reads = IF ctx.encrypted THEN ctx.reads + pieces ELSE ctx.reads
<1>3. ASSUME ctx' = Answered(y, pieces) PROVE Counted
  BY <1>3 DEF Answered, Sealing, Shapes
<1>4. ASSUME ctx.encrypted, ctx' = Sealing(y, pieces) PROVE Counted
  BY <1>4 DEF Sealing, Shapes
<1>5. Counted
  BY <1>3, <1>4
<1>6. Shapes'
  <2>1. ctl.seen + pieces \in Nat /\ ctl.seen \in Nat
    BY DEF Shapes
  <2>2. ctl'.seen \in Nat
    BY <1>1, <2>1
  <2>3. ctl'.asked \in Nat /\ ctl'.answered \in Nat
    BY <1>1 DEF Shapes
  <2> QED
    BY <1>1, <1>5, <2>2, <2>3, Zenon DEF Shapes
<1>7. CountersAgree'
  BY <1>1, <1>5 DEF CountersAgree, Sides
<1> QED
  BY <1>2, <1>5, <1>6, <1>7 DEF Sides

\* A read that hands content to the parser, in plain or encrypted.
LEMMA ServeKeeps ==
  ASSUME Inv, BoundsAssumption, NEW k \in 1 .. Len(wire), NEW x, NEW content, NEW intact,
         DOMAIN x = DOMAIN ctx, x.encrypted = ctx.encrypted, x.reads = ctx.reads,
         x.parser = ctx.parser, x.got = ctx.got,
         ~ctx.encrypted => content = [i \in 1 .. k |-> wire[i][2]],
         Serve(k, x, content, intact)
  PROVE  Inv'
<1> DEFINE y == Parsed(x, content)
           complete == y.got = ctl.stream /\ y.got > y.done
           stray == x.parser = "broken" /\ content # <<>> /\ ctl.answered < ctl.asked
<1>1. DOMAIN y = DOMAIN ctx /\ y.encrypted = ctx.encrypted /\ y.reads = ctx.reads
  BY ParsedKeeps DEF Inv, Shapes
<1>2. stray => ctx.encrypted
  BY DEF Inv, PlainStream
<1>3. CASE Ended
  BY <1>3, EndedIsNew
<1>4. CASE /\ wire' = SubSeq(wire, k + 1, Len(wire))
           /\ ctx' = y /\ UNCHANGED ctl
  <2>1. Shapes' /\ CountersAgree' /\ Sides'
    BY <1>1, <1>4 DEF Inv, Shapes, CountersAgree, Sides, Secure
  <2>2. ASSUME ~ctx.encrypted
        PROVE  PlainStream'
    <3>1. /\ ctx.parser = "ok" /\ ctx.got \in Nat
          /\ wire \in Seq({Plain} \X Nat) /\ Len(wire) \in Nat
          /\ \A i \in 1 .. Len(wire) : wire[i][2] = ctx.got + i
      BY <2>2 DEF Inv, PlainStream
    <3>2. k \in Nat /\ k >= 1 /\ k <= Len(wire)
      BY <3>1
    <3>3. /\ DOMAIN content = 1 .. k
          /\ \A i \in 1 .. k : content[i] = x.got + i
      <4>1. content = [i \in 1 .. k |-> wire[i][2]]
        BY <2>2
      <4>2. \A i \in 1 .. k : i \in 1 .. Len(wire)
        BY <3>1, <3>2
      <4> QED
        BY <3>1, <4>1, <4>2
    <3>4. InOrder(x, content) = k
      BY <3>2, <3>3, AllInOrder
    <3>5. Len(content) = k /\ content # <<>>
      <4>1. content = [i \in 1 .. k |-> wire[i][2]]
        BY <2>2
      <4> QED
        BY <3>2, <4>1
    <3>6. y.parser = "ok" /\ y.got = ctx.got + k
      BY <1>1, <3>1, <3>2, <3>4, <3>5 DEF Parsed, Inv, Shapes
    <3>7. /\ wire' \in Seq({Plain} \X Nat) /\ Len(wire') = Len(wire) - k
          /\ \A i \in 1 .. Len(wire') : wire'[i] = wire[k + i]
      <4>1. \A i \in (k + 1) .. Len(wire) : wire[i] \in {Plain} \X Nat
        BY <3>1, <3>2
      <4>2. k + 1 \in Int /\ Len(wire) \in Int
        BY <3>1, <3>2
      <4>3. /\ wire' \in Seq({Plain} \X Nat)
            /\ Len(wire') = IF k + 1 <= Len(wire) THEN Len(wire) - (k + 1) + 1 ELSE 0
            /\ \A i \in 1 .. Len(wire) - (k + 1) + 1 : wire'[i] = wire[k + 1 + i - 1]
        BY <1>4, <4>1, <4>2, SubSeqProperties
      <4>4. Len(wire') = Len(wire) - k
        BY <3>1, <3>2, <4>3
      <4>5. Len(wire) - (k + 1) + 1 = Len(wire) - k
        BY <3>1, <3>2
      <4>6. \A i \in 1 .. Len(wire') : k + 1 + i - 1 = k + i
        BY <3>2
      <4> QED
        BY <4>3, <4>4, <4>5, <4>6
    <3>8. \A i \in 1 .. Len(wire') : wire'[i][2] = ctx'.got + i
      BY <1>4, <3>1, <3>2, <3>6, <3>7
    <3>9. ctl'.asked # 0
      BY <1>4, <2>2, <3>2 DEF Inv, PlainStream
    <3>10. ctx'.parser = "ok" /\ ctx'.got \in Nat
      BY <1>4, <3>1, <3>2, <3>6
    <3> QED
      BY <3>7, <3>8, <3>9, <3>10 DEF PlainStream
  <2>3. ASSUME ctx.encrypted
        PROVE  PlainStream'
    BY <1>1, <1>4, <2>3 DEF PlainStream
  <2> QED
    BY <2>1, <2>2, <2>3 DEF Inv
<1>5. CASE /\ complete \/ stray
           /\ \E pieces \in 1 .. MaxPieces :
                /\ ctx' = IF complete THEN Answered(y, pieces) ELSE Sealing(y, pieces)
                /\ ctl' = [Opening(ctl, pieces) EXCEPT !.answered = @ + 1]
  <2>1. PICK pieces \in 1 .. MaxPieces :
          /\ ctx' = IF complete THEN Answered(y, pieces) ELSE Sealing(y, pieces)
          /\ ctl' = [Opening(ctl, pieces) EXCEPT !.answered = @ + 1]
    BY <1>5
  <2>2. \/ ctx' = Answered(y, pieces)
        \/ ctx.encrypted /\ ctx' = Sealing(y, pieces)
    BY <1>2, <1>5, <2>1
  <2>3. pieces \in Nat
    BY BoundsAssumption DEF BoundsAssumption
  <2>4. Shapes' /\ CountersAgree' /\ Sides' /\ ctx'.encrypted
    <3> HIDE DEF y
    <3> QED
      BY <1>1, <2>1, <2>2, <2>3, AnswerAgrees DEF Inv
  <2> QED
    BY <2>4 DEF Inv, PlainStream
<1> QED
  BY <1>3, <1>4, <1>5 DEF Serve, WriteError

LEMMA ProcessKeeps == Inv /\ Process => Inv'
<1> SUFFICES ASSUME Inv, NEW k \in 1 .. Len(wire),
                    ReceivePlain(k) \/ Receive(k) \/ ReceiveInvalid(k) \/ ReceiveTooShort(k)
             PROVE  Inv'
  BY DEF Process
<1>1. CASE ReceivePlain(k)
  BY <1>1, BoundsAssumption, ServeKeeps DEF ReceivePlain
<1>2. CASE Receive(k)
  <2> DEFINE x == Opens(Input(k))
  <2>1. /\ DOMAIN x = DOMAIN ctx /\ x.encrypted = ctx.encrypted /\ x.reads = ctx.reads
        /\ x.parser = ctx.parser /\ x.got = ctx.got
    BY DEF Opens, Inv, Shapes
  <2>2. ctx.encrypted /\ Serve(k, x, Plaintext(Input(k), ctx.writes), whole /\ ReadsWhole(k))
    BY <1>2 DEF Receive
  <2> HIDE DEF x
  <2> QED
    BY <2>1, <2>2, BoundsAssumption, ServeKeeps
<1>3. CASE ReceiveInvalid(k)
  <2>1. /\ ctx.encrypted /\ UNCHANGED ctl
        /\ DOMAIN ctx' = DOMAIN ctx /\ ctx'.encrypted = ctx.encrypted
        /\ ctx'.reads = ctx.reads
    BY <1>3 DEF ReceiveInvalid, Inv, Shapes
  <2> QED
    BY <2>1 DEF Inv, Shapes, CountersAgree, Sides, Secure, PlainStream
<1>4. CASE ReceiveTooShort(k)
  <2>1. CASE Ended
    BY <2>1, EndedIsNew
  <2>2. CASE /\ ctx' = [ctx EXCEPT !.data = Input(k), !.parser = "broken"]
             /\ UNCHANGED ctl
    <3>1. /\ ctx.encrypted /\ DOMAIN ctx' = DOMAIN ctx
          /\ ctx'.encrypted = ctx.encrypted /\ ctx'.reads = ctx.reads
      BY <1>4, <2>2 DEF ReceiveTooShort, Inv, Shapes
    <3> QED
      BY <2>2, <3>1 DEF Inv, Shapes, CountersAgree, Sides, Secure, PlainStream
  <2> QED
    BY <1>4, <2>1, <2>2 DEF ReceiveTooShort
<1> QED
  BY <1>1, <1>2, <1>3, <1>4

LEMMA AskKeeps ==
  ASSUME Inv, SplitAssumption, NEW sizes \in Split, Ask(sizes)
  PROVE  Inv'
<1> USE DEF Inv
<1>1. /\ UNCHANGED ctx /\ DOMAIN ctl' = DOMAIN ctl
      /\ ctl'.answered = ctl.answered /\ ctl'.seen = ctl.seen
      /\ ctl'.asked = ctl.asked + 1
  BY DEF Ask, Shapes
<1>2. Shapes' /\ CountersAgree' /\ Sides'
  BY <1>1 DEF Shapes, CountersAgree, Sides, Secure
<1>3. ASSUME ~ctx.encrypted
      PROVE  PlainStream'
  <2>1. ~Secure /\ ctl.asked = ctl.answered
    BY <1>3 DEF Ask, Sides
  <2>2. ctl.asked = 0
    BY <2>1 DEF Secure, Shapes
  <2>3. ctx.got = 0 /\ ctx.parser = "ok"
    BY <1>3, <2>2 DEF PlainStream
  <2>4. Total(sizes) \in Nat
    BY SplitAssumption, BytesTotal
  <2>5. wire' = [p \in 1 .. Total(sizes) |-> <<Plain, p>>]
    BY <2>1 DEF Ask
  <2>6. /\ wire' \in Seq({Plain} \X Nat) /\ Len(wire') = Total(sizes)
        /\ \A i \in 1 .. Len(wire') : wire'[i][2] = i
    BY <2>4, <2>5
  <2>7. ctl'.asked # 0
    BY <1>1, <2>2
  <2> QED
    BY <1>1, <2>3, <2>6, <2>7 DEF PlainStream
<1>4. ASSUME ctx.encrypted
      PROVE  PlainStream'
  BY <1>1, <1>4 DEF PlainStream
<1> QED
  BY <1>2, <1>3, <1>4

LEMMA NextInv == Inv /\ [Next]_vars => Inv'
<1> SUFFICES ASSUME Inv, [Next]_vars PROVE Inv'
  OBVIOUS
<1>1. CASE UNCHANGED vars
  BY <1>1 DEF vars, Inv, Shapes, CountersAgree, Sides, Secure, PlainStream
<1>2. CASE Connect
  BY <1>2 DEF Connect, Inv, Shapes, CountersAgree, Sides, Secure, PlainStream
<1>3. CASE Leave \/ SendEventsFails
  BY <1>3, EndedIsNew DEF Leave, SendEventsFails, WriteError
<1>4. ASSUME NEW sizes \in Split, Ask(sizes) PROVE Inv'
  BY <1>4, AskKeeps, SplitAssumption
<1>5. ASSUME NEW pieces \in 1 .. MaxPieces, SendEvents(pieces) PROVE Inv'
  <2>1. pieces \in Nat
    BY BoundsAssumption DEF BoundsAssumption
  <2>2. /\ ctx.encrypted /\ Secure
        /\ DOMAIN ctx' = DOMAIN ctx /\ ctx'.encrypted = ctx.encrypted
        /\ ctx'.reads = ctx.reads + pieces
        /\ DOMAIN ctl' = DOMAIN ctl /\ ctl'.seen = ctl.seen + pieces
        /\ ctl'.asked = ctl.asked /\ ctl'.answered = ctl.answered
    BY <1>5 DEF SendEvents, Sealing, Opening, Inv, Shapes, Sides
  <2> QED
    BY <2>1, <2>2 DEF Inv, Shapes, CountersAgree, Sides, Secure, PlainStream
<1>6. CASE Process
  BY <1>6, ProcessKeeps
<1> QED
  BY <1>1, <1>2, <1>3, <1>4, <1>5, <1>6 DEF Next

-----------------------------------------------------------------------------

(* Both ends number the server's frames alike (count_reads of the client   *)
(* and what the controller has opened), over answers, EVENTs, frames that  *)
(* did not decrypt and the change from plain to encrypted in the middle of *)
(* pair verify.                                                            *)
THEOREM FramesAreNumberedAlike == Spec => []CountersAgree
<1>1. Inv => CountersAgree
  BY DEF Inv
<1> QED
  BY InitInv, NextInv, <1>1, PTL DEF Spec

InStep ==
  /\ ctx.encrypted <=> Secure
  /\ ~ctx.encrypted => ctx.parser = "ok"

(* A session is encrypted exactly when the controller takes it to be, and  *)
(* until then the parser has met nothing it did not expect: what arrives   *)
(* in plain is read in order, in whatever pieces (homekit_client_process). *)
THEOREM SidesInStep == Spec => []InStep
<1>1. Inv => InStep
  BY DEF Inv, Sides, PlainStream, InStep
<1> QED
  BY InitInv, NextInv, <1>1, PTL DEF Spec
-----------------------------------------------------------------------------
(* Types.                                                                  *)

Typed == TypeOK /\ Len(ctl.frames) <= MaxFrames

LEMMA InitTyped == Init => Typed
<1>1. <<>> \in Seq(Byte) /\ <<>> \in Seq(Frame) /\ Len(<<>>) = 0
  OBVIOUS
<1>2. DataSize \in Nat /\ MaxFrames \in Nat
  BY FrameAssumption, BoundsAssumption DEF DataSize
<1> QED
  BY <1>1, <1>2 DEF Init, Typed, TypeOK, NewController, NewContext, Controller, Context

LEMMA EndedTyped == Ended => Typed'
<1>1. <<>> \in Seq(Byte) /\ <<>> \in Seq(Frame) /\ Len(<<>>) = 0
  OBVIOUS
<1>2. DataSize \in Nat /\ MaxFrames \in Nat
  BY FrameAssumption, BoundsAssumption DEF DataSize
<1> QED
  BY <1>1, <1>2 DEF Ended, Typed, TypeOK, NewController, NewContext, Controller, Context

\* The end of a sequence after its first k.
LEMMA Rest ==
  ASSUME NEW T, NEW seq \in Seq(T), NEW k \in Nat
  PROVE  /\ SubSeq(seq, k + 1, Len(seq)) \in Seq(T)
         /\ Len(SubSeq(seq, k + 1, Len(seq))) = IF k <= Len(seq) THEN Len(seq) - k ELSE 0
         /\ \A i \in 1 .. Len(seq) - k : SubSeq(seq, k + 1, Len(seq))[i] = seq[k + i]
<1>1. Len(seq) \in Nat /\ \A i \in k + 1 .. Len(seq) : seq[i] \in T
  OBVIOUS
<1>2. /\ SubSeq(seq, k + 1, Len(seq)) \in Seq(T)
      /\ Len(SubSeq(seq, k + 1, Len(seq)))
           = IF k + 1 <= Len(seq) THEN Len(seq) - (k + 1) + 1 ELSE 0
      /\ \A i \in 1 .. Len(seq) - (k + 1) + 1 :
           SubSeq(seq, k + 1, Len(seq))[i] = seq[k + 1 + i - 1]
  <2>1. k + 1 \in Int /\ Len(seq) \in Int
    BY <1>1
  <2> QED
    BY <1>1, <2>1, SubSeqProperties
<1>3. Len(seq) - (k + 1) + 1 = Len(seq) - k
  BY <1>1
<1>4. (IF k + 1 <= Len(seq) THEN Len(seq) - k ELSE 0)
        = IF k <= Len(seq) THEN Len(seq) - k ELSE 0
  BY <1>1
<1>5. \A i \in 1 .. Len(seq) - k : k + 1 + i - 1 = k + i
  BY <1>1
<1> QED
  BY <1>2, <1>3, <1>4, <1>5

LEMMA InputTyped ==
  ASSUME Typed, NEW k \in 1 .. Len(wire)
  PROVE  Input(k) \in Seq(Byte) /\ Len(Input(k)) = k
<1> DEFINE head == SubSeq(wire, 1, k)
           both == ctx.data \o head
<1>1. wire \in Seq(Byte) /\ ctx.data \in Seq(Byte) /\ k \in Nat /\ k <= Len(wire)
  BY DEF Typed, TypeOK, Context
<1>2. head \in Seq(Byte) /\ Len(head) = k
  BY <1>1
<1>3. both \in Seq(Byte) /\ Len(both) = Len(ctx.data) + k /\ Len(ctx.data) \in Nat
  <2> HIDE DEF head
  <2> QED
    BY <1>1, <1>2
<1>4. Input(k) = SubSeq(both, 1, k)
  BY DEF Input
<1> HIDE DEF both
<1> QED
  BY <1>1, <1>3, <1>4

(* How many frames are opened.                                             *)
Lies(buf, n, m) == m = 0 \/ (n + m <= Len(ctl.frames) /\ IsPrefix(Run(n, m), buf))

LEMMA OpenedMost ==
  ASSUME Typed, NEW buf, NEW n
  PROVE  /\ Opened(buf, n) \in 0 .. Len(ctl.frames) /\ Lies(buf, n, Opened(buf, n))
         /\ \A j \in 0 .. Len(ctl.frames) : Lies(buf, n, j) => j <= Opened(buf, n)
<1> DEFINE len == Len(ctl.frames)
           M == {m \in 0 .. len : Lies(buf, n, m)}
<1>1. len \in Nat
  BY DEF Typed, TypeOK, Controller
<1>2. 0 \in M
  BY <1>1 DEF Lies
<1>3. PICK m \in M : \A j \in M : j <= m
  <2> HIDE DEF len
  <2> QED
    BY <1>1, <1>2, LargestElement
<1>4. \E i \in 0 .. len : Lies(buf, n, i) /\ \A j \in 0 .. len : Lies(buf, n, j) => j <= i
  BY <1>3
<1>5. Opened(buf, n) = CHOOSE i \in 0 .. len : Lies(buf, n, i)
                                  /\ \A j \in 0 .. len : Lies(buf, n, j) => j <= i
  BY DEF Opened, Lies
<1> HIDE DEF len
<1> QED
  BY <1>4, <1>5 DEF len

LEMMA RunTyped ==
  ASSUME Typed, NEW n \in Nat, NEW m \in Nat, m = 0 \/ n + m <= Len(ctl.frames)
  PROVE  Run(n, m) \in Seq(Byte)
<1>1. CASE m = 0
  BY <1>1 DEF Run
<1>2. CASE m # 0
  <2>1. n + m \in 0 .. Len(ctl.frames) /\ m \in 0 .. n + m
    BY <1>2
  <2>2. ctl.frames \in Seq(Frame) /\ Len(ctl.frames) <= MaxFrames
    BY DEF Typed, TypeOK, Controller
  <2> QED
    BY <1>2, <2>1, <2>2, TailsTyped DEF Run
<1> QED
  BY <1>1, <1>2

LEMMA AfterTyped ==
  ASSUME Typed, NEW buf \in Seq(Byte), NEW n \in Nat
  PROVE  After(buf, n) \in Seq(Byte) /\ Len(After(buf, n)) <= Len(buf)
<1> DEFINE run == Run(n, Opened(buf, n))
<1>1. Opened(buf, n) \in Nat /\ Lies(buf, n, Opened(buf, n))
  BY OpenedMost DEF Typed, TypeOK, Controller
<1>2. run \in Seq(Byte)
  BY <1>1, RunTyped DEF Lies
<1>3. Len(run) \in Nat /\ Len(buf) \in Nat
  <2> HIDE DEF run
  <2> QED
    BY <1>2
<1>4. After(buf, n) = SubSeq(buf, Len(run) + 1, Len(buf))
  BY DEF After
<1> HIDE DEF run
<1>5. (IF Len(run) <= Len(buf) THEN Len(buf) - Len(run) ELSE 0) <= Len(buf)
  BY <1>3
<1>6. /\ SubSeq(buf, Len(run) + 1, Len(buf)) \in Seq(Byte)
      /\ Len(SubSeq(buf, Len(run) + 1, Len(buf)))
           = IF Len(run) <= Len(buf) THEN Len(buf) - Len(run) ELSE 0
  BY <1>3, Rest
<1> QED
  BY <1>4, <1>5, <1>6

LEMMA InOrderNat ==
  ASSUME NEW x, NEW content, NEW n \in Int, DOMAIN content = 1 .. n
  PROVE  InOrder(x, content) \in Nat
<1>1. IsFiniteSet(1 .. n)
  BY FS_Interval
<1>2. {m \in DOMAIN content : \A i \in 1 .. m : content[i] = x.got + i} \subseteq 1 .. n
  OBVIOUS
<1> QED
  BY <1>1, <1>2, FS_Subset, FS_CardinalityType DEF InOrder

LEMMA ParsedTyped ==
  ASSUME NEW x \in Context, NEW content, NEW n \in Int, DOMAIN content = 1 .. n
  PROVE  Parsed(x, content) \in Context /\ Parsed(x, content).data = x.data
<1>1. x.got + InOrder(x, content) \in Nat
  BY InOrderNat DEF Context
<1> QED
  BY <1>1 DEF Parsed, Context

LEMMA SentTyped ==
  ASSUME NEW x \in Context, NEW pieces \in 1 .. MaxPieces
  PROVE  /\ Sealing(x, pieces) \in Context /\ Sealing(x, pieces).data = x.data
         /\ Answered(x, pieces) \in Context /\ Answered(x, pieces).data = x.data
<1>1. pieces \in Nat
  BY BoundsAssumption
<1>2. \A y \in Context : Sealing(y, pieces) \in Context /\ Sealing(y, pieces).data = y.data
  <2> SUFFICES ASSUME NEW y \in Context
               PROVE  Sealing(y, pieces) \in Context /\ Sealing(y, pieces).data = y.data
    OBVIOUS
  <2>1. y.reads + pieces \in Nat
    BY <1>1 DEF Context
  <2> QED
    BY <2>1 DEF Sealing, Context
<1> DEFINE y == [x EXCEPT !.done = x.got]
<1>3. y \in Context /\ y.data = x.data
  BY DEF Context
<1>4. Answered(x, pieces) = [Sealing(y, pieces) EXCEPT !.encrypted = TRUE]
  BY DEF Answered
<1> HIDE DEF y
<1>5. Answered(x, pieces) \in Context /\ Answered(x, pieces).data = Sealing(y, pieces).data
  BY <1>2, <1>3, <1>4 DEF Context
<1> QED
  BY <1>2, <1>3, <1>5

LEMMA ControllerSteps ==
  ASSUME ctl \in Controller, NEW n \in Nat, NEW frames \in Seq(Frame)
  PROVE  /\ [ctl EXCEPT !.seen = IF Secure THEN @ + n ELSE @] \in Controller
         /\ [Opening(ctl, n) EXCEPT !.answered = @ + 1] \in Controller
         /\ [ctl EXCEPT !.asked = @ + 1, !.stream = @ + n] \in Controller
         /\ [ctl EXCEPT !.asked = @ + 1, !.stream = @ + n, !.frames = frames] \in Controller
<1>1. /\ ctl.asked + 1 \in Nat /\ ctl.answered + 1 \in Nat
      /\ ctl.stream + n \in Nat /\ ctl.seen + n \in Nat
  BY DEF Controller
<1>2. ASSUME NEW c \in Controller
      PROVE  [c EXCEPT !.answered = c.answered + 1] \in Controller
  <2>1. c.answered + 1 \in Nat
    BY DEF Controller
  <2> QED
    BY <2>1 DEF Controller
<1>3. Opening(ctl, n) \in Controller
  BY <1>1 DEF Opening, Controller
<1>4. [Opening(ctl, n) EXCEPT !.answered = @ + 1] \in Controller
  BY <1>2, <1>3
<1> QED
  BY <1>1, <1>4 DEF Controller

LEMMA ServeTyped ==
  ASSUME Typed, NEW k \in 1 .. Len(wire), NEW x \in Context, Len(x.data) <= DataSize,
         NEW content, NEW n \in Int, DOMAIN content = 1 .. n, NEW intact \in BOOLEAN,
         Serve(k, x, content, intact)
  PROVE  Typed'
<1> DEFINE y == Parsed(x, content)
           complete == y.got = ctl.stream /\ y.got > y.done
           stray == x.parser = "broken" /\ content # <<>> /\ ctl.answered < ctl.asked
<1>1. y \in Context /\ Len(y.data) <= DataSize
  BY ParsedTyped
<1>2. CASE Ended
  BY <1>2, EndedTyped
<1>3. SUFFICES ASSUME wire' = SubSeq(wire, k + 1, Len(wire)), whole' = intact, link' = link,
                      \/ ctx' = y /\ ctl' = ctl
                      \/ \E pieces \in 1 .. MaxPieces :
                           /\ ctx' = IF complete THEN Answered(y, pieces) ELSE Sealing(y, pieces)
                           /\ ctl' = [Opening(ctl, pieces) EXCEPT !.answered = @ + 1]
               PROVE  Typed'
  BY <1>2 DEF Serve, WriteError
<1>4. wire' \in Seq(Byte)
  BY <1>3, Rest DEF Typed, TypeOK
<1>5. CASE ctx' = y /\ ctl' = ctl
  BY <1>1, <1>3, <1>4, <1>5 DEF Typed, TypeOK
<1>6. ASSUME NEW pieces \in 1 .. MaxPieces,
             ctx' = IF complete THEN Answered(y, pieces) ELSE Sealing(y, pieces),
             ctl' = [Opening(ctl, pieces) EXCEPT !.answered = @ + 1]
      PROVE  Typed'
  <2> HIDE DEF y, complete
  <2>1. ctx' \in Context /\ ctx'.data = y.data
    BY <1>1, <1>6, SentTyped
  <2>2. ctl' \in Controller
    <3>1. pieces \in Nat /\ <<>> \in Seq(Frame) /\ ctl \in Controller
      BY BoundsAssumption DEF Typed, TypeOK
    <3> QED
      BY <1>6, <3>1, ControllerSteps
  <2>3. ctl'.frames = ctl.frames
    BY <1>6 DEF Opening, Controller, Typed, TypeOK
  <2> QED
    BY <1>1, <1>3, <1>4, <2>1, <2>2, <2>3 DEF Typed, TypeOK
<1> QED
  BY <1>3, <1>5, <1>6

LEMMA ProcessTyped == Typed /\ Process => Typed'
<1> SUFFICES ASSUME Typed, NEW k \in 1 .. Len(wire),
                    ReceivePlain(k) \/ Receive(k) \/ ReceiveInvalid(k) \/ ReceiveTooShort(k)
             PROVE  Typed'
  BY DEF Process
<1>1. /\ ctx \in Context /\ Len(ctx.data) <= DataSize /\ wire \in Seq(Byte)
      /\ ctl \in Controller /\ whole \in BOOLEAN /\ k \in Nat
      /\ Len(ctl.frames) <= MaxFrames /\ ctx.writes \in Nat
  BY DEF Typed, TypeOK, Context
<1>2. Input(k) \in Seq(Byte) /\ Len(Input(k)) = k
  BY InputTyped
<1>3. k <= DataSize
  <2>1. Len(ctx.data) \in Nat /\ DataSize \in Nat
    BY <1>1, FrameAssumption DEF Context, DataSize
  <2>2. k <= DataSize - Len(ctx.data)
    BY DEF ReceivePlain, Receive, ReceiveInvalid, ReceiveTooShort, Reads, Room
  <2> QED
    BY <2>1, <2>2
<1>4. Opened(Input(k), ctx.writes) \in Nat
  BY <1>1, OpenedMost DEF Controller
<1>5. wire' = SubSeq(wire, k + 1, Len(wire)) => wire' \in Seq(Byte)
  BY <1>1, Rest
<1>6. CASE ReceivePlain(k)
  BY <1>1, <1>6, ServeTyped DEF ReceivePlain
<1>7. CASE Receive(k)
  <2> DEFINE x == Opens(Input(k))
             content == Plaintext(Input(k), ctx.writes)
  <2>1. After(Input(k), ctx.writes) \in Seq(Byte) /\ Len(After(Input(k), ctx.writes)) <= DataSize
    BY <1>1, <1>2, <1>3, AfterTyped, FrameAssumption DEF DataSize
  <2>2. x \in Context /\ Len(x.data) <= DataSize
    <3> DEFINE d == After(Input(k), ctx.writes)
               w == ctx.writes + Opened(Input(k), ctx.writes)
    <3>1. w \in Nat
      BY <1>1, <1>4
    <3>2. x = [ctx EXCEPT !.data = d, !.writes = w]
      BY DEF Opens
    <3>3. d \in Seq(Byte) /\ Len(d) <= DataSize
      BY <2>1
    <3> HIDE DEF d, w, x
    <3> QED
      BY <1>1, <3>1, <3>2, <3>3 DEF Context
  <2>3. k - Overhead \in Int /\ DOMAIN content = 1 .. k - Overhead
    BY <1>1, <1>2, FrameAssumption DEF Plaintext
  <2>4. (whole /\ ReadsWhole(k)) \in BOOLEAN /\ Serve(k, x, content, whole /\ ReadsWhole(k))
    BY <1>1, <1>7 DEF Receive
  <2> HIDE DEF x, content
  <2> QED
    BY <2>2, <2>3, <2>4, ServeTyped
<1>8. CASE ReceiveInvalid(k)
  <2>1. ctx.writes + Opened(Input(k), ctx.writes) + (IF k = Overhead THEN 2 ELSE 1) \in Nat
    BY <1>1, <1>4
  <2>2. ctx' \in Context /\ ctx'.data = ctx.data
    BY <1>1, <1>8, <2>1 DEF ReceiveInvalid, Context
  <2> QED
    BY <1>1, <1>5, <1>8, <2>2 DEF ReceiveInvalid, Typed, TypeOK
<1>9. CASE ReceiveTooShort(k)
  <2>1. CASE Ended
    BY <2>1, EndedTyped
  <2>2. CASE ~Ended
    <3>1. ctx' = [ctx EXCEPT !.data = Input(k), !.parser = "broken"]
      BY <1>9, <2>2 DEF ReceiveTooShort
    <3>2. ctx' \in Context /\ ctx'.data = Input(k)
      BY <1>1, <1>2, <3>1 DEF Context
    <3> QED
      BY <1>1, <1>2, <1>3, <1>5, <1>9, <2>2, <3>2 DEF ReceiveTooShort, Typed, TypeOK
  <2> QED
    BY <2>1, <2>2
<1> QED
  BY <1>6, <1>7, <1>8, <1>9

LEMMA CutTyped ==
  ASSUME Typed, NEW sizes \in Split
  PROVE  /\ Cut(sizes) \in Seq(Frame) /\ Len(Cut(sizes)) = Len(sizes)
         /\ sizes \in Seq(1 .. MaxChunk) \ {<<>>} /\ Len(sizes) \in Nat \ {0}
         /\ \A k \in 1 .. Len(sizes) : sizes[k] \in 1 .. MaxChunk
<1>1. /\ sizes \in Seq(1 .. MaxChunk) \ {<<>>} /\ sizes \in Seq(1 .. MaxChunk)
      /\ DOMAIN sizes = 1 .. Len(sizes) /\ Len(sizes) \in Nat \ {0}
      /\ \A k \in 1 .. Len(sizes) : sizes[k] \in 1 .. MaxChunk
  <2>1. sizes \in Seq(1 .. MaxChunk) \ {<<>>}
    BY SplitAssumption
  <2> DEFINE S == 1 .. MaxChunk
  <2>2. sizes \in Seq(S)
    BY <2>1
  <2> HIDE DEF S
  <2>3. /\ DOMAIN sizes = 1 .. Len(sizes) /\ Len(sizes) \in Nat \ {0}
        /\ \A k \in 1 .. Len(sizes) : sizes[k] \in S
    <3>1. Len(sizes) \in Nat \ {0}
      BY <2>1, <2>2, EmptySeq
    <3> QED
      BY <2>2, <3>1
  <2> QED
    BY <2>1, <2>2, <2>3 DEF S
<1>2. Total(sizes) \in Nat /\ \A k \in 0 .. Len(sizes) : Bytes(sizes)[k] \in Nat
  BY <1>1, BytesTotal, BytesSum
<1>3. /\ ctl \in Controller /\ ctl.frames \in Seq(Frame) /\ ctl.stream \in Nat
  BY DEF Typed, TypeOK, Controller
<1>4. Cut(sizes) \in Seq(Frame) /\ Len(Cut(sizes)) = Len(sizes)
  <2>2. ASSUME NEW k \in 1 .. Len(sizes)
        PROVE  [from |-> ctl.stream + Bytes(sizes)[k - 1], size |-> sizes[k]] \in Frame
    <3>1. k - 1 \in 0 .. Len(sizes) /\ sizes[k] \in 1 .. MaxChunk
      BY <1>1
    <3>2. ctl.stream + Bytes(sizes)[k - 1] \in Nat
      BY <1>2, <1>3, <3>1
    <3> QED
      BY <3>1, <3>2 DEF Frame
  <2> QED
    BY <1>1, <2>2 DEF Cut
<1> QED
  BY <1>1, <1>4

LEMMA AskTyped ==
  ASSUME Typed, NEW sizes \in Split, Ask(sizes)
  PROVE  Typed'
<1>1. sizes \in Seq(1 .. MaxChunk) \ {<<>>} /\ Len(sizes) \in Nat
  BY CutTyped
<1>2. Total(sizes) \in Nat
  BY <1>1, BytesTotal
<1>3. /\ ctl \in Controller /\ ctl.frames \in Seq(Frame) /\ ctl.stream \in Nat
      /\ wire \in Seq(Byte) /\ Len(ctl.frames) <= MaxFrames
  BY DEF Typed, TypeOK, Controller
<1>4. Cut(sizes) \in Seq(Frame) /\ Len(Cut(sizes)) = Len(sizes)
  BY CutTyped
<1>5. CASE Secure
  <2> DEFINE frames == ctl.frames \o Cut(sizes)
  <2>1. frames \in Seq(Frame) /\ Len(frames) = Len(ctl.frames) + Len(sizes)
        /\ Len(ctl.frames) \in Nat /\ Len(sizes) \in Nat
    <3> DEFINE cut == Cut(sizes)
    <3> HIDE DEF cut
    <3>1. cut \in Seq(Frame) /\ Len(cut) = Len(sizes)
      BY <1>4 DEF cut
    <3>2. frames = ctl.frames \o cut
      BY DEF cut
    <3> HIDE DEF frames
    <3>3. frames \in Seq(Frame) /\ Len(frames) = Len(ctl.frames) + Len(cut)
      BY <1>3, <3>1, <3>2, ConcatProperties
    <3>4. Len(ctl.frames) \in Nat
      BY <1>3
    <3> QED
      BY <1>1, <3>1, <3>3, <3>4
  <2>2. /\ ctl' = [ctl EXCEPT !.asked = @ + 1, !.stream = @ + Total(sizes),
                              !.frames = frames]
        /\ wire' = wire \o Tails(frames, Len(frames))[Len(sizes)]
        /\ Len(ctl.frames) + Len(sizes) <= MaxFrames
    BY <1>5 DEF Ask
  <2> HIDE DEF frames
  <2>3. Tails(frames, Len(frames))[Len(sizes)] \in Seq(Byte)
    <3>1. Len(frames) \in 0 .. Len(frames) /\ Len(sizes) \in 0 .. Len(frames)
          /\ Len(frames) <= MaxFrames
      BY <2>1, <2>2
    <3> QED
      BY <2>1, <3>1, TailsTyped
  <2>4. wire' \in Seq(Byte)
    BY <1>3, <2>2, <2>3
  <2>5. ctl' \in Controller /\ ctl'.frames = frames
    <3>1. ctl' \in Controller
      BY <1>2, <1>3, <2>1, <2>2, ControllerSteps
    <3> QED
      BY <1>3, <2>2, <3>1 DEF Controller
  <2> QED
    BY <2>1, <2>2, <2>4, <2>5 DEF Ask, Typed, TypeOK
<1>6. CASE ~Secure
  <2>1. /\ ctl' = [ctl EXCEPT !.asked = @ + 1, !.stream = @ + Total(sizes)]
        /\ wire' = [p \in 1 .. Total(sizes) |-> <<Plain, p>>]
    BY <1>6 DEF Ask
  <2>2. \A p \in 1 .. Total(sizes) : <<Plain, p>> \in Byte
    BY <1>2, BoundsAssumption DEF Plain, Byte
  <2>3. wire' \in Seq(Byte)
    BY <1>2, <2>1, <2>2
  <2>4. ctl' \in Controller /\ ctl'.frames = ctl.frames
    <3>1. ctl' \in Controller
      BY <1>2, <1>3, <2>1, ControllerSteps
    <3> QED
      BY <1>3, <2>1, <3>1 DEF Controller
  <2> QED
    BY <2>3, <2>4 DEF Ask, Typed, TypeOK
<1> QED
  BY <1>5, <1>6

LEMMA NextTyped == Typed /\ [Next]_vars => Typed'
<1> SUFFICES ASSUME Typed, [Next]_vars PROVE Typed'
  OBVIOUS
<1>1. CASE UNCHANGED vars
  BY <1>1 DEF vars, Typed, TypeOK
<1>2. CASE Connect
  BY <1>2 DEF Connect, Typed, TypeOK
<1>3. CASE Leave \/ SendEventsFails
  BY <1>3, EndedTyped DEF Leave, SendEventsFails, WriteError
<1>4. ASSUME NEW sizes \in Split, Ask(sizes) PROVE Typed'
  BY <1>4, AskTyped
<1>5. ASSUME NEW pieces \in 1 .. MaxPieces, SendEvents(pieces) PROVE Typed'
  <2>1. pieces \in Nat
    BY BoundsAssumption
  <2>2. ctx' \in Context /\ ctx'.data = ctx.data
    BY <1>5, <2>1 DEF SendEvents, Sealing, Context, Typed, TypeOK
  <2>3. ctl' \in Controller /\ ctl'.frames = ctl.frames
    BY <1>5, <2>1 DEF SendEvents, Opening, Controller, Typed, TypeOK
  <2> QED
    BY <1>5, <2>2, <2>3 DEF SendEvents, Typed, TypeOK
<1>6. CASE Process
  BY <1>6, ProcessTyped
<1> QED
  BY <1>1, <1>2, <1>3, <1>4, <1>5, <1>6 DEF Next

(* Types; of the data it says that what a read leaves in context->data     *)
(* never runs over the buffer (homekit_client_process), whatever the reads.*)
THEOREM TypeCorrect == Spec => []TypeOK
<1>1. Typed => TypeOK
  BY DEF Typed
<1> QED
  BY InitTyped, NextTyped, <1>1, PTL DEF Spec
-----------------------------------------------------------------------------
(* The stream reaches the parser in order.                                 *)

(* The frames cut the stream into pieces that follow one another.          *)
Framed ==
  /\ ~Secure => ctl.frames = <<>>
  /\ \A i \in 1 .. Len(ctl.frames) :
       /\ ctl.frames[i].from + ctl.frames[i].size
            = IF i = Len(ctl.frames) THEN ctl.stream ELSE ctl.frames[i + 1].from
       /\ ctl.frames[i].from + ctl.frames[i].size <= ctl.stream

\* The frames from number n on.
Left(frames, n) == Tails(frames, Len(frames))[Len(frames) - n]

PlainOrder ==
  /\ ctl.frames = <<>> /\ ctx.writes = 0 /\ ctx.got <= ctl.stream
  /\ wire = [p \in 1 .. ctl.stream - ctx.got |-> <<Plain, ctx.got + p>>]

FrameOrder ==
  /\ ctx.writes <= Len(ctl.frames) /\ wire = Left(ctl.frames, ctx.writes)
  /\ ctx.got = IF ctx.writes = Len(ctl.frames) THEN ctl.stream
               ELSE ctl.frames[ctx.writes + 1].from

\* Between an answer and the next request there is nothing to read.
Turns ==
  /\ ctl.answered <= ctl.asked /\ ctl.asked <= ctl.answered + 1
  /\ ctl.asked = ctl.answered => ctx.got = ctl.stream

Ordered ==
  whole => /\ ctx.parser = "ok" /\ ctx.data = <<>>
           /\ IF ctx.encrypted THEN FrameOrder ELSE PlainOrder
           /\ Turns

LEMMA LeftTyped ==
  ASSUME NEW frames \in Seq(Frame), Len(frames) <= MaxFrames
  PROVE  /\ Left(frames, Len(frames)) = <<>>
         /\ \A n \in 0 .. Len(frames) : Left(frames, n) \in Seq(Byte)
         /\ \A n \in 0 .. Len(frames) - 1 :
              Left(frames, n) = Sealed(frames, n) \o Left(frames, n + 1)
<1> DEFINE len == Len(frames)
<1>1. len \in Nat /\ len \in 0 .. len
  OBVIOUS
<1>2. /\ Tails(frames, len)[0] = <<>>
      /\ \A k \in 0 .. len : Tails(frames, len)[k] \in Seq(Byte)
      /\ \A k \in 1 .. len : Tails(frames, len)[k]
                              = Sealed(frames, len - k) \o Tails(frames, len)[k - 1]
  BY <1>1, TailsTyped
<1>3. Left(frames, len) = <<>>
  BY <1>1, <1>2 DEF Left
<1>4. ASSUME NEW n \in 0 .. len PROVE Left(frames, n) \in Seq(Byte)
  BY <1>1, <1>2 DEF Left
<1>5. ASSUME NEW n \in 0 .. len - 1
      PROVE  Left(frames, n) = Sealed(frames, n) \o Left(frames, n + 1)
  <2>1. /\ len - n \in 1 .. len /\ len - (len - n) = n
        /\ len - n - 1 = len - (n + 1)
    BY <1>1
  <2>2. Tails(frames, len)[len - n]
          = Sealed(frames, len - (len - n)) \o Tails(frames, len)[len - n - 1]
    BY <1>2, <2>1
  <2> QED
    BY <2>1, <2>2 DEF Left
<1> QED
  BY <1>3, <1>4, <1>5

\* m frames begin with the first of them.
LEMMA RunSplits ==
  ASSUME Typed, NEW n \in Nat, NEW m \in Nat \ {0}, n + m <= Len(ctl.frames)
  PROVE  Run(n, m) = Sealed(ctl.frames, n) \o Run(n + 1, m - 1)
<1>1. /\ n + m \in 0 .. Len(ctl.frames) /\ m \in 1 .. n + m
      /\ n + m - m = n /\ n + 1 + (m - 1) = n + m
  OBVIOUS
<1>2. ctl.frames \in Seq(Frame) /\ Len(ctl.frames) <= MaxFrames
  BY DEF Typed, TypeOK, Controller
<1> DEFINE t == Tails(ctl.frames, n + m)
<1>3. t[0] = <<>> /\ t[m] = Sealed(ctl.frames, n) \o t[m - 1]
  <2> DEFINE s == n + m
  <2>1. t[m] = Sealed(ctl.frames, s - m) \o t[m - 1]
    <3>1. s \in 0 .. Len(ctl.frames) /\ m \in 1 .. s /\ t = Tails(ctl.frames, s)
      BY <1>1
    <3> HIDE DEF s, t
    <3> QED
      BY <1>2, <3>1, TailsTyped
  <2>2. t[0] = <<>>
    BY <1>1, <1>2, TailsTyped
  <2>3. s - m = n
    BY <1>1
  <2> HIDE DEF t, s
  <2> QED
    BY <2>1, <2>2, <2>3
<1>4. Run(n, m) = t[m]
  BY DEF Run
<1>5. Run(n + 1, m - 1) = t[m - 1]
  BY <1>1, <1>3 DEF Run
<1> QED
  BY <1>3, <1>4, <1>5

LEMMA OneFrame ==
  ASSUME Typed, NEW n \in 0 .. Len(ctl.frames) - 1
  PROVE  Run(n, 1) = Sealed(ctl.frames, n)
<1>1. Len(ctl.frames) \in Nat /\ n + 1 <= Len(ctl.frames) /\ n \in Nat /\ 1 - 1 = 0
  BY DEF Typed, TypeOK, Controller
<1>2. Run(n, 1) = Sealed(ctl.frames, n) \o Run(n + 1, 0)
  BY <1>1, RunSplits
<1>3. Sealed(ctl.frames, n) \in Seq(Byte)
  BY SealedTyped DEF Typed, TypeOK, Controller
<1>4. Run(n + 1, 0) = <<>>
  BY DEF Run
<1> QED
  BY <1>2, <1>3, <1>4, ConcatEmptySeq

LEMMA MoreFrames ==
  ASSUME Typed, NEW n \in Nat, NEW m \in Nat, m >= 2, n + m <= Len(ctl.frames)
  PROVE  Len(Run(n, m)) > Len(Sealed(ctl.frames, n))
<1> DEFINE a == Sealed(ctl.frames, n)
           b == Sealed(ctl.frames, n + 1)
           r == Run(n + 1, m - 1)
           q == Run(n + 2, m - 2)
<1>1. ctl.frames \in Seq(Frame) /\ Len(ctl.frames) <= MaxFrames /\ Len(ctl.frames) \in Nat
  BY DEF Typed, TypeOK, Controller
<1>2. /\ n \in 0 .. Len(ctl.frames) - 1 /\ n + 1 \in 0 .. Len(ctl.frames) - 1
      /\ m - 1 \in Nat \ {0} /\ n + 1 \in Nat /\ n + 1 + (m - 1) <= Len(ctl.frames)
      /\ n + 2 \in Nat /\ m - 2 \in Nat /\ n + 2 + (m - 2) <= Len(ctl.frames)
      /\ n + 1 + 1 = n + 2 /\ m - 1 - 1 = m - 2
  BY <1>1
<1>3. a \in Seq(Byte) /\ b \in Seq(Byte) /\ b # <<>>
  <2>1. \A i \in 0 .. Len(ctl.frames) - 1 :
          /\ Sealed(ctl.frames, i) \in Seq(Byte)
          /\ Len(Sealed(ctl.frames, i)) = ctl.frames[i + 1].size + Overhead
          /\ ctl.frames[i + 1].size \in Nat \ {0}
    BY <1>1, SealedTyped
  <2> DEFINE j == n + 1
  <2>2. Len(b) # 0
    <3>1. j \in 0 .. Len(ctl.frames) - 1 /\ b = Sealed(ctl.frames, j)
      BY <1>2
    <3> HIDE DEF j, b
    <3>2. Len(b) = ctl.frames[j + 1].size + Overhead /\ ctl.frames[j + 1].size \in Nat
      BY <2>1, <3>1
    <3> QED
      BY <3>2, FrameAssumption
  <2> QED
    BY <1>2, <2>1, <2>2
<1>4. r \in Seq(Byte) /\ q \in Seq(Byte)
  BY <1>2, RunTyped
<1>5. Run(n, m) = a \o r
  BY RunSplits
<1>6. r = b \o q
  <2>1. r = Sealed(ctl.frames, n + 1) \o Run(n + 1 + 1, m - 1 - 1)
    BY <1>2, RunSplits
  <2> QED
    BY <1>2, <2>1
<1> HIDE DEF a, b, r, q
<1>7. Len(r) = Len(b) + Len(q) /\ Len(Run(n, m)) = Len(a) + Len(r)
  BY <1>3, <1>4, <1>5, <1>6, ConcatProperties
<1>8. Len(a) \in Nat /\ Len(q) \in Nat /\ Len(b) \in Nat /\ Len(b) # 0
  BY <1>3, <1>4
<1> QED
  BY <1>7, <1>8 DEF a

(* A frame read alone is opened alone, and nothing is left of it.          *)
LEMMA FrameAlone ==
  ASSUME Typed, NEW n \in 0 .. Len(ctl.frames) - 1, NEW buf, buf = Sealed(ctl.frames, n)
  PROVE  /\ Opened(buf, n) = 1 /\ After(buf, n) = <<>>
         /\ Plaintext(buf, n) = [i \in 1 .. ctl.frames[n + 1].size
                                  |-> ctl.frames[n + 1].from + i]
<1>1. /\ ctl.frames \in Seq(Frame) /\ Len(ctl.frames) <= MaxFrames
      /\ Len(ctl.frames) \in Nat /\ n \in Nat /\ n + 1 <= Len(ctl.frames)
  BY DEF Typed, TypeOK, Controller
<1>2. /\ buf \in Seq(Byte) /\ Len(buf) = ctl.frames[n + 1].size + Overhead
      /\ ctl.frames[n + 1].size \in Nat /\ Overhead \in Nat /\ Len(buf) \in Nat
  BY <1>1, SealedTyped, FrameAssumption
<1>3. Run(n, 1) = buf
  BY OneFrame
<1>4. Lies(buf, n, 1)
  BY <1>1, <1>2, <1>3 DEF Lies, IsPrefix
<1> DEFINE o == Opened(buf, n)
<1>5. /\ o \in 0 .. Len(ctl.frames) /\ Lies(buf, n, o)
      /\ \A j \in 0 .. Len(ctl.frames) : Lies(buf, n, j) => j <= o
  BY OpenedMost
<1> HIDE DEF o
<1>6. o = 1
  <2>1. 1 \in 0 .. Len(ctl.frames)
    BY <1>1
  <2>2. o >= 1
    BY <1>4, <1>5, <2>1
  <2>3. ASSUME o >= 2 PROVE FALSE
    <3>1. n + o <= Len(ctl.frames) /\ Len(Run(n, o)) <= Len(buf) /\ o \in Nat
      BY <1>1, <1>5, <2>3 DEF Lies, IsPrefix
    <3>2. Len(Run(n, o)) > Len(buf)
      BY <1>1, <2>3, <3>1, MoreFrames
    <3>3. Run(n, o) \in Seq(Byte)
      BY <1>1, <3>1, RunTyped
    <3>4. Len(Run(n, o)) \in Nat
      BY <3>3
    <3> QED
      BY <1>2, <3>1, <3>2, <3>4
  <2> QED
    BY <1>1, <1>5, <2>2, <2>3
<1>7. After(buf, n) = <<>>
  <2>1. After(buf, n) = SubSeq(buf, Len(buf) + 1, Len(buf))
    BY <1>3, <1>6 DEF After, o
  <2>2. /\ SubSeq(buf, Len(buf) + 1, Len(buf)) \in Seq(Byte)
        /\ Len(SubSeq(buf, Len(buf) + 1, Len(buf)))
             = IF Len(buf) <= Len(buf) THEN Len(buf) - Len(buf) ELSE 0
    BY <1>2, Rest
  <2>3. (IF Len(buf) <= Len(buf) THEN Len(buf) - Len(buf) ELSE 0) = 0
    BY <1>2
  <2> QED
    BY <2>1, <2>2, <2>3, EmptySeq
<1>8. Len(buf) - Overhead = ctl.frames[n + 1].size
  BY <1>2
<1>9. Plaintext(buf, n) = [i \in 1 .. ctl.frames[n + 1].size
                           |-> ctl.frames[n + 1].from + i]
  <2>1. \A i \in 1 .. ctl.frames[n + 1].size : i <= ctl.frames[n + 1].size
    BY <1>2
  <2> QED
    BY <1>6, <1>8, <2>1 DEF Plaintext, o
<1> QED
  BY <1>6, <1>7, <1>9 DEF o

LEMMA FramedStep ==
  ASSUME Typed, Framed, Inv, ctl'.frames = ctl.frames, ctl'.stream = ctl.stream,
         ctl'.answered \in {ctl.answered, ctl.answered + 1}
  PROVE  Framed'
<1>1. Secure => Secure'
  BY DEF Secure, Inv, Shapes
<1> QED
  BY <1>1 DEF Framed

LEMMA EndedOrdered == Ended => Framed' /\ Ordered'
<1> SUFFICES ASSUME Ended PROVE Framed' /\ Ordered'
  OBVIOUS
<1>1. /\ ctl' = NewController /\ ctx' = NewContext /\ wire' = <<>>
  BY DEF Ended
<1>2. Framed' /\ Turns'
  BY <1>1 DEF Framed, Turns, NewController, NewContext
<1>3. PlainOrder'
  BY <1>1 DEF PlainOrder, NewController, NewContext
<1> QED
  BY <1>1, <1>2, <1>3 DEF Ordered, NewContext

LEMMA InitOrdered == Init => Framed /\ Ordered
<1> SUFFICES ASSUME Init PROVE Framed /\ Ordered
  OBVIOUS
<1>1. ctl = NewController /\ ctx = NewContext /\ wire = <<>>
  BY DEF Init
<1>2. Framed /\ Turns
  BY <1>1 DEF Framed, Turns, NewController, NewContext
<1>3. PlainOrder
  BY <1>1 DEF PlainOrder, NewController, NewContext
<1> QED
  BY <1>1, <1>2, <1>3 DEF Ordered, NewContext

LEMMA AskFramed ==
  ASSUME Typed, Framed, NEW sizes \in Split, Ask(sizes), Secure
  PROVE  /\ Framed' /\ Secure'
         /\ Len(ctl'.frames) = Len(ctl.frames) + Len(sizes)
         /\ ctl'.frames[Len(ctl.frames) + 1].from = ctl.stream
         /\ wire' = wire \o Left(ctl'.frames, Len(ctl.frames))
<1> DEFINE L == Len(ctl.frames)
           S == Len(sizes)
           B == Bytes(sizes)
           cut == Cut(sizes)
<1>1. /\ ctl \in Controller /\ ctl.frames \in Seq(Frame) /\ ctl.stream \in Nat /\ L \in Nat
      /\ \A i \in 1 .. L : ctl.frames[i].from \in Nat /\ ctl.frames[i].size \in Nat
  <2>1. ctl \in Controller /\ ctl.frames \in Seq(Frame) /\ ctl.stream \in Nat
    BY DEF Typed, TypeOK, Controller
  <2>2. \A f \in Frame : f.from \in Nat /\ f.size \in Nat
    BY FrameAssumption DEF Frame
  <2> QED
    BY <2>1, <2>2
<1>2. /\ sizes \in Seq(1 .. MaxChunk) \ {<<>>} /\ S \in Nat \ {0}
      /\ \A j \in 1 .. S : sizes[j] \in Nat
  BY CutTyped, FrameAssumption
<1>3. /\ B[0] = 0 /\ \A j \in 0 .. S : B[j] \in Nat /\ B[j] <= Total(sizes)
      /\ \A j \in 1 .. S : B[j] = B[j - 1] + sizes[j]
      /\ B[S] = Total(sizes) /\ Total(sizes) \in Nat
  BY <1>2, BytesSum, BytesTotal DEF Total
<1>4. /\ cut \in Seq(Frame) /\ Len(cut) = S
      /\ \A j \in 1 .. S : cut[j].from = ctl.stream + B[j - 1] /\ cut[j].size = sizes[j]
  <2>1. cut \in Seq(Frame) /\ Len(cut) = S
    BY CutTyped
  <2>2. DOMAIN sizes = 1 .. S
    BY <1>2
  <2> QED
    BY <2>1, <2>2 DEF Cut
<1>5. /\ ctl'.frames = ctl.frames \o cut /\ ctl'.stream = ctl.stream + Total(sizes)
      /\ ctl'.answered = ctl.answered
      /\ wire' = wire \o Tails(ctl'.frames, Len(ctl'.frames))[S]
  BY <1>1 DEF Ask, Controller
<1> HIDE DEF B, S, L, cut
<1>6. /\ Len(ctl'.frames) = L + S
      /\ \A i \in 1 .. L : ctl'.frames[i] = ctl.frames[i]
      /\ \A j \in 1 .. S : ctl'.frames[L + j] = cut[j]
  <2> DEFINE fs == ctl.frames
  <2>1. /\ Len(ctl'.frames) = L + S
        /\ \A i \in 1 .. L + S : ctl'.frames[i] = IF i <= L THEN ctl.frames[i] ELSE cut[i - L]
    <3>1. fs \in Seq(Frame) /\ L = Len(fs) /\ ctl'.frames = fs \o cut
      BY <1>1, <1>5 DEF L
    <3> HIDE DEF fs
    <3>2. /\ Len(fs \o cut) = Len(fs) + Len(cut)
          /\ \A i \in 1 .. Len(fs) + Len(cut) :
               (fs \o cut)[i] = IF i <= Len(fs) THEN fs[i] ELSE cut[i - Len(fs)]
      BY <1>4, <3>1, ConcatProperties
    <3> QED
      BY <1>4, <3>1, <3>2 DEF fs
  <2>3. \A i \in 1 .. L : i \in 1 .. L + S /\ i <= L
    BY <1>1, <1>2
  <2>4. ASSUME NEW j \in 1 .. S PROVE ctl'.frames[L + j] = cut[j]
    <3> DEFINE i == L + j
    <3>1. i \in 1 .. L + S /\ ~(i <= L) /\ i - L = j
      <4> HIDE DEF fs
      <4> QED
        BY <1>1, <1>2
    <3> HIDE DEF i
    <3>2. ctl'.frames[i] = cut[j]
      BY <2>1, <3>1
    <3> QED
      BY <3>2 DEF i
  <2> QED
    BY <2>1, <2>3, <2>4
<1>7. Secure'
  BY <1>5 DEF Secure
<1>8. ctl'.frames[L + 1].from = ctl.stream
  <2>1. 1 \in 1 .. S /\ 1 - 1 = 0
    BY <1>2
  <2>2. ctl'.frames[L + 1] = cut[1] /\ cut[1].from = ctl.stream + B[1 - 1]
    BY <1>4, <1>6, <2>1
  <2> QED
    BY <1>1, <1>3, <2>1, <2>2
<1>9. ASSUME NEW i \in 1 .. L + S
      PROVE  /\ ctl'.frames[i].from + ctl'.frames[i].size
                   = IF i = L + S THEN ctl'.stream ELSE ctl'.frames[i + 1].from
             /\ ctl'.frames[i].from + ctl'.frames[i].size <= ctl'.stream
  <2>2. CASE i <= L
    <3>1. /\ ctl.frames[i].from + ctl.frames[i].size
               = IF i = L THEN ctl.stream ELSE ctl.frames[i + 1].from
          /\ ctl.frames[i].from + ctl.frames[i].size <= ctl.stream
      BY <1>1, <2>2 DEF Framed, L
    <3>2. ctl'.frames[i] = ctl.frames[i] /\ (i # L => ctl'.frames[i + 1] = ctl.frames[i + 1])
      BY <1>1, <1>6, <2>2
    <3>3. ctl.frames[i].from + ctl.frames[i].size \in Nat
      BY <1>1, <2>2
    <3>4. i # L + S /\ ctl.stream <= ctl'.stream
      BY <1>1, <1>2, <1>3, <1>5, <2>2
    <3>5. ctl'.frames[i].from + ctl'.frames[i].size <= ctl'.stream
      BY <1>1, <1>3, <1>5, <3>1, <3>2, <3>3, <3>4
    <3> QED
      BY <1>8, <3>1, <3>2, <3>4, <3>5
  <2>3. CASE i > L
    <3> DEFINE j == i - L
    <3>1. j \in 1 .. S /\ i = L + j /\ (i # L + S => j + 1 \in 1 .. S /\ i + 1 = L + (j + 1))
          /\ (i = L + S <=> j = S) /\ j + 1 - 1 = j /\ j - 1 \in 0 .. S
      BY <1>1, <1>2, <2>3
    <3> HIDE DEF j
    <3>2. ctl'.frames[i].from = ctl.stream + B[j - 1] /\ ctl'.frames[i].size = sizes[j]
      BY <1>4, <1>6, <3>1
    <3>3. ctl'.frames[i].from + ctl'.frames[i].size = ctl.stream + B[j]
      <4>1. B[j - 1] \in Nat /\ sizes[j] \in Nat /\ B[j] = B[j - 1] + sizes[j]
        BY <1>2, <1>3, <3>1
      <4> QED
        BY <1>1, <3>2, <4>1
    <3>4. CASE i = L + S
      <4>1. ctl'.frames[i].from + ctl'.frames[i].size = ctl'.stream
        BY <1>3, <1>5, <3>1, <3>3, <3>4
      <4>2. ctl'.stream \in Nat
        BY <1>1, <1>3, <1>5
      <4> QED
        BY <3>4, <4>1, <4>2
    <3>5. CASE i # L + S
      <4>1. ctl'.frames[i + 1].from = ctl.stream + B[j]
        <5>1. ctl'.frames[L + (j + 1)] = cut[j + 1] /\ cut[j + 1].from = ctl.stream + B[j + 1 - 1]
          BY <1>4, <1>6, <3>1, <3>5
        <5> QED
          BY <3>1, <3>5, <5>1
      <4>2. B[j] \in Nat /\ B[j] <= Total(sizes)
        BY <1>3, <3>1
      <4>3. ctl.stream + B[j] <= ctl'.stream
        BY <1>1, <1>3, <1>5, <4>2
      <4> QED
        BY <3>3, <3>5, <4>1, <4>3
    <3> QED
      BY <3>4, <3>5
  <2> QED
    BY <1>1, <2>2, <2>3
<1>10. Framed'
  BY <1>6, <1>7, <1>9 DEF Framed
<1>11. wire' = wire \o Left(ctl'.frames, L)
  <2>1. Len(ctl'.frames) - L = S
    BY <1>1, <1>2, <1>6
  <2> QED
    BY <1>5, <2>1 DEF Left
<1> QED
  BY <1>6, <1>7, <1>10, <1>11, <1>8 DEF L, S

(* What is left to read when the parser has the whole stream: nothing.     *)
LEMMA NothingLeft ==
  ASSUME Typed, Framed, Ordered, whole, ctx.got = ctl.stream
  PROVE  wire = <<>> /\ (ctx.encrypted => ctx.writes = Len(ctl.frames))
<1> DEFINE L == Len(ctl.frames)
<1>1. /\ ctl.stream \in Nat /\ ctx.writes \in Nat
      /\ ctl.frames \in Seq(Frame) /\ L \in Nat /\ L <= MaxFrames
  BY DEF Typed, TypeOK, Controller, Context
<1>2. CASE ~ctx.encrypted
  <2>1. wire = [p \in 1 .. ctl.stream - ctx.got |-> <<Plain, ctx.got + p>>]
    BY <1>2 DEF Ordered, PlainOrder
  <2>2. ctl.stream - ctx.got = 0
    BY <1>1
  <2> QED
    BY <1>2, <2>1, <2>2
<1>3. CASE ctx.encrypted
  <2>1. /\ ctx.writes <= L /\ wire = Left(ctl.frames, ctx.writes)
        /\ ctl.stream = IF ctx.writes = L THEN ctl.stream ELSE ctl.frames[ctx.writes + 1].from
    BY <1>3 DEF Ordered, FrameOrder
  <2>2. ctx.writes = L
    <3> SUFFICES ASSUME ctx.writes # L PROVE FALSE
      OBVIOUS
    <3> DEFINE i == ctx.writes + 1
    <3>1. i \in 1 .. L
      BY <1>1, <2>1
    <3>2. ctl.frames[i].from = ctl.stream
      BY <2>1
    <3> HIDE DEF i
    <3>3. ctl.frames[i].from + ctl.frames[i].size <= ctl.stream
      BY <3>1 DEF Framed
    <3>4. ctl.frames[i].size \in Nat \ {0}
      <4>1. ctl.frames[i] \in Frame
        BY <1>1, <3>1
      <4> QED
        BY <4>1, FrameAssumption DEF Frame
    <3> QED
      BY <1>1, <3>2, <3>3, <3>4
  <2>3. wire = <<>>
    BY <1>1, <2>1, <2>2, LeftTyped
  <2> QED
    BY <2>2, <2>3
<1> QED
  BY <1>2, <1>3

LEMMA AskOrdered ==
  ASSUME Typed, Inv, Framed, Ordered, NEW sizes \in Split, Ask(sizes)
  PROVE  Framed' /\ Ordered'
<1>1. /\ ctl \in Controller /\ ctl.stream \in Nat /\ ctl.asked \in Nat /\ ctl.answered \in Nat
      /\ ctx \in Context /\ ctx.writes \in Nat /\ ctx.got \in Nat
      /\ ctl.frames \in Seq(Frame) /\ Len(ctl.frames) \in Nat
      /\ Len(ctl.frames) <= MaxFrames
  BY DEF Typed, TypeOK, Controller, Context
<1>2. /\ ctl'.asked = ctl.asked + 1 /\ ctl'.answered = ctl.answered
      /\ ctl.asked = ctl.answered /\ ctx' = ctx /\ whole' = whole
  BY <1>1 DEF Ask, Controller
<1>3. ctl'.asked # ctl'.answered /\ ctl'.answered <= ctl'.asked /\ ctl'.asked <= ctl'.answered + 1
  BY <1>1, <1>2
<1>4. CASE Secure
  <2> DEFINE L == Len(ctl.frames)
  <2>1. /\ Framed' /\ Len(ctl'.frames) = L + Len(sizes)
        /\ ctl'.frames[L + 1].from = ctl.stream
        /\ wire' = wire \o Left(ctl'.frames, L)
    BY <1>4, AskFramed
  <2>2. ASSUME whole PROVE FrameOrder'
    <3>1. /\ ctx.writes <= L /\ wire = Left(ctl.frames, ctx.writes)
          /\ ctx.got = IF ctx.writes = L THEN ctl.stream ELSE ctl.frames[ctx.writes + 1].from
          /\ ctx.got = ctl.stream
      BY <1>2, <1>4, <2>2 DEF Ordered, FrameOrder, Turns, Inv, Sides
    <3>2. ctx.writes = L /\ wire = <<>>
      BY <1>4, <2>2, <3>1, NothingLeft DEF Inv, Sides
    <3>4. Len(sizes) \in Nat \ {0}
      BY CutTyped
    <3>5. L <= Len(ctl'.frames) /\ L # Len(ctl'.frames) /\ Len(ctl'.frames) \in Nat
      BY <1>1, <2>1, <3>4
    <3>6. wire' = Left(ctl'.frames, L)
      <4>1. Typed'
        BY AskTyped
      <4>2. ctl'.frames \in Seq(Frame) /\ Len(ctl'.frames) <= MaxFrames
        BY <4>1 DEF Typed, TypeOK, Controller
      <4>3. Left(ctl'.frames, L) \in Seq(Byte)
        BY <1>1, <3>5, <4>2, LeftTyped
      <4> QED
        BY <2>1, <3>2, <4>3, ConcatEmptySeq
    <3>7. ctx'.writes = L /\ ctx'.got = ctl.stream
      BY <1>2, <3>1, <3>2
    <3> HIDE DEF L
    <3> QED
      BY <2>1, <3>5, <3>6, <3>7 DEF FrameOrder
  <2>3. ctx.encrypted
    BY <1>4 DEF Inv, Sides
  <2> QED
    BY <1>2, <1>3, <2>1, <2>2, <2>3 DEF Ordered, Turns
<1>5. CASE ~Secure
  <2>1. /\ ctl'.frames = ctl.frames /\ ctl'.stream = ctl.stream + Total(sizes)
        /\ wire' = [p \in 1 .. Total(sizes) |-> <<Plain, p>>]
    BY <1>1, <1>5 DEF Ask, Controller
  <2>2. Total(sizes) \in Nat
    BY CutTyped, BytesTotal
  <2>3. ctl.frames = <<>> /\ ctl.asked = 0 /\ ~ctx.encrypted
    BY <1>1, <1>2, <1>5 DEF Framed, Secure, Inv, Sides
  <2>4. Framed'
    BY <2>1, <2>3 DEF Framed
  <2>5. ASSUME whole PROVE PlainOrder'
    <3>1. ctx.writes = 0 /\ ctx.got = ctl.stream /\ ctx.got = 0
      BY <1>2, <2>3, <2>5 DEF Ordered, PlainOrder, Turns, Inv, PlainStream
    <3>2. ctl'.stream - ctx.got = Total(sizes) /\ ctx.got <= ctl'.stream
      BY <2>1, <2>2, <3>1
    <3>3. \A p \in 1 .. Total(sizes) : ctx.got + p = p
      BY <2>2, <3>1
    <3>4. wire' = [p \in 1 .. ctl'.stream - ctx.got |-> <<Plain, ctx.got + p>>]
      BY <2>1, <3>2, <3>3
    <3> QED
      BY <1>2, <2>1, <2>3, <3>1, <3>2, <3>4 DEF PlainOrder
  <2> QED
    BY <1>2, <1>3, <2>3, <2>4, <2>5 DEF Ordered, Turns
<1> QED
  BY <1>4, <1>5

(* A read whose plaintext continues the stream: the parser takes all of    *)
(* it, and answers if it completes the request.                            *)
LEMMA ServeOrdered ==
  ASSUME Typed, Framed, Ordered, whole, NEW k \in 1 .. Len(wire), NEW x \in Context,
         x.parser = "ok", x.data = <<>>,
         NEW n \in Nat \ {0}, NEW content, content \in Seq(Nat), Len(content) = n,
         \A i \in 1 .. n : content[i] = x.got + i,
         NEW intact, Serve(k, x, content, intact), ~Ended
  PROVE  /\ wire' = SubSeq(wire, k + 1, Len(wire)) /\ whole' = intact
         /\ ctx'.parser = "ok" /\ ctx'.data = <<>> /\ ctx'.writes = x.writes
         /\ ctx'.got = x.got + n
         /\ ctl'.frames = ctl.frames /\ ctl'.stream = ctl.stream
         /\ ctl'.answered \in {ctl.answered, ctl.answered + 1}
         /\ Turns'
         /\ \/ ctx'.encrypted = x.encrypted
            \/ ctx'.encrypted = TRUE /\ ctx'.got = ctl.stream
<1> DEFINE y == Parsed(x, content)
           complete == y.got = ctl.stream /\ y.got > y.done
<1>1. /\ ctl \in Controller /\ ctl.asked \in Nat /\ ctl.answered \in Nat
      /\ wire \in Seq(Byte) /\ Len(wire) \in Nat
      /\ ctx.writes \in Nat /\ ctl.frames \in Seq(Frame) /\ Len(ctl.frames) <= MaxFrames
      /\ ctl.stream \in Nat /\ ctx.got \in Nat
  BY DEF Typed, TypeOK, Controller, Context
<1>2. ctl.asked = ctl.answered + 1
  <2> SUFFICES ASSUME ctl.asked = ctl.answered PROVE FALSE
    BY <1>1 DEF Ordered, Turns
  <2>1. ctx.got = ctl.stream
    BY DEF Ordered, Turns
  <2>2. Len(wire) # 0
    BY <1>1
  <2> QED
    BY <2>1, <2>2, NothingLeft
<1>3. y = [x EXCEPT !.got = x.got + n]
  <2>1. DOMAIN content = 1 .. n /\ content # <<>>
    OBVIOUS
  <2>2. InOrder(x, content) = n
    BY <2>1, AllInOrder
  <2> QED
    BY <2>1, <2>2 DEF Parsed, Context
<1>4. /\ y \in Context /\ y.parser = "ok" /\ y.data = <<>> /\ y.writes = x.writes
      /\ y.got = x.got + n /\ y.encrypted = x.encrypted
  <2>1. x.got \in Nat
    BY DEF Context
  <2> DEFINE g == x.got + n
  <2>2. g \in Nat /\ y = [x EXCEPT !.got = g]
    BY <1>3, <2>1
  <2> HIDE DEF y, g
  <2>3. y \in Context
    BY <2>2 DEF Context
  <2>4. /\ y.parser = x.parser /\ y.data = x.data /\ y.writes = x.writes
        /\ y.got = g /\ y.encrypted = x.encrypted
    BY <2>2 DEF Context
  <2> QED
    BY <2>3, <2>4 DEF g
<1> HIDE DEF y
<1>5. wire' = SubSeq(wire, k + 1, Len(wire)) /\ whole' = intact
  BY DEF Serve, WriteError
<1>6. \/ ctx' = y /\ ctl' = ctl
      \/ /\ complete
         /\ \E pieces \in 1 .. MaxPieces :
              /\ ctx' = Answered(y, pieces)
              /\ ctl' = [Opening(ctl, pieces) EXCEPT !.answered = @ + 1]
  BY DEF Serve, WriteError, y
<1>7. CASE ctx' = y /\ ctl' = ctl
  BY <1>1, <1>2, <1>4, <1>5, <1>7 DEF Turns
<1>8. ASSUME complete, NEW pieces \in 1 .. MaxPieces, ctx' = Answered(y, pieces),
             ctl' = [Opening(ctl, pieces) EXCEPT !.answered = @ + 1]
      PROVE  /\ ctx'.parser = "ok" /\ ctx'.data = <<>> /\ ctx'.writes = x.writes
             /\ ctx'.got = x.got + n /\ ctl'.frames = ctl.frames /\ ctl'.stream = ctl.stream
             /\ ctl'.answered = ctl.answered + 1 /\ Turns'
             /\ ctx'.encrypted = TRUE /\ ctx'.got = ctl.stream
  <2>1. /\ ctx'.parser = y.parser /\ ctx'.data = y.data /\ ctx'.writes = y.writes
        /\ ctx'.got = y.got /\ ctx'.encrypted = TRUE
    BY <1>4, <1>8 DEF Answered, Sealing, Context
  <2>2. /\ ctl'.frames = ctl.frames /\ ctl'.stream = ctl.stream
        /\ ctl'.answered = ctl.answered + 1 /\ ctl'.asked = ctl.asked
    BY <1>1, <1>8 DEF Opening, Controller
  <2>3. Turns'
    BY <1>1, <1>2, <1>8, <2>1, <2>2 DEF Turns
  <2> QED
    BY <1>4, <1>8, <2>1, <2>2, <2>3
<1> QED
  BY <1>5, <1>6, <1>7, <1>8

\* What any read that hands on plaintext does to the controller.
LEMMA ServeFramed ==
  ASSUME Typed, Inv, Framed, NEW k, NEW x, NEW content, NEW intact,
         Serve(k, x, content, intact), ~Ended
  PROVE  Framed'
<1>1. /\ ctl'.frames = ctl.frames /\ ctl'.stream = ctl.stream
      /\ ctl'.answered \in {ctl.answered, ctl.answered + 1}
  BY DEF Serve, WriteError, Opening, Inv, Shapes
<1> QED
  BY <1>1, FramedStep

\* What follows the first of two sequences behind one another.
LEMMA RestOfConcat ==
  ASSUME NEW T, NEW s \in Seq(T), NEW t \in Seq(T)
  PROVE  SubSeq(s \o t, Len(s) + 1, Len(s \o t)) = t
<1> DEFINE u == s \o t
           r == SubSeq(u, Len(s) + 1, Len(u))
<1>1. /\ u \in Seq(T) /\ Len(u) = Len(s) + Len(t)
      /\ \A i \in 1 .. Len(s) + Len(t) : u[i] = IF i <= Len(s) THEN s[i] ELSE t[i - Len(s)]
  BY ConcatProperties
<1>2. Len(s) \in Nat /\ Len(t) \in Nat
  OBVIOUS
<1> HIDE DEF u
<1>3. /\ r \in Seq(T) /\ Len(r) = IF Len(s) <= Len(u) THEN Len(u) - Len(s) ELSE 0
      /\ \A i \in 1 .. Len(u) - Len(s) : r[i] = u[Len(s) + i]
  BY <1>1, <1>2, Rest
<1>4. Len(r) = Len(t) /\ Len(u) - Len(s) = Len(t)
  BY <1>1, <1>2, <1>3
<1>5. ASSUME NEW i \in 1 .. Len(t) PROVE r[i] = t[i]
  <2>1. /\ Len(s) + i \in 1 .. Len(s) + Len(t) /\ ~(Len(s) + i <= Len(s))
        /\ Len(s) + i - Len(s) = i
    BY <1>2
  <2>2. u[Len(s) + i] = t[Len(s) + i - Len(s)]
    BY <1>1, <2>1
  <2> QED
    BY <1>3, <1>4, <2>1, <2>2
<1> HIDE DEF r
<1> QED
  BY <1>3, <1>4, <1>5, SeqEqual DEF r, u

LEMMA PlainOrdered ==
  ASSUME Typed, Inv, Framed, Ordered, NEW k \in 1 .. Len(wire), ReceivePlain(k)
  PROVE  Framed' /\ Ordered'
<1>1. /\ ctx \in Context /\ wire \in Seq(Byte) /\ k \in Nat \ {0} /\ k <= Len(wire)
      /\ Len(wire) \in Nat /\ ctl.stream \in Nat /\ ctx.got \in Nat
      /\ ctl.frames \in Seq(Frame) /\ Len(ctl.frames) <= MaxFrames
  BY DEF Typed, TypeOK, Context, Controller
<1> DEFINE content == [i \in 1 .. k |-> wire[i][2]]
<1>2. ~ctx.encrypted /\ Serve(k, ctx, content, whole)
  BY DEF ReceivePlain
<1>3. CASE Ended
  BY <1>3, EndedOrdered
<1>4. CASE ~Ended /\ ~whole
  <2>1. whole' = whole
    BY <1>2, <1>4 DEF Serve, WriteError
  <2>2. Framed'
    BY <1>2, <1>4, ServeFramed
  <2> QED
    BY <1>4, <2>1, <2>2 DEF Ordered
<1>5. CASE ~Ended /\ whole
  <2>1. /\ ctl.frames = <<>> /\ ctx.writes = 0 /\ ctx.got <= ctl.stream
        /\ wire = [p \in 1 .. ctl.stream - ctx.got |-> <<Plain, ctx.got + p>>]
        /\ ctx.parser = "ok" /\ ctx.data = <<>>
    BY <1>2, <1>5 DEF Ordered, PlainOrder
  <2>2. Len(wire) = ctl.stream - ctx.got
    BY <1>1, <2>1
  <2>3. \A i \in 1 .. k : content[i] = ctx.got + i
    <3>1. \A i \in 1 .. k : i \in 1 .. ctl.stream - ctx.got
      BY <1>1, <2>2
    <3> QED
      BY <2>1, <3>1
  <2>4. content \in Seq(Nat) /\ Len(content) = k
    <3>1. \A i \in 1 .. k : content[i] \in Nat
      BY <1>1, <2>3
    <3> QED
      BY <1>1, <3>1
  <2> HIDE DEF content
  <2>5. /\ wire' = SubSeq(wire, k + 1, Len(wire)) /\ whole' = whole
        /\ ctx'.parser = "ok" /\ ctx'.data = <<>> /\ ctx'.writes = 0
        /\ ctx'.got = ctx.got + k
        /\ ctl'.frames = ctl.frames /\ ctl'.stream = ctl.stream
        /\ ctl'.answered \in {ctl.answered, ctl.answered + 1}
        /\ Turns'
        /\ \/ ctx'.encrypted = ctx.encrypted
           \/ ctx'.encrypted = TRUE /\ ctx'.got = ctl.stream
    <3>1. ctx.parser = "ok" /\ ctx.data = <<>> /\ whole
      BY <1>5, <2>1
    <3>2. /\ wire' = SubSeq(wire, k + 1, Len(wire)) /\ whole' = whole
          /\ ctx'.parser = "ok" /\ ctx'.data = <<>> /\ ctx'.writes = ctx.writes
          /\ ctx'.got = ctx.got + k
          /\ ctl'.frames = ctl.frames /\ ctl'.stream = ctl.stream
          /\ ctl'.answered \in {ctl.answered, ctl.answered + 1}
          /\ Turns'
          /\ \/ ctx'.encrypted = ctx.encrypted
             \/ ctx'.encrypted = TRUE /\ ctx'.got = ctl.stream
      BY <1>1, <1>2, <1>5, <2>3, <2>4, <3>1, ServeOrdered
    <3> QED
      BY <2>1, <3>2
  <2>6. Framed'
    BY <2>5, FramedStep
  <2>7. /\ wire' \in Seq(Byte) /\ Len(wire') = ctl.stream - ctx'.got
        /\ \A p \in 1 .. ctl.stream - ctx'.got : wire'[p] = <<Plain, ctx'.got + p>>
    <3>1. /\ wire' \in Seq(Byte) /\ Len(wire') = Len(wire) - k
          /\ \A p \in 1 .. Len(wire) - k : wire'[p] = wire[k + p]
      BY <1>1, <2>5, Rest
    <3>2. Len(wire) - k = ctl.stream - ctx'.got
      BY <1>1, <2>2, <2>5
    <3>3. ASSUME NEW p \in 1 .. Len(wire) - k
          PROVE  wire[k + p] = <<Plain, ctx'.got + p>>
      <4>1. k + p \in 1 .. ctl.stream - ctx.got /\ ctx.got + (k + p) = ctx'.got + p
        BY <1>1, <2>2, <2>5
      <4> QED
        BY <2>1, <4>1
    <3> QED
      BY <3>1, <3>2, <3>3
  <2>8. wire' = [p \in 1 .. ctl.stream - ctx'.got |-> <<Plain, ctx'.got + p>>]
    <3>1. wire' = [p \in 1 .. Len(wire') |-> wire'[p]]
      BY <2>7
    <3> QED
      BY <2>7, <3>1, Zenon
  <2>9. CASE ~ctx'.encrypted
    <3>1. ctx'.got <= ctl.stream
      BY <1>1, <2>2, <2>5
    <3> QED
      BY <2>1, <2>5, <2>6, <2>8, <2>9, <3>1 DEF Ordered, PlainOrder
  <2>10. CASE ctx'.encrypted
    <3>1. ctx'.got = ctl.stream
      BY <1>2, <2>5, <2>10
    <3>2. wire' = <<>>
      <4>1. Len(wire') = 0
        BY <1>1, <2>7, <3>1
      <4> QED
        BY <2>7, <4>1, EmptySeq
    <3>3. Left(ctl.frames, 0) = <<>> /\ Len(ctl.frames) = 0
      BY <1>1, <2>1, LeftTyped
    <3>4. FrameOrder'
      <4>1. /\ Len(ctl'.frames) = 0 /\ ctx'.writes = 0
            /\ Left(ctl'.frames, ctx'.writes) = <<>>
        BY <2>5, <3>3
      <4>2. ctx'.writes <= Len(ctl'.frames) /\ ctx'.writes = Len(ctl'.frames)
        BY <4>1
      <4>3. wire' = Left(ctl'.frames, ctx'.writes) /\ ctx'.got = ctl'.stream
        BY <2>5, <3>1, <3>2, <4>1
      <4> QED
        BY <4>2, <4>3, Zenon DEF FrameOrder
    <3> QED
      BY <2>5, <2>6, <2>10, <3>4 DEF Ordered
  <2> QED
    BY <2>5, <2>9, <2>10
<1> QED
  BY <1>3, <1>4, <1>5

LEMMA FramesOrdered ==
  ASSUME Typed, Inv, Framed, Ordered, NEW k \in 1 .. Len(wire), Receive(k)
  PROVE  Framed' /\ Ordered'
<1> DEFINE x == Opens(Input(k))
           content == Plaintext(Input(k), ctx.writes)
           L == Len(ctl.frames)
           w == ctx.writes
<1>1. /\ ctx \in Context /\ wire \in Seq(Byte) /\ k \in Nat \ {0} /\ k <= Len(wire)
      /\ ctl.frames \in Seq(Frame) /\ L <= MaxFrames /\ L \in Nat /\ w \in Nat
      /\ ctx.got \in Nat
  BY DEF Typed, TypeOK, Context, Controller
<1>2. ctx.encrypted /\ Serve(k, x, content, whole /\ ReadsWhole(k))
  BY DEF Receive
<1>3. CASE Ended
  BY <1>3, EndedOrdered
<1>4. CASE ~Ended /\ ~(whole /\ ReadsWhole(k))
  <2>1. whole' = (whole /\ ReadsWhole(k))
    BY <1>2, <1>4 DEF Serve, WriteError
  <2>2. Framed'
    <3> HIDE DEF x, content
    <3> QED
      BY <1>2, <1>4, ServeFramed
  <2> QED
    BY <1>4, <2>1, <2>2 DEF Ordered
<1>5. CASE ~Ended /\ whole /\ ReadsWhole(k)
  <2>1. /\ w <= L /\ wire = Left(ctl.frames, w)
        /\ ctx.got = IF w = L THEN ctl.stream ELSE ctl.frames[w + 1].from
        /\ ctx.parser = "ok" /\ ctx.data = <<>>
    BY <1>2, <1>5 DEF Ordered, FrameOrder
  <2>2. w # L
    <3> SUFFICES ASSUME w = L PROVE FALSE
      OBVIOUS
    <3>1. wire = <<>>
      BY <1>1, <2>1, LeftTyped
    <3> QED
      BY <1>1, <3>1
  <2>3. w \in 0 .. L - 1 /\ w + 1 \in 0 .. L
    BY <1>1, <2>1, <2>2
  <2> DEFINE f == ctl.frames[w + 1]
             a == Sealed(ctl.frames, w)
             b == Left(ctl.frames, w + 1)
  <2>4. /\ f \in Frame /\ f.size \in Nat \ {0} /\ f.from \in Nat
        /\ a \in Seq(Byte) /\ Len(a) = f.size + Overhead /\ a[1] = <<w, 0>>
    <3>1. \A g \in Frame : g.from \in Nat
      BY DEF Frame
    <3> QED
      BY <1>1, <2>3, <3>1, SealedTyped
  <2>5. b \in Seq(Byte) /\ wire = a \o b
    BY <1>1, <2>1, <2>3, LeftTyped
  <2>6. Input(k) = SubSeq(wire, 1, k)
    <3>1. SubSeq(wire, 1, k) \in Seq(Byte) /\ Len(SubSeq(wire, 1, k)) = k
      BY <1>1
    <3>2. Input(k) = SubSeq(SubSeq(wire, 1, k), 1, k)
      BY <2>1, <3>1, ConcatEmptySeq DEF Input
    <3> DEFINE h == SubSeq(wire, 1, k)
    <3> HIDE DEF h
    <3>3. SubSeq(h, 1, Len(h)) = h
      BY <3>1, SubSeqFull DEF h
    <3> QED
      BY <3>1, <3>2, <3>3 DEF h
  <2>7. Input(k) = a
    <3>1. PICK n \in 0 .. L - 1 : Input(k) = Sealed(ctl.frames, n)
      BY <1>5 DEF ReadsWhole
    <3>2. Input(k)[1] = <<n, 0>>
      BY <1>1, <3>1, SealedTyped
    <3>3. Input(k)[1] = wire[1]
      BY <1>1, <2>6
    <3>4. wire[1] = <<w, 0>>
      <4> HIDE DEF a, b, f
      <4>1. Len(a) \in Nat \ {0} /\ Len(b) \in Nat
        BY <2>4, <2>5, FrameAssumption
      <4>2. wire[1] = a[1]
        BY <2>4, <2>5, <4>1, ConcatProperties
      <4> QED
        BY <2>4, <4>2
    <3>5. n = w
      BY <3>2, <3>3, <3>4
    <3> QED
      BY <3>1, <3>5
  <2>8. k = Len(a)
    BY <2>7, InputTyped
  <2>9. SubSeq(wire, k + 1, Len(wire)) = b
    <3> HIDE DEF a, b, f
    <3> QED
      BY <2>4, <2>5, <2>8, RestOfConcat
  <2>10. /\ Opened(Input(k), w) = 1 /\ After(Input(k), w) = <<>>
         /\ content = [i \in 1 .. f.size |-> f.from + i]
    BY <2>3, <2>7, FrameAlone
  <2>11. /\ x \in Context /\ x.parser = "ok" /\ x.data = <<>> /\ x.writes = w + 1
         /\ x.got = f.from /\ x.encrypted = ctx.encrypted
    <3>1. x = [ctx EXCEPT !.data = <<>>, !.writes = w + 1]
      BY <2>10 DEF Opens
    <3>2. w + 1 \in Nat /\ <<>> \in Seq(Byte)
      BY <1>1
    <3>3. ctx.got = f.from
      BY <2>1, <2>2
    <3> HIDE DEF f, w, x
    <3> QED
      BY <1>1, <2>1, <3>1, <3>2, <3>3 DEF Context
  <2>12. /\ content \in Seq(Nat) /\ Len(content) = f.size
         /\ \A i \in 1 .. f.size : content[i] = x.got + i
    <3> DEFINE z == f.size
               g == f.from
    <3>1. z \in Nat /\ g \in Nat /\ content = [i \in 1 .. z |-> g + i] /\ x.got = g
      BY <2>4, <2>10, <2>11
    <3> HIDE DEF z, g, f, x, content
    <3>2. content \in Seq(Nat) /\ Len(content) = z /\ \A i \in 1 .. z : content[i] = g + i
      BY <3>1
    <3> QED
      BY <3>1, <3>2 DEF z
  <2> HIDE DEF x, content
  <2>13. /\ wire' = SubSeq(wire, k + 1, Len(wire))
         /\ ctx'.parser = "ok" /\ ctx'.data = <<>> /\ ctx'.writes = w + 1
         /\ ctx'.got = f.from + f.size
         /\ ctl'.frames = ctl.frames /\ ctl'.stream = ctl.stream
         /\ ctl'.answered \in {ctl.answered, ctl.answered + 1}
         /\ Turns' /\ ctx'.encrypted
    <3> DEFINE z == f.size
               intact == whole /\ ReadsWhole(k)
    <3>1. Serve(k, x, content, intact) /\ ~Ended
      BY <1>2, <1>5 DEF x, content
    <3>2. /\ z \in Nat \ {0} /\ content \in Seq(Nat) /\ Len(content) = z
          /\ \A i \in 1 .. z : content[i] = x.got + i
      BY <2>4, <2>12
    <3>3. x \in Context /\ x.parser = "ok" /\ x.data = <<>>
      BY <2>11
    <3> HIDE DEF f, w, z, intact
    <3>4. /\ wire' = SubSeq(wire, k + 1, Len(wire))
          /\ ctx'.parser = "ok" /\ ctx'.data = <<>> /\ ctx'.writes = x.writes
          /\ ctx'.got = x.got + z
          /\ ctl'.frames = ctl.frames /\ ctl'.stream = ctl.stream
          /\ ctl'.answered \in {ctl.answered, ctl.answered + 1}
          /\ Turns' /\ (ctx'.encrypted = x.encrypted \/ ctx'.encrypted = TRUE)
      BY <1>2, <1>5, <3>1, <3>2, <3>3, ServeOrdered
    <3> QED
      BY <1>2, <1>5, <2>11, <3>4 DEF z
  <2>14. Framed'
    BY <2>13, FramedStep
  <2>15. FrameOrder'
    <3> DEFINE i == w + 1
    <3>1. i \in 1 .. L /\ i <= L
      BY <1>1, <2>3
    <3>2. f.from + f.size = IF i = L THEN ctl.stream ELSE ctl.frames[i + 1].from
      BY <3>1 DEF Framed
    <3> HIDE DEF f, w, i
    <3>3. ctx'.writes = i /\ wire' = Left(ctl.frames, i)
      BY <2>9, <2>13 DEF i
    <3> QED
      BY <2>13, <3>1, <3>2, <3>3 DEF FrameOrder
  <2> QED
    BY <2>13, <2>14, <2>15 DEF Ordered
<1> QED
  BY <1>3, <1>4, <1>5

LEMMA NextOrdered ==
  ASSUME Typed, Inv, Framed, Ordered, [Next]_vars
  PROVE  Framed' /\ Ordered'
<1>1. CASE UNCHANGED vars \/ Connect
  BY <1>1 DEF vars, Connect, Framed, Ordered, FrameOrder, PlainOrder, Turns, Secure
<1>2. CASE Leave \/ SendEventsFails
  BY <1>2, EndedOrdered DEF Leave, SendEventsFails, WriteError
<1>3. ASSUME NEW sizes \in Split, Ask(sizes) PROVE Framed' /\ Ordered'
  BY <1>3, AskOrdered
<1>4. ASSUME NEW pieces \in 1 .. MaxPieces, SendEvents(pieces) PROVE Framed' /\ Ordered'
  <2>1. /\ wire' = wire /\ whole' = whole
        /\ ctx'.encrypted = ctx.encrypted /\ ctx'.parser = ctx.parser /\ ctx'.data = ctx.data
        /\ ctx'.writes = ctx.writes /\ ctx'.got = ctx.got
        /\ ctl'.frames = ctl.frames /\ ctl'.stream = ctl.stream
        /\ ctl'.asked = ctl.asked /\ ctl'.answered = ctl.answered
    BY <1>4 DEF SendEvents, Sealing, Opening, Inv, Shapes
  <2> QED
    BY <2>1 DEF Framed, Ordered, FrameOrder, PlainOrder, Turns, Secure
<1>5. ASSUME NEW k \in 1 .. Len(wire),
             ReceivePlain(k) \/ Receive(k) \/ ReceiveInvalid(k) \/ ReceiveTooShort(k)
      PROVE  Framed' /\ Ordered'
  <2>1. CASE ReceivePlain(k)
    BY <2>1, PlainOrdered
  <2>2. CASE Receive(k)
    BY <2>2, FramesOrdered
  <2>3. CASE (ReceiveInvalid(k) \/ ReceiveTooShort(k)) /\ ~Ended
    <3>1. ~whole' /\ ctl' = ctl
      BY <2>3 DEF ReceiveInvalid, ReceiveTooShort
    <3> QED
      BY <3>1 DEF Framed, Secure, Ordered
  <2>4. CASE Ended
    BY <2>4, EndedOrdered
  <2> QED
    BY <1>5, <2>1, <2>2, <2>3, <2>4
<1> QED
  BY <1>1, <1>2, <1>3, <1>4, <1>5 DEF Next, Process

LEMMA OrderedIsInOrder == Typed /\ Ordered => InOrderIfWhole
<1> SUFFICES ASSUME Typed, Ordered, whole, ctx.encrypted
             PROVE  wire = Run(ctx.writes, Len(ctl.frames) - ctx.writes)
  BY DEF Ordered, PlainOrder, FrameOrder, InOrderIfWhole
<1> DEFINE L == Len(ctl.frames)
           w == ctx.writes
<1>1. /\ L \in Nat /\ w \in Nat /\ w <= L /\ wire = Left(ctl.frames, w)
      /\ ctl.frames \in Seq(Frame) /\ L <= MaxFrames
  BY DEF Typed, TypeOK, Controller, Context, Ordered, FrameOrder
<1>2. CASE w = L
  <2>1. L - w = 0 /\ wire = <<>>
    BY <1>1, <1>2, LeftTyped
  <2> QED
    BY <2>1 DEF Run
<1>3. CASE w # L
  <2>1. L - w # 0 /\ w + (L - w) = L
    BY <1>1, <1>3
  <2> QED
    BY <1>1, <2>1 DEF Run, Left
<1> QED
  BY <1>2, <1>3

(* The parser gets the requests in order, for as long as the reads of an   *)
(* encrypted session take one frame each, and however the plain ones are   *)
(* split: every byte is on the wire, or parsed, and every frame taken off  *)
(* the wire is counted once.                                               *)
THEOREM StreamInOrder == Spec => []InOrderIfWhole
<1>1. Init => Typed /\ Inv /\ Framed /\ Ordered
  BY InitTyped, InitInv, InitOrdered
<1>2. Typed /\ Inv /\ Framed /\ Ordered /\ [Next]_vars => (Typed /\ Inv /\ Framed /\ Ordered)'
  BY NextTyped, NextInv, NextOrdered
<1> QED
  BY <1>1, <1>2, OrderedIsInOrder, PTL DEF Spec

-----------------------------------------------------------------------------
(* One answer to each request.                                             *)

Phase ==
  IF link = "closed" THEN "closed" ELSE IF ~whole THEN "lost"
  ELSE IF ctl.answered < ctl.asked THEN "asked" ELSE "idle"

\* A connection that is closed has nothing of the next one.
ClosedIsNew == link = "closed" => whole /\ ctl.asked = 0 /\ ctl.answered = 0

LEMMA NextClosed ==
  ASSUME Typed, ClosedIsNew, [Next]_vars
  PROVE  ClosedIsNew'
<1>1. CASE UNCHANGED vars
  BY <1>1 DEF vars, ClosedIsNew
<1>2. CASE Ended
  BY <1>2 DEF Ended, NewController, ClosedIsNew
<1>3. ASSUME link' = "open" PROVE ClosedIsNew'
  BY <1>3 DEF ClosedIsNew
<1>4. CASE Connect
  BY <1>3, <1>4 DEF Connect
<1>5. CASE Leave \/ SendEventsFails
  BY <1>2, <1>5 DEF Leave, SendEventsFails, WriteError
<1>6. CASE \E sizes \in Split : Ask(sizes)
  BY <1>3, <1>6 DEF Ask
<1>7. CASE \E pieces \in 1 .. MaxPieces : SendEvents(pieces)
  BY <1>3, <1>7 DEF SendEvents
<1>8. CASE Process
  <2>1. link = "open" /\ (link' = link \/ Ended)
    BY <1>8 DEF Process, ReceivePlain, Receive, ReceiveInvalid, ReceiveTooShort, Reads, Serve,
                WriteError
  <2> QED
    BY <1>2, <1>3, <2>1
<1> QED
  BY <1>1, <1>4, <1>5, <1>6, <1>7, <1>8 DEF Next

\* A read that does not end the connection.
LEMMA ReadInTurn ==
  ASSUME Typed, Inv, NEW k \in 1 .. Len(wire),
         ReceivePlain(k) \/ Receive(k) \/ ReceiveInvalid(k) \/ ReceiveTooShort(k), ~Ended
  PROVE  /\ link = "open" /\ link' = "open" /\ (whole' => whole)
         /\ ctl'.asked = ctl.asked /\ ctl'.answered \in {ctl.answered, ctl.answered + 1}
<1>1. ASSUME NEW x, NEW content, NEW intact, Serve(k, x, content, intact)
      PROVE  /\ link' = link /\ whole' = intact
             /\ ctl'.asked = ctl.asked /\ ctl'.answered \in {ctl.answered, ctl.answered + 1}
  BY <1>1 DEF Serve, WriteError, Opening, Inv, Shapes
<1>2. link = "open"
  BY DEF ReceivePlain, Receive, ReceiveInvalid, ReceiveTooShort, Reads
<1>3. CASE ReceivePlain(k)
  BY <1>1, <1>2, <1>3 DEF ReceivePlain
<1>4. CASE Receive(k)
  <2>1. Serve(k, Opens(Input(k)), Plaintext(Input(k), ctx.writes), whole /\ ReadsWhole(k))
    BY <1>4 DEF Receive
  <2>2. /\ link' = link /\ whole' = (whole /\ ReadsWhole(k))
        /\ ctl'.asked = ctl.asked /\ ctl'.answered \in {ctl.answered, ctl.answered + 1}
    BY <1>1, <2>1
  <2> QED
    BY <1>2, <2>2
<1>5. CASE ReceiveInvalid(k) \/ ReceiveTooShort(k)
  BY <1>2, <1>5 DEF ReceiveInvalid, ReceiveTooShort
<1> QED
  BY <1>3, <1>4, <1>5

LEMMA StepsInTurn ==
  ASSUME Typed, Inv, Framed, Ordered, ClosedIsNew, Next, Ordered'
  PROVE  Requests!Next \/ Phase' = Phase
<1>1. /\ link \in {"open", "closed"} /\ whole \in BOOLEAN
      /\ ctl.asked \in Nat /\ ctl.answered \in Nat
  BY DEF Typed, TypeOK, Inv, Shapes
<1>2. CASE Connect
  <2>1. Phase = "closed" /\ Phase' = "idle"
    BY <1>2 DEF Connect, ClosedIsNew, Phase
  <2> QED
    BY <2>1 DEF Phase, Requests!Next, Requests!Open
<1>3. CASE link = "open" /\ Ended
  <2>1. Phase # "closed" /\ Phase' = "closed"
    BY <1>3 DEF Ended, Phase
  <2> QED
    BY <2>1 DEF Phase, Requests!Next, Requests!Close
<1>4. CASE Leave \/ SendEventsFails
  BY <1>3, <1>4 DEF Leave, SendEventsFails, WriteError
<1>5. ASSUME NEW sizes \in Split, Ask(sizes) PROVE Requests!Next \/ Phase' = Phase
  <2>1. /\ link = "open" /\ link' = "open" /\ whole' = whole /\ ctl.asked = ctl.answered
        /\ ctl'.asked = ctl.asked + 1 /\ ctl'.answered = ctl.answered
    BY <1>5 DEF Ask, Inv, Shapes
  <2>2. CASE ~whole
    BY <2>1, <2>2 DEF Phase
  <2>3. CASE whole
    <3>1. Phase = "idle" /\ Phase' = "asked"
      BY <1>1, <2>1, <2>3 DEF Phase
    <3> QED
      BY <3>1 DEF Phase, Requests!Next, Requests!Ask
  <2> QED
    BY <2>2, <2>3
<1>6. ASSUME NEW pieces \in 1 .. MaxPieces, SendEvents(pieces)
      PROVE  Phase' = Phase
  <2>1. /\ link' = link /\ whole' = whole
        /\ ctl'.asked = ctl.asked /\ ctl'.answered = ctl.answered
    BY <1>6 DEF SendEvents, Opening, Inv, Shapes
  <2> QED
    BY <2>1 DEF Phase
<1>7. ASSUME NEW k \in 1 .. Len(wire), ~Ended,
             ReceivePlain(k) \/ Receive(k) \/ ReceiveInvalid(k) \/ ReceiveTooShort(k)
      PROVE  Requests!Next \/ Phase' = Phase
  <2>1. /\ link = "open" /\ link' = "open" /\ (whole' => whole)
        /\ ctl'.asked = ctl.asked /\ ctl'.answered \in {ctl.answered, ctl.answered + 1}
    BY <1>7, ReadInTurn
  <2>2. CASE ~whole'
    <3>1. Phase' = "lost" /\ Phase # "closed"
      BY <2>1, <2>2 DEF Phase
    <3>2. Phase \in {"idle", "asked", "lost"}
      BY <2>1 DEF Phase
    <3> QED
      BY <3>1, <3>2 DEF Phase, Requests!Next, Requests!Lose
  <2>3. CASE whole'
    <3>1. ctl.asked = ctl.answered + 1
      <4>1. ctl.asked # ctl.answered
        <5> SUFFICES ASSUME ctl.asked = ctl.answered PROVE FALSE
          OBVIOUS
        <5>1. ctx.got = ctl.stream
          BY <2>1, <2>3 DEF Ordered, Turns
        <5>2. Len(wire) # 0
          BY <1>7
        <5> QED
          BY <2>1, <2>3, <5>1, <5>2, NothingLeft
      <4> QED
        BY <1>1, <2>1, <2>3, <4>1 DEF Ordered, Turns
    <3>2. Phase = "asked"
      BY <1>1, <2>1, <2>3, <3>1 DEF Phase
    <3>3. CASE ctl'.answered = ctl.answered
      BY <2>1, <2>3, <3>3 DEF Phase
    <3>4. CASE ctl'.answered = ctl.answered + 1
      <4>1. Phase' = "idle"
        BY <1>1, <2>1, <2>3, <3>1, <3>4 DEF Phase
      <4> QED
        BY <3>2, <4>1 DEF Phase, Requests!Next, Requests!Answer
    <3> QED
      BY <2>1, <3>3, <3>4
  <2> QED
    BY <2>2, <2>3
<1>8. CASE Process
  <2>1. Process => link = "open"
    BY DEF Process, ReceivePlain, Receive, ReceiveInvalid, ReceiveTooShort, Reads
  <2>2. CASE Ended
    BY <1>3, <1>8, <2>1, <2>2
  <2>3. CASE ~Ended
    BY <1>7, <1>8, <2>3 DEF Process
  <2> QED
    BY <2>2, <2>3
<1> QED
  BY <1>2, <1>4, <1>5, <1>6, <1>8 DEF Next

(* Whatever the reads and the requests are: a request is answered once and *)
(* before the next one is sent, unless a read has split or joined frames   *)
(* or one of the two sides has closed the connection.  What the connection *)
(* promises (RequestChannel), but for that it does so in the end.          *)
THEOREM RequestsAnsweredInTurn == Spec => Requests!InTurn
<1>1. Init => Requests!Init
  BY DEF Init, Requests!Init
<1>2. Init => Typed /\ Inv /\ Framed /\ Ordered /\ ClosedIsNew
  BY InitTyped, InitInv, InitOrdered DEF Init, NewController, ClosedIsNew
<1>3. Typed /\ Inv /\ Framed /\ Ordered /\ ClosedIsNew /\ [Next]_vars
        => (Typed /\ Inv /\ Framed /\ Ordered /\ ClosedIsNew)'
  BY NextTyped, NextInv, NextOrdered, NextClosed
<1>4. Typed /\ Inv /\ Framed /\ Ordered /\ ClosedIsNew /\ [Next]_vars
        => [Requests!Next]_Phase
  <2> SUFFICES ASSUME Typed, Inv, Framed, Ordered, ClosedIsNew, [Next]_vars
               PROVE  [Requests!Next]_Phase
    OBVIOUS
  <2>1. CASE UNCHANGED vars
    BY <2>1 DEF vars, Phase
  <2>2. CASE Next
    <3>1. Ordered'
      BY NextOrdered
    <3> QED
      BY <2>2, <3>1, StepsInTurn
  <2> QED
    BY <2>1, <2>2
<1>5. [Requests!Next]_Phase
        => [Requests!Next]_(IF link = "closed" THEN "closed" ELSE IF ~whole THEN "lost"
                            ELSE IF ctl.answered < ctl.asked THEN "asked" ELSE "idle")
  BY DEF Phase
<1> QED
  BY <1>1, <1>2, <1>3, <1>4, <1>5, PTL DEF Spec, Requests!InTurn
=============================================================================
