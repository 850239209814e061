---------------------------- MODULE SecureChannel ----------------------------
(***************************************************************************)
(* One connection as a channel for HTTP messages: homekit_client_process,  *)
(* client_decrypt_, client_send_encrypted_ and the callers of client_send  *)
(* (arduino_homekit_server.cpp), between a TCP stream, which hands out its *)
(* bytes in reads of any size, and the HTTP parser.                        *)
(*                                                                         *)
(* The first request of a connection stands for pair verify: it is plain,  *)
(* and with its answer the session becomes encrypted.  The controller is   *)
(* the environment: it waits for an answer before it asks again, and       *)
(* splits each request into frames as it likes.                            *)
(***************************************************************************)
EXTENDS Integers, FiniteSets, SequencesExt

CONSTANTS
  MaxChunk,     \* plaintext of a frame, at most (1024 in the code)
  Overhead,     \* length and tag of a frame (2 + 16)
  Split,        \* ways to cut a request: the sizes of its frames
  MaxFrames,    \* frames a controller sends in a session
  MaxPieces,    \* calls of client_send for one answer
  MaxSealed     \* frames the server sends in a session

ASSUME FrameAssumption == MaxChunk \in Nat \ {0} /\ Overhead \in Nat \ {0}
ASSUME SplitAssumption == Split \subseteq Seq(1 .. MaxChunk) \ {<<>>}
ASSUME BoundsAssumption ==
  MaxFrames \in Nat /\ MaxPieces \in Nat \ {0} /\ MaxSealed \in Nat

VARIABLES
  link,     \* "open" while the client is in server->clients
  ctl,      \* the controller's side of the session
  wire,     \* bytes the socket has received and the server has not read
  ctx,      \* the client context
  whole     \* history: every read of the session took exactly one frame

vars == <<link, ctl, wire, ctx, whole>>

(* A byte on the wire is <<n, i>>: byte i of frame n, 0 being where the    *)
(* length is, or <<Plain, p>>: byte p of the requests, unencrypted.  The   *)
(* requests of a session are one stream of bytes, counted from 1; frame n  *)
(* holds "size" of them, the first after byte "from".                      *)
Plain == -1
Byte  == (-1 .. MaxFrames) \X Nat
Frame == [from : Nat, size : 1 .. MaxChunk]

Controller == [frames : Seq(Frame), stream : Nat, asked : Nat, answered : Nat,
               seen : Nat]      \* frames of the server it has decrypted

(* got: bytes of the stream the parser has taken in order, done of them in *)
(* complete requests.  A broken parser is in its error state, or takes     *)
(* for a request what was never sent.                                      *)
Context == [encrypted : BOOLEAN, data : Seq(Byte), writes : Nat, reads : Nat,
            parser : {"ok", "broken"}, got : Nat, done : Nat]

NewController == [frames |-> <<>>, stream |-> 0, asked |-> 0, answered |-> 0,
                  seen |-> 0]
NewContext == [encrypted |-> FALSE, data |-> <<>>, writes |-> 0, reads |-> 0,
               parser |-> "ok", got |-> 0, done |-> 0]

DataSize == MaxChunk + Overhead

TypeOK ==
  /\ link \in {"open", "closed"}
  /\ ctl \in Controller
  /\ ctx \in Context /\ Len(ctx.data) <= DataSize
  /\ wire \in Seq(Byte)
  /\ whole \in BOOLEAN

Ended ==
  /\ link' = "closed" /\ ctl' = NewController /\ wire' = <<>>
  /\ ctx' = NewContext /\ whole' = TRUE

Init ==
  /\ link = "closed" /\ ctl = NewController /\ wire = <<>>
  /\ ctx = NewContext /\ whole = TRUE

-----------------------------------------------------------------------------
(* The controller.                                                         *)

\* Accepted, by homekit_server_accept_client.
Connect ==
  /\ link = "closed"
  /\ link' = "open"
  /\ UNCHANGED <<ctl, wire, ctx, whole>>

Leave == link = "open" /\ Ended

Secure == ctl.answered > 0

\* The bytes of a request in its first k frames, and in all of them.
Bytes(sizes) ==
  LET sum[k \in 0 .. Len(sizes)] == IF k = 0 THEN 0 ELSE sum[k - 1] + sizes[k]
  IN  sum
Total(sizes) == Bytes(sizes)[Len(sizes)]

Cut(sizes) ==
  [k \in DOMAIN sizes |-> [from |-> ctl.stream + Bytes(sizes)[k - 1],
                           size |-> sizes[k]]]

Sealed(frames, n) == [i \in 1 .. frames[n + 1].size + Overhead |-> <<n, i - 1>>]

\* The last k of the frames numbered below n, one behind the other.
Tails(frames, n) ==
  LET tail[k \in 0 .. n] == IF k = 0 THEN <<>> ELSE Sealed(frames, n - k) \o tail[k - 1]
  IN  tail

Ask(sizes) ==
  /\ link = "open" /\ ctl.asked = ctl.answered
  /\ Len(ctl.frames) + Len(sizes) <= MaxFrames
  /\ ctx.reads + MaxPieces <= MaxSealed
  /\ IF Secure
     THEN LET frames == ctl.frames \o Cut(sizes)
          IN  /\ ctl' = [ctl EXCEPT !.asked = @ + 1, !.stream = @ + Total(sizes),
                                    !.frames = frames]
              /\ wire' = wire \o Tails(frames, Len(frames))[Len(sizes)]
     ELSE /\ ctl' = [ctl EXCEPT !.asked = @ + 1, !.stream = @ + Total(sizes)]
          /\ wire' = [p \in 1 .. Total(sizes) |-> <<Plain, p>>]
  /\ UNCHANGED <<link, ctx, whole>>

-----------------------------------------------------------------------------
(* Sending.  An answer is "pieces" calls of client_send: headers, chunks,  *)
(* the last chunk; a piece is at most 520 bytes and fits in a frame.       *)

\* Frames counted by the server as it seals them (count_reads), and by the
\* controller as it opens them.
Sealing(x, pieces) == [x EXCEPT !.reads = IF x.encrypted THEN @ + pieces ELSE @]
Opening(c, pieces) == [c EXCEPT !.seen = IF Secure THEN @ + pieces ELSE @]

\* send_client_events.
SendEvents(pieces) ==
  /\ link = "open" /\ ctx.encrypted /\ ctx.reads + pieces + MaxPieces <= MaxSealed
  /\ ctx' = Sealing(ctx, pieces) /\ ctl' = Opening(ctl, pieces)
  /\ UNCHANGED <<link, wire, whole>>

\* A slip: the client stays open, all further writes being dropped.
WriteErrorKept == UNCHANGED <<link, ctl, ctx, whole>> /\ wire' = <<>>

\* write() fails at any piece: it closes the client under its caller.
WriteError == Ended

SendEventsFails == link = "open" /\ ctx.encrypted /\ WriteError

-----------------------------------------------------------------------------
(* client_decrypt_ on buf, the first data_len bytes of the buffer.         *)

\* The m frames from number n on: none, when the counter has overtaken them.
Run(n, m) == IF m = 0 THEN <<>> ELSE Tails(ctl.frames, n + m)[m]

\* How many of the frames from number n on lie complete at the start of buf.
Opened(buf, n) ==
  LET Fits(m) == m = 0 \/ (n + m <= Len(ctl.frames) /\ IsPrefix(Run(n, m), buf))
  IN  CHOOSE m \in 0 .. Len(ctl.frames) :
        Fits(m) /\ \A j \in 0 .. Len(ctl.frames) : Fits(j) => j <= m

After(buf, n) == SubSeq(buf, Len(Run(n, Opened(buf, n))) + 1, Len(buf))

\* The length of what follows them; bytes that are no length say anything.
Lengths(rest) ==
  IF rest = <<>> THEN {0}
  ELSE IF rest[1][2] = 0 THEN {ctl.frames[rest[1][1] + 1].size} ELSE {0, Len(rest)}
Unfinished(rest)    == \E n \in Lengths(rest) : n + Overhead > Len(rest)
Undecryptable(rest) == \E n \in Lengths(rest) : n + Overhead <= Len(rest)

\* The plaintext handed on, as stream positions (0: not of the stream).  Its
\* length comes from the number of bytes read, and every frame is decrypted
\* to its start: only of a single frame is there anything in order.
Plaintext(buf, n) ==
  [i \in 1 .. Len(buf) - Overhead |->
     IF Opened(buf, n) = 1 /\ i <= ctl.frames[n + 1].size
       THEN ctl.frames[n + 1].from + i ELSE 0]

-----------------------------------------------------------------------------
(* http_parser_execute and on_message_complete.                            *)

InOrder(x, content) ==
  Cardinality({m \in DOMAIN content : \A i \in 1 .. m : content[i] = x.got + i})

\* No bytes at all mean the end of the input, an error within a message.
Parsed(x, content) ==
  LET n == InOrder(x, content)
      good == IF content = <<>> THEN x.got = x.done ELSE n = Len(content)
  IN  IF x.parser = "broken" THEN x
      ELSE [x EXCEPT !.got = @ + n, !.parser = IF good THEN @ ELSE "broken"]

\* A request is complete; pair verify's handler answers, then sets
\* "encrypted".  The slip has it the other way round.
AnsweredSealed(x, pieces) ==
  Sealing([x EXCEPT !.done = x.got, !.encrypted = TRUE], pieces)
Answered(x, pieces) ==
  [Sealing([x EXCEPT !.done = x.got], pieces) EXCEPT !.encrypted = TRUE]

\* k bytes are read, the context becomes x, the parser gets content.  A
\* broken parser may run a handler on what was never sent.
Serve(k, x, content, intact) ==
  LET y == Parsed(x, content)
      complete == y.got = ctl.stream /\ y.got > y.done
      stray == x.parser = "broken" /\ content # <<>> /\ ctl.answered < ctl.asked
      Read == /\ wire' = SubSeq(wire, k + 1, Len(wire))
              /\ whole' = intact
              /\ UNCHANGED link
  IN  \/ ~complete /\ Read /\ ctx' = y /\ UNCHANGED ctl
      \/ /\ complete \/ stray
         /\ Read
         /\ \E pieces \in 1 .. MaxPieces :
              /\ ctx' = IF complete THEN Answered(y, pieces) ELSE Sealing(y, pieces)
              /\ ctl' = [Opening(ctl, pieces) EXCEPT !.answered = @ + 1]
      \/ (complete \/ stray) /\ WriteError

-----------------------------------------------------------------------------
(* homekit_client_process.                                                 *)

\* A slip: the bytes kept from the last read are not counted.
RoomUnlimited == Len(wire)
Room == DataSize - Len(ctx.data)

\* What is decrypted: as many bytes as were read, from the buffer's start.
Input(k) == SubSeq(ctx.data \o SubSeq(wire, 1, k), 1, k)

Reads(k) == link = "open" /\ k <= Room

ReadsWhole(k) ==
  ctx.data = <<>> /\ \E n \in 0 .. Len(ctl.frames) - 1 : Input(k) = Sealed(ctl.frames, n)

ReceivePlain(k) ==
  /\ Reads(k) /\ ~ctx.encrypted
  /\ Serve(k, ctx, [i \in 1 .. k |-> wire[i][2]], whole)

\* A slip: the frames decrypted are not counted.
OpensUncounted(buf) == [ctx EXCEPT !.data = After(buf, ctx.writes)]
Opens(buf) == [ctx EXCEPT !.data = After(buf, ctx.writes),
                          !.writes = @ + Opened(buf, ctx.writes)]

\* The loop ends at an unfinished frame, or at the end.
Receive(k) ==
  /\ Reads(k) /\ ctx.encrypted
  /\ k >= Overhead \/ ctx.parser = "broken"
  /\ Unfinished(After(Input(k), ctx.writes))
  /\ Serve(k, Opens(Input(k)), Plaintext(Input(k), ctx.writes), whole /\ ReadsWhole(k))

\* "Invalid client data": the frames before it are lost too, the counter
\* stays where it got to, and the bytes read are forgotten.  Of a read of
\* Overhead bytes, which has no plaintext, the call that asks for the size
\* of the plaintext decrypts and counts too.
ReceiveInvalid(k) ==
  /\ Reads(k) /\ ctx.encrypted
  /\ Undecryptable(After(Input(k), ctx.writes))
  /\ wire' = SubSeq(wire, k + 1, Len(wire))
  /\ ctx' = [ctx EXCEPT !.writes = @ + Opened(Input(k), ctx.writes)
                                    + IF k = Overhead THEN 2 ELSE 1]
  /\ whole' = FALSE
  /\ UNCHANGED <<link, ctl>>

\* The size of the plaintext is negative, and becomes a huge one: the parser
\* is given no memory, or a little, and all that lies behind it.
ReceiveTooShort(k) ==
  /\ Reads(k) /\ ctx.encrypted /\ k < Overhead /\ ctx.parser = "ok"
  /\ \/ /\ wire' = SubSeq(wire, k + 1, Len(wire))
        /\ ctx' = [ctx EXCEPT !.data = Input(k), !.parser = "broken"]
        /\ whole' = FALSE
        /\ UNCHANGED <<link, ctl>>
     \/ Ended

Process ==
  \E k \in 1 .. Len(wire) :
    ReceivePlain(k) \/ Receive(k) \/ ReceiveInvalid(k) \/ ReceiveTooShort(k)

Next ==
  \/ Connect \/ Leave
  \/ \E sizes \in Split : Ask(sizes)
  \/ \E pieces \in 1 .. MaxPieces : SendEvents(pieces)
  \/ SendEventsFails
  \/ Process

(* arduino_homekit_loop processes every client in each of its calls.       *)
Spec == Init /\ [][Next]_vars /\ WF_vars(Process)

-----------------------------------------------------------------------------
(* Properties.                                                             *)

(* Both ends number the server's frames alike, over answers and EVENTs and *)
(* over the change from plain to encrypted in the middle of pair verify:   *)
(* the controller can open every frame it gets.                            *)
CountersAgree == ctx.reads = ctl.seen

(* As long as every read took one frame, or the session is still plain and *)
(* the reads are of any size, the parser gets the stream in order, nothing *)
(* is kept in the buffer, and every frame taken off the wire is counted.   *)
InOrderIfWhole ==
  whole => /\ ctx.parser = "ok" /\ ctx.data = <<>>
           /\ wire = IF ctx.encrypted THEN Run(ctx.writes, Len(ctl.frames) - ctx.writes)
                     ELSE [p \in 1 .. ctl.stream - ctx.got |-> <<Plain, ctx.got + p>>]
           /\ ctx.encrypted => ctx.got = IF ctx.writes = Len(ctl.frames) THEN ctl.stream
                                         ELSE ctl.frames[ctx.writes + 1].from

(* Each request is answered once, or the connection ends, or a read has    *)
(* split or joined frames; what the controller does cannot stop it.        *)
Requests ==
  INSTANCE RequestChannel WITH phase <-
    IF link = "closed" THEN "closed" ELSE IF ~whole THEN "lost"
    ELSE IF ctl.answered < ctl.asked THEN "asked" ELSE "idle"
AnswersRequests == Requests!Spec

(* "Unfinished chunk" (the comment in client_decrypt_, which keeps such a  *)
(* chunk for the next read): a request that has been received whole has    *)
(* reached the parser, however the reads have split it.                    *)
ReceivedIsParsed ==
  link = "open" /\ wire = <<>> => ctx.got = ctl.stream
=============================================================================
