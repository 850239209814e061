--------------------------------- MODULE Tlv ---------------------------------
(***************************************************************************)
(* tlv.c: a list of items to bytes and back.  An item longer than a chunk  *)
(* is written as several, and read back as one.                            *)
(***************************************************************************)
EXTENDS Integers, Sequences, SequencesExt

CONSTANT MaxSize     \* bytes in a chunk, at most (255 in the code)

ASSUME MaxSizeAssumption == MaxSize \in Nat \ {0}

\* tlv_t: a type and the bytes of the value.
Tlv(type, value) == [type |-> type, value |-> value]

Chunks(size) == (size + MaxSize - 1) \div MaxSize

\* The first loop of tlv_format: no bytes for an item of size 0.
RequiredSize(values) ==
  LET after[n \in 0 .. Len(values)] ==
        IF n = 0 THEN 0
        ELSE LET size == Len(values[n].value) IN after[n - 1] + size + 2 * Chunks(size)
  IN  after[Len(values)]

\* A slip: an item of whole chunks gets one more.
ItemEnded(t) ==
  LET written[n \in 0 .. Len(t.value)] ==
        LET left == Len(t.value) - n
            size == IF left > MaxSize THEN MaxSize ELSE left
        IN  <<t.type, size>> \o SubSeq(t.value, n + 1, n + size)
            \o IF size < MaxSize THEN <<>> ELSE written[n + size]
  IN  written[0]

\* The second loop, for one item.  written[n]: what follows n bytes of it.
Item(t) ==
  LET written[n \in 0 .. Len(t.value)] ==
        LET left == Len(t.value) - n
            size == IF left > MaxSize THEN MaxSize ELSE left
        IN  IF left = 0 THEN <<>>
            ELSE <<t.type, size>> \o SubSeq(t.value, n + 1, n + size) \o written[n + size]
  IN  IF t.value = <<>> THEN <<t.type, 0>> ELSE written[0]

Format(values) == FlattenSeq([i \in DOMAIN values |-> Item(values[i])])

\* The bytes of the buffer that the caller takes: as many as were required.
Payload(values) == SubSeq(Format(values), 1, RequiredSize(values))

\* An item of type "type" goes on after "data": the chunk was full, and the next
\* item is of that type.
GoesOn(type, data, rest) == Len(data) = MaxSize /\ rest # <<>> /\ rest[1].type = type

\* tlv_parse: chunks of one type are an item, up to one that is not full.  It is
\* called on what Item writes for items of some size.
Parse(buffer) ==
  LET from[i \in Nat] ==
        LET next == i + 2 + buffer[i + 1]
            data == SubSeq(buffer, i + 2, next - 1)
            rest == from[next]
        IN  IF i >= Len(buffer) THEN <<>>
            ELSE IF GoesOn(buffer[i], data, rest)
            THEN <<Tlv(buffer[i], data \o rest[1].value)>> \o Tail(rest)
            ELSE <<Tlv(buffer[i], data)>> \o rest
  IN  from[1]

-----------------------------------------------------------------------------
(* The answer to ListPairings: the items of homekit_server_on_pairings,    *)
(* whose payload send_tlv_response sends.                                  *)

PairingItems(pairings) ==
  <<Tlv("State", <<2>>)>>
  \o FlattenSeq([i \in DOMAIN pairings |->
       (IF i = 1 THEN <<>> ELSE <<Tlv("Separator", <<>>)>>)
       \o << Tlv("Identifier", pairings[i].id), Tlv("PublicKey", pairings[i].key),
             Tlv("Permissions", <<pairings[i].permissions>>) >>])
=============================================================================
