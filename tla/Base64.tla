-------------------------------- MODULE Base64 --------------------------------
(***************************************************************************)
(* base64.c, on the codes of its characters.                               *)
(***************************************************************************)
EXTENDS Integers, Sequences, SequencesExt

Pad == 61       \* '='

\* base64_chars.
EncodeChar(n) ==
  IF n < 26 THEN 65 + n ELSE IF n < 52 THEN 97 + n - 26
  ELSE IF n < 62 THEN 48 + n - 52 ELSE IF n = 62 THEN 43 ELSE 47

\* A slip: the digits are numbered from the small letters' last number.
DecodeCharShifted(c) ==
  IF c \in 65 .. 90 THEN c - 65 ELSE IF c \in 97 .. 122 THEN c - 97 + 26
  ELSE IF c \in 48 .. 57 THEN c - 48 + 51
  ELSE IF c = 43 THEN 62 ELSE IF c = 47 THEN 63 ELSE IF c = Pad THEN 64 ELSE 0

DecodeChar(c) ==
  IF c \in 65 .. 90 THEN c - 65 ELSE IF c \in 97 .. 122 THEN c - 97 + 26
  ELSE IF c \in 48 .. 57 THEN c - 48 + 52
  ELSE IF c = 43 THEN 62 ELSE IF c = 47 THEN 63 ELSE IF c = Pad THEN 64 ELSE 0

EncodedSize(size) == ((size + 2) \div 3) * 4

\* A slip: every "=" in the last block is taken for padding.
DecodedSizeAllPads(text) ==
  ((Len(text) + 3) \div 4) * 3
    - Len(SelectSeq(SubSeq(text, Len(text) - 3, Len(text)), LAMBDA c : c = Pad))

\* Of a text of two characters at least.
DecodedSize(text) ==
  ((Len(text) + 3) \div 4) * 3 - (IF Last(text) = Pad THEN 1 ELSE 0)
    - (IF text[Len(text) - 1] = Pad THEN 1 ELSE 0)

Encode(data) ==
  LET Byte(i) == IF i <= Len(data) THEN data[i] ELSE 0
      Bits(i) == << Byte(i) \div 4, (Byte(i) % 4) * 16 + Byte(i + 1) \div 16,
                    (Byte(i + 1) % 16) * 4 + Byte(i + 2) \div 64, Byte(i + 2) % 64 >>
      Chars(i) == [k \in 1 .. 4 |-> IF i + k - 2 <= Len(data) THEN EncodeChar(Bits(i)[k])
                                    ELSE Pad]
  IN  FlattenSeq([b \in 1 .. (Len(data) + 2) \div 3 |-> Chars(3 * b - 2)])

\* The bytes of a block of four characters; 64 stands for "=".
Block(chars) ==
  LET v == [k \in 1 .. 4 |-> DecodeChar(chars[k])]
      bytes == << (v[1] * 4 + v[2] \div 16) % 256,
                  ((v[2] % 16) * 16 + v[3] \div 4) % 256, ((v[3] % 4) * 64 + v[4]) % 256 >>
  IN  SubSeq(bytes, 1, IF v[3] = 64 THEN 1 ELSE IF v[4] = 64 THEN 2 ELSE 3)

\* Of a text of whole blocks: a block that is not full is the last one.
Decode(text) ==
  LET blocks == Len(text) \div 4
      decoded[n \in 0 .. blocks] ==
        IF n = 0 THEN <<>>
        ELSE LET data == decoded[n - 1]
             IN  IF Len(data) < 3 * (n - 1) THEN data
                 ELSE data \o Block(SubSeq(text, 4 * n - 3, 4 * n))
  IN  decoded[blocks]
=============================================================================
