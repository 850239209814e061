----------------------------- MODULE JsonStream -----------------------------
(***************************************************************************)
(* json.c: a JSON text is written by calls, one per bracket and value, to  *)
(* a buffer that is handed to a callback whenever the next token does not  *)
(* fit.  A token stands for the characters of one json_write.              *)
(***************************************************************************)
EXTENDS Integers, Sequences, SequencesExt

CONSTANTS
  Width(_),    \* number of characters of a token, at least 1
  Size         \* size of the buffer (HOMEKIT_JSONBUFFER_SIZE, 512)

ASSUME BufferAssumption == Size \in Nat \ {0, 1}

(* The calls: json_object_start and json_array_start, their ends, the      *)
(* functions that write a number, boolean or null, and json_string.        *)
ObjectStart == <<"start", "{">>
ObjectEnd   == <<"end", "}">>
ArrayStart  == <<"start", "[">>
ArrayEnd    == <<"end", "]">>
Value(t)    == <<"value", t>>
String(t)   == <<"string", t>>

(* chunks: what on_flush was called with.  lost: a token did not fit into  *)
(* the empty buffer ("Write value too large").                             *)
NewStream == [state |-> "start", nesting |-> <<>>, buffer |-> <<>>, pos |-> 0,
              chunks |-> <<>>, lost |-> FALSE]

\* json_flush.
Flushed(json) ==
  IF json.pos = 0 THEN json
  ELSE [json EXCEPT !.chunks = Append(@, json.buffer), !.buffer = <<>>, !.pos = 0]

Put(json, t) == [json EXCEPT !.buffer = Append(@, t), !.pos = @ + Width(t)]
Fits(json, t) == Width(t) + json.pos <= Size - 1

\* A slip: vsnprintf's null byte is forgotten, and the token is cut.
WrittenToTheEnd(json, t) ==
  LET room == IF Width(t) + json.pos > Size THEN Flushed(json) ELSE json
  IN  IF Fits(room, t) THEN Put(room, t) ELSE [room EXCEPT !.pos = @ + Width(t)]

\* json_write; the last byte of the buffer is for vsnprintf's null.
Written(json, t) ==
  LET room == IF Fits(json, t) THEN json ELSE Flushed(json)
  IN  IF Fits(room, t) THEN Put(room, t) ELSE [room EXCEPT !.lost = TRUE]

\* A comma before all but the first item or member.
Separated(json) ==
  IF json.state \in {"array_item", "object_value"} THEN Written(json, ",") ELSE json

Failed(json) == [json EXCEPT !.state = "error"]

Started(json, bracket) ==
  LET nest == IF bracket = "{" THEN "object" ELSE "array"
  IN  IF json.state \in {"start", "object_key", "array", "array_item"}
      THEN [Written(Separated(json), bracket)
              EXCEPT !.state = nest, !.nesting = Append(@, nest)]
      ELSE Failed(json)

\* A slip: back to the state before the first item.
OutsideFirst(nesting) == IF nesting = <<>> THEN "end" ELSE Last(nesting)

\* The state after a value in the nesting around it.
Outside(nesting) ==
  IF nesting = <<>> THEN "end"
  ELSE IF Last(nesting) = "object" THEN "object_value" ELSE "array_item"

Ended(json, bracket) ==
  LET states == IF bracket = "}" THEN {"object", "object_value"}
                                 ELSE {"array", "array_item"}
  IN  IF json.state \in states
      THEN [Written(json, bracket) EXCEPT !.nesting = Front(@),
                                          !.state = Outside(Front(json.nesting))]
      ELSE Failed(json)

AsValue(json, t) ==
  IF json.state \in {"start", "array", "array_item", "object_key"}
  THEN [Written(Separated(json), t) EXCEPT !.state = Outside(json.nesting)]
  ELSE Failed(json)

\* A key of an object, or a value.
AsString(json, t) ==
  IF json.state \in {"object", "object_value"}
  THEN [Written(Written(Separated(json), t), ":") EXCEPT !.state = "object_key"]
  ELSE AsValue(json, t)

Called(json, call) ==
  CASE call[1] = "start"  -> Started(json, call[2])
    [] call[1] = "end"    -> Ended(json, call[2])
    [] call[1] = "value"  -> AsValue(json, call[2])
    [] call[1] = "string" -> AsString(json, call[2])

\* One call after another; in its error state a stream takes no more.
Calling(json, calls) ==
  LET after[n \in 0 .. Len(calls)] ==
        IF n = 0 THEN json
        ELSE LET now == after[n - 1]
             IN  IF now.state = "error" THEN now ELSE Called(now, calls[n])
  IN  after[Len(calls)]

\* What calls and a last json_flush make of a new stream.
Stream(calls) == Flushed(Calling(NewStream, calls))
=============================================================================
