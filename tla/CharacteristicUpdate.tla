------------------------- MODULE CharacteristicUpdate -------------------------
(***************************************************************************)
(* process_characteristics_update (arduino_homekit_server.cpp): one        *)
(* element of a PUT, with the checks that the value written must pass.     *)
(* The characteristics have no setters; what a change tells other clients  *)
(* is the subject of Notifications, as is the unset is_null bit.           *)
(*                                                                         *)
(* A double is counted in halves.  uint32 and uint64 differ from uint16 in *)
(* their limits only.  Strings, TLVs and data stand for their lengths.     *)
(***************************************************************************)
EXTENDS JsonAnswers

CONSTANT MaxInt     \* INT_MAX

ASSUME MaxIntAssumption == MaxInt \in Nat

(* A JSON value: type and double (valuedouble; cJSON leaves it 0 for what  *)
(* is no number), length of a string, and whether it is Base64.            *)
Truncated(halves) == IF halves >= 0 THEN halves \div 2 ELSE -((-halves) \div 2)
ValueInt(v) == IF v.type = "true" THEN 1 ELSE Truncated(v.double)
JsonValue == [type : STRING, double : Int, length : Nat, base64 : BOOLEAN]

\* What a characteristic can hold; limits are <<>> when not set.
Formats == {"bool", "uint8", "uint16", "int", "float", "string", "tlv", "data"}
IsCharacteristic(ch) ==
  /\ ch.format \in Formats
  /\ {ch.min, ch.max, ch.max_len, ch.valid_values} \subseteq Seq(Int)
  /\ ch.valid_ranges \in Seq(Int \X Int)

Or(limit, default) == IF limit = <<>> THEN default ELSE limit[1]

MinValue(ch) == Or(ch.min, IF ch.format = "int" THEN -MaxInt - 1 ELSE 0)
MaxValue(ch) == Or(ch.max, [uint8 |-> 255, uint16 |-> 65535, int |-> MaxInt][ch.format])
MaxLen(ch) == Or(ch.max_len, [string |-> 64, tlv |-> 256, data |-> 4096][ch.format])

Between(double, low, high) == 2 * low <= double /\ double <= 2 * high

\* A slip: a value below the least one is accepted.
InRangeAbove(ch, double) == double <= 2 * MaxValue(ch)
InRange(ch, double) == Between(double, MinValue(ch), MaxValue(ch))

\* The value written, <<>> when it is refused.
Bool(ch, v) ==
  IF v.type \in {"true", "false"} \/ (v.type = "number" /\ ValueInt(v) \in {0, 1})
  THEN <<IF v.type = "false" THEN 0 ELSE ValueInt(v)>> ELSE <<>>

Number(ch, v) ==
  IF /\ v.type \in {"number", "true", "false"}
     /\ InRange(ch, v.double)
     /\ ch.valid_values # <<>> => Truncated(v.double) \in ToSet(ch.valid_values)
     /\ ch.valid_ranges # <<>> =>
          \E r \in ToSet(ch.valid_ranges) : Between(v.double, r[1], r[2])
  THEN <<Truncated(v.double)>> ELSE <<>>

Float(ch, v) ==
  IF /\ v.type = "number"
     /\ ch.min # <<>> => 2 * ch.min[1] <= v.double
     /\ ch.max # <<>> => v.double <= 2 * ch.max[1]
  THEN <<v.double>> ELSE <<>>

\* Strings; TLVs and data, which are decoded.
Text(ch, v) ==
  IF /\ v.type = "string" /\ v.length <= MaxLen(ch)
     /\ ch.format \in {"tlv", "data"} => v.base64
  THEN <<v.length>> ELSE <<>>

Converted(ch, v) ==
  CASE ch.format = "bool"  -> Bool(ch, v)
    [] ch.format \in {"uint8", "uint16", "int"} -> Number(ch, v)
    [] ch.format = "float" -> Float(ch, v)
    [] OTHER -> Text(ch, v)

-----------------------------------------------------------------------------
(* The element: its id, its "value" and its "ev", <<>> for none; "ev" is a *)
(* JSON type.  The state: the values by id, the client's subscriptions.    *)

ValueStatus(db, e) ==
  IF e.value = <<>> THEN Success
  ELSE IF "pw" \notin db[e.id].perms THEN ReadOnly
  ELSE IF Converted(db[e.id], e.value[1]) = <<>> THEN InvalidValue ELSE Success

\* The test of the permissions is a logical and: any of them passes.
EventsStatus(db, e) ==
  IF e.ev # <<>> /\ db[e.id].perms = {} THEN NotificationsUnsupported ELSE Success

UpdateStatus(db, e) ==
  IF e.id \notin DOMAIN db THEN NoResource
  ELSE IF ValueStatus(db, e) # Success THEN ValueStatus(db, e)
  ELSE EventsStatus(db, e)

AfterValue(db, s, e) ==
  IF e.value = <<>> THEN s
  ELSE [s EXCEPT !.stored[e.id] = Converted(db[e.id], e.value[1])[1]]

\* "ev" of any type but true unsubscribes.
AfterEvents(db, s, e) ==
  IF e.ev = <<>> \/ EventsStatus(db, e) # Success THEN s
  ELSE IF e.ev[1] = "true" THEN [s EXCEPT !.subscribed = @ \cup {e.id}]
  ELSE [s EXCEPT !.subscribed = @ \ {e.id}]

Updated(db, s, e) ==
  IF e.id \notin DOMAIN db \/ ValueStatus(db, e) # Success THEN s
  ELSE AfterEvents(db, AfterValue(db, s, e), e)
=============================================================================
