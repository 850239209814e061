----------------------------- MODULE JsonAnswers -----------------------------
(***************************************************************************)
(* The JSON bodies of arduino_homekit_server.cpp, each as the calls that   *)
(* its handler makes of a JSON stream.  The chunks of the stream go to     *)
(* client_send_chunk, and an empty chunk ends the body.                    *)
(*                                                                         *)
(* A characteristic stands for what its JSON depends on: its ids, its      *)
(* permissions, the members that describe it, its valid values and ranges  *)
(* and the tokens of its value, none when the value has another format     *)
(* than the characteristic.                                                *)
(***************************************************************************)
EXTENDS JsonStream, FiniteSets, TLC

CONSTANT Decimal(_)    \* the decimal digits of a number

Success                  == 0
ReadOnly                 == -70404
WriteOnly                == -70405
NotificationsUnsupported == -70406
NoResource               == -70409
InvalidValue             == -70410

\* json_uint8 of a status.  A slip prints the status as it is, in the four
\* bytes that json_uint8 has for it.
StatusCut(status) == IF status < 0 THEN "-70" ELSE Decimal(status)
Status(status)    == Decimal(status % 256)

\* json_integer has seven bytes for the number, one for the null.
Integer(n) ==
  LET digits == Decimal(n)
  IN  IF Len(digits) <= 6 THEN digits ELSE SubSeq(digits, 1, 6)

Member(key, t)       == <<String(key), Value(t)>>
StringMember(key, t) == <<String(key), String(t)>>
List(key, items)     == <<String(key), ArrayStart>> \o FlattenSeq(items) \o <<ArrayEnd>>
When(condition, calls) == IF condition THEN calls ELSE <<>>

Values(tokens) == [i \in DOMAIN tokens |-> <<Value(tokens[i])>>]

PermissionNames == <<"pr", "pw", "ev", "aa", "tw", "hd">>

\* write_characteristic_json for a client that is subscribed or not; with
\* "values" the tokens of ch->value, or of the value it is called with.
Characteristic(ch, format, subscribed, values) ==
  Member("aid", ch.aid) \o Member("iid", ch.iid)
  \o When("type" \in format, StringMember("type", ch.type))
  \o When("perms" \in format,
          List("perms", [i \in DOMAIN PermissionNames |->
                           When(PermissionNames[i] \in ch.perms,
                                <<String(PermissionNames[i])>>)]))
  \o When("ev" \in format /\ "ev" \in ch.perms,
          Member("ev", IF subscribed THEN "true" ELSE "false"))
  \o When("meta" \in format,
          FlattenSeq([i \in DOMAIN ch.meta |-> Member(ch.meta[i][1], ch.meta[i][2])])
          \o When(ch.valid_values # <<>>,
                  List("valid-values", Values([i \in DOMAIN ch.valid_values |->
                                                 Decimal(ch.valid_values[i])])))
          \o When(ch.valid_ranges # <<>>,
                  List("valid-values-range",
                       [i \in DOMAIN ch.valid_ranges |->
                          LET r == ch.valid_ranges[i]
                          IN  <<ArrayStart, Value(Integer(r[1])), Value(Integer(r[2])),
                                ArrayEnd>>])))
  \o When("pr" \in ch.perms /\ values # <<>>,
          <<String("value")>> \o FlattenSeq(Values(values)))

Object(members) == <<ObjectStart>> \o members \o <<ObjectEnd>>
Document(key, items) == Object(List(key, items))

\* An element with a status only: write_characteristic_error, and the
\* answer to a write.
Error(id, status) ==
  Object(Member("aid", id[1]) \o Member("iid", id[2]) \o Member("status", Status(status)))

-----------------------------------------------------------------------------

Answer(header, calls) == [header |-> header, body |-> Stream(calls)]

\* send_json_error_response, whose text {"status": ...} is left out, and
\* send_204_response: no chunks.
Bare(header) == [header |-> header, body |-> NewStream]

\* homekit_server_on_get_characteristics: db maps <<aid, iid>> to a
\* characteristic; "id=" lists the ids, <<>> being one without a dot.
Readable(db, id) == id \in DOMAIN db /\ "pr" \in db[id].perms

\* A slip: each element decides for itself whether it has a status.
ElementByItself(db, subscriptions, format, success, id) ==
  IF Readable(db, id)
  THEN Object(Characteristic(db[id], format, id \in subscriptions, db[id].values))
  ELSE Error(id, IF id \in DOMAIN db THEN WriteOnly ELSE NoResource)

Element(db, subscriptions, format, success, id) ==
  IF Readable(db, id)
  THEN Object(Characteristic(db[id], format, id \in subscriptions, db[id].values)
              \o When(~success, Member("status", Status(Success))))
  ELSE Error(id, IF id \in DOMAIN db THEN WriteOnly ELSE NoResource)

GetCharacteristics(db, subscriptions, format, ids) ==
  LET success == \A i \in DOMAIN ids : Readable(db, ids[i])
  IN  IF ids = <<>> \/ <<>> \in ToSet(ids) THEN Bare("400")
      ELSE Answer(IF success THEN "200" ELSE "207",
                  Document("characteristics",
                           [i \in DOMAIN ids |->
                              Element(db, subscriptions, format, success, ids[i])]))

\* The end of homekit_server_on_update_characteristics.
UpdateCharacteristics(ids, statuses) ==
  IF \A i \in DOMAIN ids : statuses[i] = Success THEN Bare("204")
  ELSE Answer("207", Document("characteristics",
                              [i \in DOMAIN ids |-> Error(ids[i], statuses[i])]))

\* send_client_events: an event is an id and the tokens of its value.
ClientEvents(db, events) ==
  Answer("EVENT", Document("characteristics",
    [i \in DOMAIN events |->
       Object(Characteristic(db[events[i].id], {}, FALSE, events[i].values))]))

\* homekit_server_on_get_accessories.  A service is its iid, the iids of the
\* services linked to it (<<>> for a null pointer) and its characteristics.
Service(db, subscriptions, s) ==
  Object(Member("iid", s.iid) \o StringMember("type", "t")
         \o Member("hidden", "false") \o Member("primary", "true")
         \o When(s.linked # <<>>, List("linked", Values(s.linked)))
         \o List("characteristics",
                 [i \in DOMAIN s.ids |->
                    Object(Characteristic(db[s.ids[i]], {"type", "meta", "perms", "ev"},
                                          s.ids[i] \in subscriptions,
                                          db[s.ids[i]].values))]))

GetAccessories(db, subscriptions, accessories) ==
  Answer("200", Document("accessories",
    [i \in DOMAIN accessories |->
       LET a == accessories[i]
       IN  Object(Member("aid", a.aid)
                  \o List("services", [j \in DOMAIN a.services |->
                                         Service(db, subscriptions, a.services[j])]))]))
=============================================================================
