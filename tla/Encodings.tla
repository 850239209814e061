------------------------------ MODULE Encodings ------------------------------
(***************************************************************************)
(* The conversions of the library over all inputs up to a length: what it  *)
(* is asked to write, parse or number grows by one symbol at each step.    *)
(***************************************************************************)
EXTENDS CharacteristicUpdate, Tlv, QueryParams, Base64, AccessoryIds, Functions

CONSTANTS
  Kinds,      \* what is converted
  Symbols,    \* kind -> the symbols of an input
  Bound,      \* kind -> the length of an input, at most
  Options,    \* kind -> what else an input depends on
  Lexemes(_), \* the tokens that a reader finds in the characters of a token
  MaxDepth,   \* JSON_MAX_DEPTH (30)
  Db,         \* <<aid, iid>> -> characteristic
  Initial     \* the values and subscriptions before an update

(* What can be written are JSON values; the characteristics and their      *)
(* values before are those of the configuration.                           *)
ASSUME WritesAssumption ==
  /\ \A id \in DOMAIN Db : IsCharacteristic(Db[id])
  /\ Initial \in [stored : [DOMAIN Db -> Int], subscribed : SUBSET DOMAIN Db]
  /\ \A e \in Symbols["put"] : e.value \in Seq(JsonValue)

ASSUME SymbolsAssumption ==
  /\ Symbols["bytes"] \subseteq 0 .. 255
  /\ \A x \in Symbols["ids"] : x.id \in Nat
  /\ \A x \in Symbols["tlv"] : x[1] \in Nat /\ x[2] \in Nat \ {0}
  /\ Null \notin Symbols["query"]

VARIABLES kind, option, input

vars == <<kind, option, input>>

Init == kind \in Kinds /\ option \in Options[kind] /\ input = <<>>

(* Calls that have failed go on failing; a configuration begins with an    *)
(* accessory, and its characteristics belong to a service.                 *)
Possible(text) ==
  /\ kind = "calls" => Calling(NewStream, text).state # "error"
  /\ kind = "ids" =>
       /\ text[1].level = "accessory"
       /\ \A i \in 2 .. Len(text) :
            text[i].level = "characteristic" => text[i - 1].level # "accessory"

Grow ==
  \E x \in Symbols[kind] :
    /\ Len(input) < Bound[kind] /\ Possible(Append(input, x))
    /\ input' = Append(input, x)
    /\ UNCHANGED <<kind, option>>

Spec == Init /\ [][Grow]_vars

-----------------------------------------------------------------------------
(* How the other end reads a JSON text: by the grammar.                    *)

Punctuation == {"{", "}", "[", "]", ",", ":", "end"}
Literals == {"0", "true", "false", "null"}
Token(t, i) == IF i \in DOMAIN t THEN t[i] ELSE "end"
Closing(bracket) == IF bracket = "{" THEN "}" ELSE "]"

(* json_string writes the characters of a string as they are ("TODO:       *)
(* escape string"): a reader takes one with a quote for several tokens,    *)
(* and one with a backslash for another string.  The others are plain.     *)
Plain(t) == Lexemes(t) = <<t>>
Lexed(text) == FlattenSeq([i \in DOMAIN text |-> Lexemes(text[i])])

(* Punctuation and values are plain, a value is no punctuation, and a      *)
(* plain string, which has its quotes, none of the other literals.         *)
ASSUME CallsAssumption ==
  /\ \A t \in Punctuation : Plain(t)
  /\ \A c \in Symbols["calls"] :
       \/ c \in {ObjectStart, ObjectEnd, ArrayStart, ArrayEnd}
       \/ c = Value(c[2]) /\ Plain(c[2]) /\ c[2] \notin Punctuation
       \/ c = String(c[2]) /\ (Plain(c[2]) => c[2] \notin Punctuation \cup Literals)

(* The tokens of the answers: the strings that the library or the sketch   *)
(* names something by, and the others.                                     *)
Requested == DOMAIN Db \cup (Symbols["get"] \ {<<>>}) \cup {e.id : e \in Symbols["put"]}
Described == {Db[id] : id \in DOMAIN Db}

OwnNames == {"aid", "iid", "type", "perms", "ev", "valid-values", "valid-values-range",
             "value", "status"}
Names ==
  OwnNames \cup ToSet(PermissionNames)
    \cup {"characteristics", "accessories", "services", "linked", "hidden", "primary", "t"}
    \cup {ch.type : ch \in Described}
    \cup (UNION {{m[1] : m \in ToSet(ch.meta)} : ch \in Described})
Shown(ch) ==
  ToSet(ch.values) \cup {m[2] : m \in ToSet(ch.meta)}
    \cup {Decimal(n) : n \in ToSet(ch.valid_values)}
    \cup {Integer(r[1]) : r \in ToSet(ch.valid_ranges)}
    \cup {Integer(r[2]) : r \in ToSet(ch.valid_ranges)}
Told == UNION {{s.iid} \cup ToSet(s.linked) : s \in Symbols["accessories"]}
Notified == UNION {ToSet(e.values) : e \in Symbols["events"]}
Others ==
  {"true", "false", "1"} \cup {Decimal(n) : n \in 0 .. 255}
    \cup {id[1] : id \in Requested} \cup {id[2] : id \in Requested}
    \cup (UNION {Shown(ch) : ch \in Described}) \cup Notified \cup Told

Tokens ==
  {t \in {c[2] : c \in Symbols["calls"]} : Plain(t)} \cup Punctuation \cup Names \cup Others

(* Every token has a character.  A token of an answer fits the buffer; the *)
(* streams of calls have others, too.                                      *)
ASSUME WidthAssumption ==
  /\ \A t \in Tokens : Width(t) \in Nat \ {0}
  /\ \A t \in Punctuation \cup Names \cup Others : Width(t) <= Size - 1

(* No token is mistaken for another, and no name of a member is used for   *)
(* two of one object.  A value is written by one call.  The strings that   *)
(* the sketch has put in its database need no escaping.                    *)
AtMostOne(s) == s = <<>> \/ s = <<s[1]>>

ASSUME AnswersAssumption ==
  /\ \A t \in Names \cup Others : Plain(t)
  /\ Names \cap (Punctuation \cup Literals) = {} /\ Others \cap Punctuation = {}
  /\ Decimal(0) = "0" /\ \A m, n \in 0 .. 255 : Decimal(m) = Decimal(n) => m = n
  /\ \A id \in Requested : id = <<id[1], id[2]>>
  /\ \A id \in DOMAIN Db :
       LET ch == Db[id]
       IN  /\ id = <<ch.aid, ch.iid>> /\ AtMostOne(ch.values)
           /\ ch.perms \subseteq ToSet(PermissionNames)
           /\ ch.meta \in Seq((Names \ OwnNames) \X Others)
           /\ \A i, j \in DOMAIN ch.meta : ch.meta[i][1] = ch.meta[j][1] => i = j
  /\ \A e \in Symbols["events"] : e.id \in DOMAIN Db /\ AtMostOne(e.values)
  /\ \A s \in Symbols["accessories"] : s.ids \in Seq(DOMAIN Db) /\ s.linked \in Seq(Others)

\* The end of the value that starts at i, 0 for none, when the items of a
\* bracket that start at i end at end[bracket][i].
EndFrom(t, end, i) ==
  IF Token(t, i) \in {"{", "["}
  THEN IF Token(t, i + 1) = Closing(t[i]) THEN i + 2 ELSE end[t[i]][i + 1]
  ELSE IF Token(t, i) \in Punctuation THEN 0 ELSE i + 1

IsKey(t, i) == Token(t, i) \notin Punctuation \cup Literals /\ Token(t, i + 1) = ":"

Ends(t) ==
  LET end[of \in {"{", "["}] ==
        [i \in Nat |->
           LET v == IF of = "[" THEN EndFrom(t, end, i)
                    ELSE IF IsKey(t, i) THEN EndFrom(t, end, i + 2) ELSE 0
           IN  IF v = 0 THEN 0
               ELSE IF Token(t, v) = "," THEN end[of][v + 1]
               ELSE IF Token(t, v) = Closing(of) THEN v + 1 ELSE 0]
  IN  end

ValueEnd(t, i) == EndFrom(t, Ends(t), i)

IsJson(t) == ValueEnd(t, 1) = Len(t) + 1

\* The value that starts at i, when the items that start at i are items[i]: an
\* array as the sequence of its items, an object as the sequence of its pairs
\* of key and value.
ReadFrom(t, items, i) == IF t[i] \in {"{", "["} THEN items[i + 1] ELSE t[i]

ItemsOf(t) ==
  LET items[i \in Nat] ==
        LET first == IF Token(t, i + 1) = ":" THEN i + 2 ELSE i
            next  == ValueEnd(t, first)
            value == ReadFrom(t, items, first)
        IN  IF Token(t, i) = "," THEN items[i + 1]
            ELSE IF next = 0 THEN <<>>
            ELSE <<IF first = i THEN value ELSE <<t[i], value>> >> \o items[next]
  IN  items

ValueAt(t, i) == ReadFrom(t, ItemsOf(t), i)

Keys(object) == {object[i][1] : i \in DOMAIN object}
At(object, key) == object[CHOOSE i \in DOMAIN object : object[i][1] = key][2]
IsObject(object) == Cardinality(Keys(object)) = Len(object)
Id(object) == <<At(object, "aid"), At(object, "iid")>>

\* A body arrives: no token is cut or lost, no chunk is empty (an empty one
\* ends the body) or longer than the buffer.
TextWidth(tokens) ==
  LET width[n \in 0 .. Len(tokens)] ==
        IF n = 0 THEN 0 ELSE width[n - 1] + Width(tokens[n])
  IN  width[Len(tokens)]
Arrives(json) ==
  /\ ~json.lost
  /\ \A i \in DOMAIN json.chunks :
       json.chunks[i] # <<>> /\ TextWidth(json.chunks[i]) <= Size - 1
  /\ IsJson(Lexed(FlattenSeq(json.chunks)))

Read(answer) == ValueAt(Lexed(FlattenSeq(answer.body.chunks)), 1)
Elements(answer) == At(Read(answer), "characteristics")

-----------------------------------------------------------------------------
(* Properties.                                                             *)

(* When its strings need no escaping and it nests no deeper than the       *)
(* array of nestings, a text that a stream takes to its end                *)
(* (JSON_STATE_END) is JSON, whatever calls are made, in whatever order,   *)
(* and wherever the buffer was flushed.                                    *)
Unescaped(calls) == \A c \in ToSet(calls) : c[1] = "string" => Plain(c[2])
Shallow(calls) ==
  \A n \in 0 .. Len(calls) :
    Len(Calling(NewStream, SubSeq(calls, 1, n)).nesting) <= MaxDepth

StreamsAreJson ==
  kind = "calls" =>
    LET json == Stream(input)
    IN  json.state = "end" /\ ~json.lost /\ Unescaped(input) /\ Shallow(input)
          => Arrives(json)

(* The controller finds in the answer to a read every characteristic it    *)
(* asked for, in order; a status with each of them exactly if the answer   *)
(* is 207, and 0 exactly with those that can be read.                      *)
ReadsAreAnswered ==
  kind = "get" =>
    LET answer == GetCharacteristics(Db, Initial.subscribed, option, input)
        refused == input = <<>> \/ <<>> \in ToSet(input)
        list == Elements(answer)
    IN  /\ refused <=> answer.header = "400"
        /\ ~refused =>
             /\ Arrives(answer.body) /\ Len(list) = Len(input)
             /\ answer.header = "200" <=> \A i \in DOMAIN input : Readable(Db, input[i])
             /\ \A i \in DOMAIN input :
                  /\ IsObject(list[i]) /\ Id(list[i]) = input[i]
                  /\ "status" \in Keys(list[i]) <=> answer.header = "207"
                  /\ "status" \in Keys(list[i]) =>
                       (At(list[i], "status") = "0" <=> Readable(Db, input[i]))
                  /\ "value" \in Keys(list[i]) => Readable(Db, input[i])

(* The accessory database and the EVENTs hold what they are about, however *)
(* long they are: each service with its characteristics in order, "ev"     *)
(* where events can be had, and each event in order.                       *)
ListsAreWhole ==
  /\ kind = "accessories" =>
       LET answer == GetAccessories(Db, Initial.subscribed, <<[aid |-> "1", services |-> input]>>)
           list == At(At(Read(answer), "accessories")[1], "services")
       IN  /\ Arrives(answer.body) /\ Len(list) = Len(input)
           /\ \A i \in DOMAIN input :
                LET chars == At(list[i], "characteristics")
                IN  /\ At(list[i], "iid") = input[i].iid /\ IsObject(list[i])
                    /\ Len(chars) = Len(input[i].ids)
                    /\ \A j \in DOMAIN chars :
                         LET ch == Db[input[i].ids[j]]
                         IN  /\ Id(chars[j]) = input[i].ids[j] /\ IsObject(chars[j])
                             /\ "ev" \in Keys(chars[j]) <=> "ev" \in ch.perms
                             /\ ToSet(At(chars[j], "perms")) = ch.perms
  /\ kind = "events" =>
       LET answer == ClientEvents(Db, input)
       IN  /\ Arrives(answer.body)
           /\ [i \in DOMAIN input |-> Id(Elements(answer)[i])] = [i \in DOMAIN input |-> input[i].id]

\* The state after the first n elements of an update.
After[n \in 0 .. Len(input)] ==
  IF n = 0 THEN Initial ELSE Updated(Db, After[n - 1], input[n])

(* An element of an update that succeeds has stored the number it gave and *)
(* set the subscription it asked for, and touched nothing else; one that   *)
(* does not has changed nothing.  The answer is 204 if all succeed, and    *)
(* else tells the statuses in order, which eight bits keep apart.          *)
UpdatesAreAnswered ==
  kind = "put" /\ input # <<>> =>
    LET e == Last(input)
        s == After[Len(input) - 1]
        t == After[Len(input)]
        ids == [i \in DOMAIN input |-> input[i].id]
        statuses == [i \in DOMAIN input |-> UpdateStatus(Db, input[i])]
        answer == UpdateCharacteristics(ids, statuses)
        list == Elements(answer)
    IN  /\ Last(statuses) # Success => t = s
        /\ Last(statuses) = Success =>
             /\ \A id \in DOMAIN Db \ {e.id} :
                  t.stored[id] = s.stored[id] /\ (id \in t.subscribed <=> id \in s.subscribed)
             /\ (e.value # <<>> /\ e.value[1].type = "number") =>
                  t.stored[e.id] = IF Db[e.id].format = "float" THEN e.value[1].double
                                   ELSE Truncated(e.value[1].double)
             /\ (e.ev # <<>> /\ e.ev[1] \in {"true", "false"}) =>
                  (e.id \in t.subscribed <=> e.ev[1] = "true")
        /\ answer.header = "204" <=> \A i \in DOMAIN input : statuses[i] = Success
        /\ answer.header # "204" =>
             /\ Arrives(answer.body) /\ Len(list) = Len(input)
             /\ \A i, j \in DOMAIN input :
                  /\ Id(list[i]) = ids[i]
                  /\ (At(list[i], "status") = At(list[j], "status")
                        <=> statuses[i] = statuses[j])

\* What a characteristic may hold.
Allowed(ch, x) ==
  CASE ch.format = "bool" -> x \in {0, 1}
    [] ch.format = "float" -> /\ ch.min # <<>> => 2 * ch.min[1] <= x
                              /\ ch.max # <<>> => x <= 2 * ch.max[1]
    [] ch.format \in {"string", "tlv", "data"} -> x <= MaxLen(ch)
    [] OTHER -> /\ x \in MinValue(ch) .. MaxValue(ch)
                /\ ch.valid_values # <<>> => x \in ToSet(ch.valid_values)
                /\ ch.valid_ranges # <<>> =>
                     \E r \in ToSet(ch.valid_ranges) : x \in r[1] .. r[2]

(* No update stores what the characteristic does not allow: the checks are *)
(* made of the double, and what is stored is the number cut from it.  What *)
(* the sketch has put there before may be anything.                        *)
StoredIsAllowed ==
  kind = "put" =>
    \A id \in DOMAIN Db :
      LET x == After[Len(input)].stored[id]
      IN  x = Initial.stored[id] \/ Allowed(Db[id], x)

\* Items that tlv_parse takes for one: the first ends with a full chunk.
Merged(items) ==
  LET from[i \in 1 .. Len(items) + 1] ==
        LET rest == from[i + 1]
        IN  IF i > Len(items) THEN <<>>
            ELSE IF /\ Len(items[i].value) % MaxSize = 0
                    /\ rest # <<>> /\ rest[1].type = items[i].type
            THEN <<Tlv(items[i].type, items[i].value \o rest[1].value)>> \o Tail(rest)
            ELSE <<items[i]>> \o rest
  IN  from[1]

(* What tlv_format writes for items that are not empty is what it said it  *)
(* needs, and tlv_parse reads the same items back, whatever the sizes are  *)
(* to the size of a chunk; but for items of one type that follow another   *)
(* of whole chunks, which it joins.                                        *)
TlvRoundTrip ==
  kind = "tlv" =>
    LET items == [i \in DOMAIN input |->
                    Tlv(input[i][1], [k \in 1 .. input[i][2] |-> (i + k) % 4])]
    IN  /\ Len(Format(items)) = RequiredSize(items)
        /\ Parse(Payload(items)) = Merged(items)

(* "If length is 0, it's an ACK" (TLVType_FragmentData): an item of size 0 *)
(* is an item.  The answer to ListPairings is all that was put in it, to   *)
(* the last pairing's "Bit value describing permissions".                  *)
PairingsAreListed ==
  kind = "pairings" => Payload(PairingItems(input)) = Format(PairingItems(input))

\* The query as its fields, up to the fragment.
Query(text) ==
  LET hash == SelectInSeq(text, LAMBDA c : c = "#")
  IN  IF hash = 0 THEN text ELSE SubSeq(text, 1, hash - 1)
Fields(text) ==
  LET from[i \in 1 .. Len(text) + 1] ==
        LET rest == from[i + 1]
        IN  IF i > Len(text) THEN << <<>> >>
            ELSE IF text[i] = "&" THEN << <<>> >> \o rest
            ELSE << <<text[i]>> \o Head(rest) >> \o Tail(rest)
  IN  from[1]
Field(f) ==
  LET eq == SelectInSeq(f, LAMBDA c : c = "=")
  IN  IF eq = 0 THEN Param(f, <<>>)
      ELSE Param(SubSeq(f, 1, eq - 1), SubSeq(f, eq + 1, Len(f)))

(* A query whose fields all have a name is split at its "&", and each      *)
(* field at its first "=", up to a "#"; the scan ends with the text, and   *)
(* of several parameters of a name the last is found.                      *)
QueriesAreSplit ==
  kind = "query" =>
    LET fields == Fields(Query(input))
        params == [k \in DOMAIN fields |-> Field(fields[k])]
    IN  (\A k \in DOMAIN params : params[k].name # <<>>) =>
          /\ Parsed(input) = [beyond |-> FALSE, params |-> Reverse(params)]
          /\ \A k \in DOMAIN params :
               LET same == {m \in DOMAIN params : params[m].name = params[k].name}
               IN  Find(Parsed(input).params, params[k].name) = <<params[Max(same)]>>

(* What was encoded is decoded, byte for byte, into a buffer of its size.  *)
Base64RoundTrip ==
  kind = "bytes" /\ input # <<>> =>
    /\ Len(Encode(input)) = EncodedSize(Len(input))
    /\ DecodedSize(Encode(input)) = Len(input)
    /\ Decode(Encode(input)) = input

(* Whatever text of whole blocks a controller sends, with "=" anywhere in  *)
(* it, decoding writes no more than the size its buffer was made with.     *)
DecodedFits ==
  kind = "text" /\ input # <<>> /\ Len(input) % 4 = 0
    => Len(Decode(input)) <= DecodedSize(input)

(* An id that was generated is no other's: two accessories, or two objects *)
(* of one accessory, have the same id only if the later one was given it.  *)
(* Without such repetitions a characteristic is found by its ids.          *)
GeneratedIdsAreNew ==
  kind = "ids" =>
    LET ids == Ids(input)
        Same(i, j) == ids[i] = ids[j]
                      /\ (input[i].level = "accessory" <=> input[j].level = "accessory")
        Accessory(i) ==
          SelectLastInSubSeq(input, 1, i, LAMBDA x : x.level = "accessory")
        Peers(i, j) == \/ input[i].level = "accessory" /\ input[j].level = "accessory"
                       \/ Accessory(i) = Accessory(j)
        Pairs == {p \in (DOMAIN input) \X (DOMAIN input) : p[1] < p[2]}
    IN  /\ \A p \in Pairs :
             Same(p[1], p[2]) /\ Peers(p[1], p[2]) => input[p[2]].id # 0
        /\ (\A p \in Pairs : ~Same(p[1], p[2])) =>
             \A i \in DOMAIN input :
               input[i].level = "characteristic" => ByAidAndIid(input, ids[i]) = i
=============================================================================
