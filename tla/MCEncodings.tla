----------------------------- MODULE MCEncodings -----------------------------
(* Encodings with a buffer of seven characters and tokens of one to three, *)
(* but for one that fills it and one that is too long; TLV chunks of two   *)
(* bytes, and eight characteristics.                                       *)
EXTENDS Encodings

TokenWidth(t) ==
  IF t \in Punctuation THEN 1 ELSE IF t \in Literals THEN 2
  ELSE IF t = "full" THEN 6 ELSE IF t = "long" THEN 7 ELSE 3

DecimalOf(n) == ToString(n)

\* A string with a quote in it ends there, for the reader, and what follows is
\* no token.
LexemesOf(t) == IF t = "a\"b" THEN <<"a", "end">> ELSE <<t>>

Ch(iid, format, perms, low, high, valid, ranges, len, values, meta) ==
  [aid |-> "1", iid |-> iid, type |-> "t", format |-> format, perms |-> perms,
   min |-> low, max |-> high, valid_values |-> valid, valid_ranges |-> ranges,
   max_len |-> len, values |-> values, meta |-> meta]

Name(iid) == <<"1", iid>>
RW == {"pr", "pw", "ev"}

(* A mode with valid values, a setting with ranges, a switch that is only  *)
(* written, a level, a name whose value has another format, a sensor that  *)
(* is only read, a TLV, and a percentage.                                  *)
Characteristics ==
  Name("2") :> Ch("2", "uint8", RW, <<>>, <<>>, <<0, 1, 3>>, <<>>, <<>>, <<"3">>,
                  << <<"format", "f">> >>) @@
  Name("3") :> Ch("3", "int", {"pr", "pw"}, <<-2>>, <<5>>, <<>>, << <<-1, 2>>, <<4, 5>> >>,
                  <<>>, <<"0">>, << <<"minValue", "m">>, <<"maxValue", "m">> >>) @@
  Name("4") :> Ch("4", "bool", {"pw"}, <<>>, <<>>, <<>>, <<>>, <<>>, <<"true">>, <<>>) @@
  Name("5") :> Ch("5", "float", RW, <<-1>>, <<2>>, <<>>, <<>>, <<>>, <<"null">>, <<>>) @@
  Name("6") :> Ch("6", "string", {"pr", "pw"}, <<>>, <<>>, <<>>, <<>>, <<>>, <<>>, <<>>) @@
  Name("7") :> Ch("7", "uint16", {"pr", "ev"}, <<>>, <<>>, <<>>, <<>>, <<>>, <<"7">>, <<>>) @@
  Name("8") :> Ch("8", "tlv", {"pr", "pw"}, <<>>, <<>>, <<>>, <<>>, <<4>>, <<"b">>, <<>>) @@
  Name("10") :> Ch("10", "uint8", RW, <<>>, <<2>>, <<>>, <<>>, <<>>, <<"1">>, <<>>)

Before == [stored |-> [id \in DOMAIN Characteristics |-> 0],
           subscribed |-> {Name("2"), Name("7")}]

Missing == Name("9")
Number2(n) == [type |-> "number", double |-> n, length |-> 0, base64 |-> FALSE]
Other(type, n, ok) == [type |-> type, double |-> 0, length |-> n, base64 |-> ok]
JsonValues ==
  {Number2(n) : n \in {-5, -3, -1, 0, 1, 2, 3, 5, 6, 11, 511}}
    \cup {Other(type, 0, FALSE) : type \in {"true", "false", "null"}}
    \cup {Other("string", n, TRUE) : n \in {4, 5, 64}} \cup {Other("string", 65, FALSE)}

Written2 ==
  {[id |-> id, value |-> <<v>>, ev |-> <<>>] :
     id \in DOMAIN Characteristics \cup {Missing}, v \in JsonValues}
    \cup {[id |-> id, value |-> v, ev |-> <<on>>] :
            id \in DOMAIN Characteristics, v \in {<<>>, <<Number2(2)>>, <<Number2(4)>>},
            on \in {"true", "false", "number"}}

MCSymbols ==
  [calls |-> {ObjectStart, ObjectEnd, ArrayStart, ArrayEnd, Value("0"), String("full"),
             String("long"), String("a\"b")},
   get |-> DOMAIN Characteristics \cup {Missing, <<>>},
   accessories |-> [iid : {"1"}, linked : {<<>>, <<"1">>, <<"1", "1">>},
                    ids : {<<>>, <<Name("2")>>, <<Name("3"), Name("4")>>,
                           <<Name("5"), Name("6")>>, <<Name("7"), Name("8")>>}],
   events |-> [id : DOMAIN Characteristics, values : {<<"7">>, <<"null">>, <<>>}],
   put |-> Written2,
   tlv |-> {1, 2} \X (1 .. 5),
   pairings |-> [id : {<<1, 2>>}, key : {<<3>>}, permissions : {0, 1}],
   query |-> {"a", "b", "=", "&", "#"},
   bytes |-> {0, 1, 90, 127, 191, 255},
   text |-> {65, 122, Pad},
   ids |-> [level : {"accessory", "service", "characteristic"}, id : 0 .. 2]]

MCBound ==
  [calls |-> 8, get |-> 3, accessories |-> 2, events |-> 3, put |-> 2, tlv |-> 4,
   pairings |-> 3, query |-> 6, bytes |-> 5, text |-> 8, ids |-> 5]

MCOptions ==
  [k \in DOMAIN MCBound |->
     IF k = "get" THEN SUBSET {"meta", "perms", "type", "ev"} ELSE {{}}]

Checked == DOMAIN MCBound \ {"pairings"}
=============================================================================
