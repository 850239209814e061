----------------------------- MODULE QueryParams -----------------------------
(***************************************************************************)
(* query_params.c: the parameters of a URL's query, as a list of which the *)
(* last parameter is the first element.  A text is a sequence of           *)
(* characters, followed in memory by a null character.                     *)
(***************************************************************************)
EXTENDS Integers, Sequences, FiniteSetsExt

Null == "0"
Char(s, i) == IF i <= Len(s) THEN s[i] ELSE Null

\* The first character from i on that is one of "stops", Null among them.
Stop(s, i, stops) ==
  CHOOSE j \in i .. i + Len(s) :
    Char(s, j) \in stops /\ \A k \in i .. j - 1 : Char(s, k) \notin stops

\* value: <<>> for a null pointer.
Param(name, value) == [name |-> name, value |-> value]

\* A slip: the value ends at the next "=".
ValueStopsShort == {Null, "&", "#", "="}
ValueStops == {Null, "&", "#"}

\* query_params_parse: what the text from i on adds to the list; "beyond" once
\* the scan has passed the null character.
Parsed(s) ==
  LET from[i \in 1 .. Len(s) + 2] ==
        LET name  == Stop(s, i, ValueStops \cup {"="})
            value == IF Char(s, name) = "=" THEN Stop(s, name + 1, ValueStops) ELSE name
            param == Param(SubSeq(s, i, name - 1), SubSeq(s, name + 1, value - 1))
        IN  IF i > Len(s) + 1 THEN [beyond |-> TRUE, params |-> <<>>]
            ELSE IF name = i THEN from[i + 1]
            ELSE IF Char(s, value) \in {Null, "#"}
                 THEN [beyond |-> FALSE, params |-> <<param>>]
            ELSE [from[value] EXCEPT !.params = Append(@, param)]
  IN  from[1]

\* query_params_find: the first parameter of that name, <<>> for a null pointer.
Find(params, name) ==
  LET found == {k \in DOMAIN params : params[k].name = name}
  IN  IF found = {} THEN <<>> ELSE <<params[Min(found)]>>
=============================================================================
