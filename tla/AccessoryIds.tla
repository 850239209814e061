----------------------------- MODULE AccessoryIds -----------------------------
(***************************************************************************)
(* The ids of accessories.c: homekit_accessories_init numbers what the     *)
(* sketch gave no id, and homekit_characteristic_by_aid_and_iid looks the  *)
(* ids up.  The configuration is the sequence of its accessories, services *)
(* and characteristics in the order of the nested loops, each with its     *)
(* level and the id that the sketch gave it, 0 for none.                   *)
(***************************************************************************)
EXTENDS Integers, Sequences, SequencesExt

\* A slip: the next number may be the one given.
NextAtLeast(next, given) == IF given > next THEN given ELSE next

\* The number that follows: the counter skips what the sketch gave.
NextAfter(next, given) ==
  IF given = 0 THEN next + 1 ELSE IF given >= next THEN given + 1 ELSE next

Given(id, next) == IF id = 0 THEN next ELSE id

\* homekit_accessories_init: aid and iid are its counters, "at" the id of
\* the accessory being numbered.
Numbered(s, x) ==
  IF x.level = "accessory"
  THEN [aid |-> NextAfter(s.aid, x.id), iid |-> 1, at |-> Given(x.id, s.aid),
        ids |-> Append(s.ids, <<Given(x.id, s.aid), 0>>)]
  ELSE [s EXCEPT !.iid = NextAfter(s.iid, x.id),
                 !.ids = Append(@, <<s.at, Given(x.id, s.iid)>>)]

Numbering(config) ==
  LET after[n \in 0 .. Len(config)] ==
        IF n = 0 THEN [aid |-> 1, iid |-> 1, at |-> 0, ids |-> <<>>]
        ELSE Numbered(after[n - 1], config[n])
  IN  after

Ids(config) == Numbering(config)[Len(config)].ids

\* homekit_characteristic_by_aid_and_iid: services have iids too, but are
\* not looked at.
ByAidAndIid(config, id) ==
  SelectInSeq([i \in DOMAIN config |-> <<config[i].level, Ids(config)[i]>>],
              LAMBDA x : x = <<"characteristic", id>>)
=============================================================================
