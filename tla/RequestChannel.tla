--------------------------- MODULE RequestChannel ---------------------------
(***************************************************************************)
(* What a connection promises its controller: one answer to each request,  *)
(* for as long as nothing of the stream is lost.  A lost connection        *)
(* promises nothing; it ends when one of the two sides closes it.          *)
(***************************************************************************)
VARIABLE phase

Phases == {"closed", "idle", "asked", "lost"}

Init == phase = "closed"

Open   == phase = "closed" /\ phase' = "idle"
Ask    == phase = "idle" /\ phase' = "asked"
Answer == phase = "asked" /\ phase' = "idle"
Lose   == phase \in {"idle", "asked"} /\ phase' = "lost"
Close  == phase # "closed" /\ phase' = "closed"

Next == Open \/ Ask \/ Answer \/ Lose \/ Close

InTurn == Init /\ [][Next]_phase

\* A request does not wait for ever.
Spec == InTurn /\ WF_phase(phase = "asked" /\ (Answer \/ Lose \/ Close))
=============================================================================
