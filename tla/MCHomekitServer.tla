-------------------------- MODULE MCHomekitServer --------------------------
(* HomekitServer with a few connections and controllers.  Connections and  *)
(* controllers are interchangeable; the liveness runs do not use it.       *)
EXTENDS HomekitServer, TLC

(* For the run about sessions, whose properties claim nothing once the     *)
(* accessory id is gone; all that brings it back is a restart with the     *)
(* table of Init.                                                          *)
IdIntact == hasId

Symmetry == Permutations(Conn) \cup Permutations(Device)
=============================================================================
