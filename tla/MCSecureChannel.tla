--------------------------- MODULE MCSecureChannel ---------------------------
(* SecureChannel with frames of at most three bytes of plaintext, a length *)
(* and tag of two, and requests of one to four bytes in one or two frames. *)
EXTENDS SecureChannel

Splits == {<<1>>, <<2>>, <<3>>, <<1, 3>>, <<3, 1>>, <<2, 1>>}
=============================================================================
