--------------------------- MODULE MCClientSession ---------------------------
(* Two tokens, one background deletion at a time, one restart. *)
EXTENDS ClientSession
=============================================================================
