--------------------------- MODULE MCSessionEntry ---------------------------
(* Three connections, two of which may be unauthenticated, and one thread. *)
EXTENDS SessionEntry
=============================================================================
