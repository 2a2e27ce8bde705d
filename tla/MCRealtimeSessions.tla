------------------------- MODULE MCRealtimeSessions -------------------------
(* Small instances of RealtimeSessions for TLC. *)
EXTENDS RealtimeSessions, TLC

BothModes == {"push_to_talk", "continuous"}
MCSymmetry == Permutations(Turns) \cup Permutations(Keys) \cup Permutations(Sessions)
              \cup Permutations(Locks)
=============================================================================
