------------------------ MODULE MCConnectionManager ------------------------
(* Small instances of ConnectionManager for TLC. *)
EXTENDS ConnectionManager, TLC

MCSymmetry == Permutations(Sessions) \cup Permutations(Bursts) \cup Permutations(Senders)
=============================================================================
