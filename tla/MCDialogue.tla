----------------------------- MODULE MCDialogue -----------------------------
(* Small instances of Dialogue for TLC. *)
EXTENDS Dialogue, TLC
=============================================================================
