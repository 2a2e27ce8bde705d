-------------------------- MODULE MCComposedTurns --------------------------
(* Small instances of ComposedTurns for TLC. *)
EXTENDS ComposedTurns, TLC
=============================================================================
