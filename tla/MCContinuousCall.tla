-------------------------- MODULE MCContinuousCall --------------------------
(* Small instances of ContinuousCall for TLC. *)
EXTENDS ContinuousCall, TLC
=============================================================================
