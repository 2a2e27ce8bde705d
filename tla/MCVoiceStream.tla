--------------------------- MODULE MCVoiceStream ---------------------------
(* Small instances of VoiceStream for TLC. *)
EXTENDS VoiceStream, TLC

MCSymmetry == Permutations(Streams)
=============================================================================
