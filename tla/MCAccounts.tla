----------------------------- MODULE MCAccounts -----------------------------
(* Three requests, by two clients, log in under two spellings of one username. *)
EXTENDS Accounts

MCInputs == { <<"r1", "c1", "ann", "first">>,
              <<"r2", "c1", " ann", "second">>, <<"r2", "c2", "x", "first">>,
              <<"r3", "c2", "ann", "second">>, <<"r3", "c2", "ann", "blank">> }

MCStripped == [s \in Spellings |-> IF s = "x" THEN None ELSE "ann"]

=============================================================================
