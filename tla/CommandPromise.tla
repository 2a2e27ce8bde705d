---------------------------- MODULE CommandPromise ----------------------------
(***************************************************************************)
(* What a tool call promises its two readers, whichever agent makes it: a  *)
(* command is applied or not, once and for all; the client is handed the   *)
(* result of an applied command only, and once; the model is told that a   *)
(* command was applied only when the client has been told first, and told  *)
(* otherwise only when nothing was; and whoever withdraws a call gets no   *)
(* answer from it any more.                                                *)
(***************************************************************************)
CONSTANT Calls

VARIABLES
    outcome,     \* [Calls -> {"new", "open", "applied", "void"}]
    reported,    \* the calls whose result the client was handed
    told,        \* [Calls -> {"nothing", "applied", "other"}], for the model
    withdrawn    \* the calls given up by who made them

vars == <<outcome, reported, told, withdrawn>>

Init ==
    /\ outcome = [c \in Calls |-> "new"]
    /\ told = [c \in Calls |-> "nothing"]
    /\ reported = {} /\ withdrawn = {}

Begin(c) ==
    /\ outcome[c] = "new"
    /\ \E o \in {"open", "void"} : outcome' = [outcome EXCEPT ![c] = o]
    /\ UNCHANGED <<reported, told, withdrawn>>

Decide(c) ==
    /\ outcome[c] = "open"
    /\ \E o \in {"applied", "void"} : outcome' = [outcome EXCEPT ![c] = o]
    /\ UNCHANGED <<reported, told, withdrawn>>

Report(c) ==
    /\ outcome[c] = "applied" /\ c \notin reported
    /\ reported' = reported \cup {c}
    /\ UNCHANGED <<outcome, told, withdrawn>>

Tell(c) ==
    /\ told[c] = "nothing" /\ c \notin withdrawn
    /\ \/ c \in reported /\ told' = [told EXCEPT ![c] = "applied"]
       \/ outcome[c] = "void" /\ told' = [told EXCEPT ![c] = "other"]
    /\ UNCHANGED <<outcome, reported, withdrawn>>

(* Work that has not been begun may be dropped with the call.               *)
Withdraw(c) ==
    /\ told[c] = "nothing" /\ outcome[c] # "new"
    /\ withdrawn' = withdrawn \cup {c}
    /\ \/ UNCHANGED outcome
       \/ outcome[c] = "open" /\ outcome' = [outcome EXCEPT ![c] = "void"]
    /\ UNCHANGED <<reported, told>>

Next == \E c \in Calls : Begin(c) \/ Decide(c) \/ Report(c) \/ Tell(c) \/ Withdraw(c)
Spec == Init /\ [][Next]_vars
=============================================================================
