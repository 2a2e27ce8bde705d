------------------------- MODULE MCScheduleService -------------------------
(* Small instances of ScheduleService for TLC. *)
EXTENDS ScheduleService, TLC

CONSTANTS s1, r1, t2
ThreeDays == 1 .. 3
MCReplaced == {[schedule |-> s1, occurrence |-> 2, replacement |-> r1]}
MCRules == {ThreeDays}
RulePatches == {[NoPatch EXCEPT !.rule = {{2, 3}}]}
FieldPatches == {[NoPatch EXCEPT !.title = t2], [NoPatch EXCEPT !.reminder = "set"],
                 [NoPatch EXCEPT !.reminder = "none"]}
MCSymmetry == Permutations(Callers)
NoReplaced == {}
OneDay == {1}
=============================================================================
