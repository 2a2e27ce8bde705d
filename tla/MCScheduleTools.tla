-------------------------- MODULE MCScheduleTools --------------------------
EXTENDS ScheduleTools

MCCalls == 1..3
MCComposed == {1}

Args(values) == values @@ Blank
OnceArgs == Args([schedule_type |-> "location", schedule_kind |-> "once", title |-> "words",
                  timezone |-> "words", is_all_day |-> "no", start_time |-> "aware",
                  location_name |-> "words", latitude |-> "decimal",
                  reminder_offset_minutes |-> "numeral"])
FindArgs == Args([title |-> "words", starts_before |-> "aware", category |-> "member"])
UpdateArgs == Args([schedule_id |-> "words", expected_revision |-> "int"])
DeleteArgs == Args([schedule_id |-> "words", expected_revision |-> "numeral",
                    schedule_kind |-> "recurring", scope |-> "member"])
SomeChanges == Args([start_time |-> "naive", reminder_offset_minutes |-> "int"])

Uses(tool, args, changes) == Request(tool, args, changes, "none", FALSE, "words")
Good == {Uses("schedule_create", OnceArgs, Blank), Uses("schedule_query", FindArgs, Blank),
         Uses("schedule_update", UpdateArgs, SomeChanges),
         Uses("schedule_delete", DeleteArgs, Blank)}
Asking(kind, says) == Request("request_user_input", Blank, Blank, kind, says, "words")
Looking(place) == Request("location_search", Blank, Blank, "none", FALSE, place)
Create == Uses("schedule_create", OnceArgs, Blank)
Unusable == Uses("schedule_delete", [DeleteArgs EXCEPT !["scope"] = "null"], Blank)
Delete == Uses("schedule_delete", DeleteArgs, Blank)
Other == Uses("weather", Blank, Blank)

MCAsks ==
    (1 :> {Create, Unusable, Other, Looking("words"), Looking("home")}) @@
    (2 :> {Create, Unusable, Delete, Other, Looking("words"), Asking("missing_field", TRUE),
           Asking("confirmation", TRUE), Asking("confirmation", FALSE),
           Uses("end_conversation", Blank, Blank)}) @@
    (3 :> {Create, Delete, Looking("words"), Looking("home")})

(* Every request with one argument or one change of any value, and every    *)
(* kind of one that has several.                                            *)
Deviations ==
    Good
    \cup {[g EXCEPT !.args[f] = v] : g \in Good, f \in Fields, v \in Values}
    \cup {[g EXCEPT !.changes[f] = v] : g \in Good, f \in Fields, v \in Values}
    \cup {[g EXCEPT !.args["schedule_kind"] = k, !.args["scope"] = s] :
            g \in Good, k \in Values, s \in Values}
    \cup {[g EXCEPT !.args["schedule_type"] = k, !.args["location_name"] = s] :
            g \in Good, k \in Values, s \in Values}

(* The two copies of the mapping agree on every such request.  Which ones   *)
(* does not depend on the state: they are gone through once, before any     *)
(* call is made.                                                            *)
MappingsAgree == (pc = [c \in Calls |-> "new"]) => \A r \in Deviations : Agree(r)
=============================================================================
