---------------------------- MODULE ToolArguments ----------------------------
(***************************************************************************)
(* How the arguments a model gives a schedule tool become a command of the *)
(* calendar service, in the two copies the backend keeps: the composed     *)
(* agent's (intelligence/conversation/schedule_tools.py) and the realtime  *)
(* agent's (intelligence/realtime/tool_mapping.py).                        *)
(*                                                                         *)
(* An argument is abstracted to what the readers tell apart: whether it is *)
(* there, its JSON type, and what its text reads as.  A reader is the      *)
(* function from the arguments it takes to what it makes of them; whatever *)
(* is outside its domain it refuses.                                       *)
(***************************************************************************)
EXTENDS Naturals, FiniteSets, TLC

(* A text that is no blank: words, a personal place ("home"), an integer,   *)
(* a decimal number, a date-time without and with an offset, a date alone,  *)
(* and members of the enumerations.                                         *)
Texts == {"words", "home", "numeral", "decimal", "naive", "aware", "day",
          "once", "recurring", "time", "location", "member"}
Blanks == {"blank", "empty"}
(* Not a text: no such key, null, booleans, an integer in every range, one  *)
(* below zero, one too large for a coordinate, a fraction, another value.   *)
Values == Texts \cup Blanks \cup
          {"absent", "null", "yes", "no", "int", "negative", "far", "fraction", "other"}

Editable == {"title", "is_all_day", "start_time", "end_time", "timezone",
             "recurrence_rule", "location_name", "latitude", "longitude",
             "reminder_type", "reminder_trigger_at", "reminder_offset_minutes",
             "reminder_strength"}
Wanted == {"schedule_id", "title", "starts_at_or_after", "starts_before",
           "location_name", "category", "include_deleted"}
Chosen == {"schedule_id", "expected_revision", "schedule_kind", "scope"}
Fields == Editable \cup Wanted \cup Chosen \cup {"schedule_type"}

Blank == [f \in Fields |-> "absent"]
Given(args) == {f \in Fields : args[f] # "absent"}

(* The command an operation of the service is called with; none when the    *)
(* arguments are refused before the service is.                             *)
NoCommand == [operation |-> "none", with |-> Blank]
Command(op, values) ==
    IF \E f \in DOMAIN values : values[f] = "refused" THEN NoCommand
    ELSE [operation |-> op, with |-> values @@ Blank]

Kept(S) == [v \in S |-> v]
Unset == [v \in {"absent", "null"} |-> "null"]
Read(readers, args) ==
    [f \in DOMAIN readers |->
        IF args[f] \in DOMAIN readers[f] THEN readers[f][args[f]] ELSE "refused"]
(* A patch holds the keys that are given, and no others.                    *)
ReadGiven(readers, args) == Read([f \in Given(args) \cap DOMAIN readers |-> readers[f]], args)

(***************************************************************************)
(* The composed agent's copy.                                              *)
(***************************************************************************)

ConversationReads ==
    [string    |-> Kept(Texts),
     text      |-> Unset @@ Kept(Texts \cup Blanks),
     bool      |-> Kept({"yes", "no"}),
     flag      |-> [absent |-> "no"] @@ Kept({"yes", "no"}),
     number    |-> [numeral |-> "int"] @@ Kept({"int", "far"}),
     offset    |-> Unset @@ [numeral |-> "int"] @@ Kept({"int", "far"}),
     degrees   |-> Unset @@ [numeral |-> "int", decimal |-> "fraction"]
                         @@ Kept({"int", "negative", "fraction"}),
     datetime  |-> Unset @@ Kept({"aware"}),
     type      |-> Kept({"time", "location"}),
     kind      |-> Kept({"once", "recurring"}),
     member    |-> Unset @@ Kept({"member"})]

PatchReaders ==
    LET r == ConversationReads IN
    [title |-> r.string, is_all_day |-> r.bool, start_time |-> r.datetime,
     end_time |-> r.datetime, timezone |-> r.string, recurrence_rule |-> r.text,
     location_name |-> r.text, latitude |-> r.degrees, longitude |-> r.degrees,
     reminder_type |-> r.member, reminder_trigger_at |-> r.datetime,
     reminder_offset_minutes |-> r.offset, reminder_strength |-> r.member]

(* A place known only to the speaker makes no location schedule.            *)
Vague(args) == args["schedule_type"] = "location" /\ args["location_name"] = "home"

MapCreate(args) ==
    LET r == ConversationReads IN
    IF Given(args) \subseteq Editable \cup {"schedule_type", "schedule_kind"} /\ ~Vague(args)
    THEN Command("create", Read([schedule_type |-> r.type, schedule_kind |-> r.kind]
                                @@ PatchReaders, args))
    ELSE NoCommand

MapFind(args) ==
    LET r == ConversationReads IN
    IF Given(args) \subseteq Wanted
    THEN Command("find", Read([schedule_id |-> r.text, title |-> r.text,
                               starts_at_or_after |-> r.datetime, starts_before |-> r.datetime,
                               location_name |-> r.text, category |-> r.member,
                               include_deleted |-> r.flag], args))
    ELSE NoCommand

MapUpdate(args, changes) ==
    LET r == ConversationReads IN
    IF /\ Given(args) \subseteq {"schedule_id", "expected_revision"}
       /\ Given(changes) # {} /\ Given(changes) \subseteq Editable
    THEN Command("update",
                 Read([schedule_id |-> r.string, expected_revision |-> r.number], args)
                     @@ ReadGiven(PatchReaders, changes))
    ELSE NoCommand

MapDelete(args) ==
    LET r == ConversationReads
        c == Read([schedule_id |-> r.string, expected_revision |-> r.number,
                   schedule_kind |-> r.kind, scope |-> r.member], args)
    IN  IF Given(args) \subseteq Chosen
        THEN CASE c.schedule_kind = "once" /\ c.scope = "null" -> Command("delete_once", c)
               [] c.schedule_kind = "recurring" /\ c.scope = "member" ->
                      Command("delete_recurring", c)
               [] OTHER -> NoCommand
        ELSE NoCommand

ComposedCommand(r) ==
    CASE r.tool = "schedule_create" -> MapCreate(r.args)
      [] r.tool = "schedule_query"  -> MapFind(r.args)
      [] r.tool = "schedule_update" -> MapUpdate(r.args, r.changes)
      [] r.tool = "schedule_delete" -> MapDelete(r.args)
      [] OTHER -> NoCommand

(***************************************************************************)
(* The realtime agent's copy.                                              *)
(***************************************************************************)

(* Every text that reads as a date-time without an offset gets the          *)
(* session's, whichever field it is in, those of the changes too.           *)
NormalizeDatetimeArgs(r) ==
    LET Local(args) == [f \in Fields |-> IF args[f] = "naive" THEN "aware" ELSE args[f]]
    IN  [r EXCEPT !.args = Local(@), !.changes = Local(@)]

Missing == {"absent", "null"}

(* A plausible bug: an integer that comes in quotes is refused. *)
CoerceNumberUnquoted(reader, v) ==
    CASE reader = "float" /\ v = "numeral" -> "int"
      [] reader = "float" /\ v = "decimal" -> "fraction"
      [] OTHER -> v

(* A number in quotes is as good as one without.                            *)
CoerceNumber(reader, v) ==
    CASE reader \in {"int", "optional int", "float"} /\ v = "numeral" -> "int"
      [] reader = "float" /\ v = "decimal" -> "fraction"
      [] OTHER -> v

RealtimeAccepts ==
    [string |-> Texts, text |-> Texts \cup Blanks, bool |-> {"yes", "no"},
     flag |-> {"yes", "no"}, int |-> {"int", "far"}, type |-> {"time", "location"},
     kind |-> {"once", "recurring"}, enum |-> {"member"}, datetime |-> {"aware"},
     float |-> {"int", "negative", "fraction"}]
    @@ ("optional int" :> {"int", "far"})

RealtimeRead(reader, v) ==
    CASE reader = "flag" /\ v = "absent" -> "no"
      [] reader \in {"text", "optional int", "float", "datetime", "enum"} /\ v \in Missing -> "null"
      [] CoerceNumber(reader, v) \in RealtimeAccepts[reader] -> CoerceNumber(reader, v)
      [] OTHER -> "refused"

RealtimeValues(readers, args) == [f \in DOMAIN readers |-> RealtimeRead(readers[f], args[f])]

RealtimePatch(changes) ==
    RealtimeValues(
        [f \in Given(changes) \cap Editable |->
            CASE f \in {"title", "timezone"} -> "string"
              [] f = "is_all_day" -> "bool"
              [] f \in {"start_time", "end_time", "reminder_trigger_at"} -> "datetime"
              [] f \in {"recurrence_rule", "location_name"} -> "text"
              [] f \in {"latitude", "longitude"} -> "float"
              [] f = "reminder_offset_minutes" -> "optional int"
              [] f \in {"reminder_type", "reminder_strength"} -> "enum"],
        changes)

(* The zone and whether it takes all day need not be given: the session's   *)
(* zone, in words, stands for a zone that is missing or empty.              *)
RealtimeCreate(args) ==
    LET readers ==
            [schedule_type |-> "type", schedule_kind |-> "kind", title |-> "string",
             timezone |-> "text", is_all_day |-> "flag", start_time |-> "datetime",
             end_time |-> "datetime", recurrence_rule |-> "text", location_name |-> "text",
             latitude |-> "float", longitude |-> "float", reminder_type |-> "enum",
             reminder_trigger_at |-> "datetime", reminder_offset_minutes |-> "optional int",
             reminder_strength |-> "enum"]
        values == RealtimeValues(readers, args)
    IN  IF Given(args) \subseteq DOMAIN readers
        THEN Command("create",
                     IF values.timezone \in {"null", "empty"}
                     THEN [values EXCEPT !.timezone = "words"] ELSE values)
        ELSE NoCommand

RealtimeFind(args) ==
    LET readers ==
            [schedule_id |-> "text", title |-> "text", starts_at_or_after |-> "datetime",
             starts_before |-> "datetime", location_name |-> "text", category |-> "enum",
             include_deleted |-> "flag"]
    IN  IF Given(args) \subseteq DOMAIN readers
        THEN Command("find", RealtimeValues(readers, args)) ELSE NoCommand

RealtimeUpdate(args, changes) ==
    LET readers == [schedule_id |-> "string", expected_revision |-> "int"]
    IN  IF /\ Given(args) \subseteq DOMAIN readers
           /\ Given(changes) # {} /\ Given(changes) \subseteq Editable
        THEN Command("update", RealtimeValues(readers, args) @@ RealtimePatch(changes))
        ELSE NoCommand

RealtimeDelete(args) ==
    LET readers == [schedule_id |-> "string", expected_revision |-> "int",
                    schedule_kind |-> "kind", scope |-> "enum"]
        values == RealtimeValues(readers, args)
        scoped == values.scope = "member"
    IN  IF /\ Given(args) \subseteq DOMAIN readers
           /\ values.schedule_kind # "refused" /\ values.scope # "refused"
           /\ scoped <=> values.schedule_kind = "recurring"
        THEN Command(IF scoped THEN "delete_recurring" ELSE "delete_once", values)
        ELSE NoCommand

RealtimeCommand(request) ==
    LET r == NormalizeDatetimeArgs(request) IN
    CASE r.tool = "schedule_create" -> RealtimeCreate(r.args)
      [] r.tool = "schedule_query"  -> RealtimeFind(r.args)
      [] r.tool = "schedule_update" -> RealtimeUpdate(r.args, r.changes)
      [] r.tool = "schedule_delete" -> RealtimeDelete(r.args)
      [] OTHER -> NoCommand

(***************************************************************************)
(* What the models are offered, and what they can count on.                *)
(***************************************************************************)

(* The values a property's schema admits; a text may be of spaces only.     *)
Nullable(S) == S \cup {"null"}
SpokenTexts == Texts \cup {"blank"}
EditableSchema ==
    [f \in {"title", "timezone"} |-> SpokenTexts]
    @@ [f \in {"recurrence_rule", "location_name"} |-> Nullable(Texts \cup Blanks)]
    @@ [f \in {"start_time", "end_time", "reminder_trigger_at"} |-> Nullable({"aware"})]
    @@ [f \in {"latitude", "longitude"} |-> Nullable({"int", "negative", "fraction"})]
    @@ [f \in {"reminder_type", "reminder_strength"} |-> Nullable({"member"})]
    @@ [is_all_day |-> {"yes", "no"}, reminder_offset_minutes |-> Nullable({"int", "far"})]

ConversationSchema(tool) ==
    LET revisioned == [schedule_id |-> SpokenTexts, expected_revision |-> {"int", "far"}] IN
    CASE tool = "schedule_create" ->
           [properties |-> [schedule_type |-> {"time", "location"},
                            schedule_kind |-> {"once", "recurring"}] @@ EditableSchema,
            required |-> {"schedule_type", "schedule_kind", "title", "timezone", "is_all_day"}]
      [] tool = "schedule_query" ->
           [properties |-> [f \in {"schedule_id", "title", "location_name"} |->
                                Nullable(Texts \cup Blanks)]
                           @@ [f \in {"starts_at_or_after", "starts_before"} |-> Nullable({"aware"})]
                           @@ [category |-> Nullable({"member"}), include_deleted |-> {"yes", "no"}],
            required |-> {}]
      [] tool = "schedule_update" ->
           [properties |-> revisioned, required |-> {"schedule_id", "expected_revision"}]
      [] tool = "schedule_delete" ->
           [properties |-> revisioned @@ [schedule_kind |-> {"once", "recurring"},
                                          scope |-> Nullable({"member"})],
            required |-> {"schedule_id", "expected_revision", "schedule_kind"}]

(* The realtime agent offers the same and requires less.                    *)
RealtimeSchema(tool) ==
    IF tool # "schedule_create" THEN ConversationSchema(tool)
    ELSE [ConversationSchema(tool) EXCEPT !.required = {"schedule_type", "schedule_kind", "title"}]

Conforms(r, schema) ==
    /\ Given(r.args) \subseteq DOMAIN schema.properties /\ schema.required \subseteq Given(r.args)
    /\ \A f \in Given(r.args) : r.args[f] \in schema.properties[f]
    /\ IF r.tool = "schedule_update"
       THEN Given(r.changes) # {} /\ \A f \in Given(r.changes) :
                f \in Editable /\ r.changes[f] \in EditableSchema[f]
       ELSE r.changes = Blank

(* What no schema says: texts that must be said are no blanks, a place is   *)
(* known to others, and a scope goes with what recurs.                      *)
Sensible(r) ==
    /\ \A f \in {"title", "timezone", "schedule_id"} :
          r.args[f] # "blank" /\ r.changes[f] # "blank"
    /\ r.tool = "schedule_create" => ~Vague(r.args)
    /\ r.tool = "schedule_delete" => (r.args["schedule_kind"] = "recurring" <=> r.args["scope"] = "member")

(* What the realtime agent fills in for a model that leaves it out.         *)
Filled(r) ==
    IF r.tool # "schedule_create" THEN r
    ELSE [r EXCEPT !.args["timezone"] = IF @ \in {"absent", "null", "empty"} THEN "words" ELSE @,
                   !.args["is_all_day"] = IF @ = "absent" THEN "no" ELSE @]

(* Given date-times with offsets, both agents make the same command of the  *)
(* same arguments, or both refuse them: the realtime agent takes nothing    *)
(* the composed one refuses but a personal place and a blank zone, which it *)
(* leaves to the service.  And a model that keeps to the schema it was      *)
(* offered, and is sensible, is refused by neither.                         *)
Agree(request) ==
    LET r == NormalizeDatetimeArgs(request)
        composed == ComposedCommand(Filled(r))
        realtime == RealtimeCommand(request)
        lenient == r.tool = "schedule_create" /\ (Vague(r.args) \/ r.args["timezone"] = "blank")
    IN  /\ ComposedCommand(r) # NoCommand => realtime = ComposedCommand(r)
        /\ realtime # NoCommand /\ ~lenient => composed = realtime
        /\ Conforms(request, ConversationSchema(request.tool)) /\ Sensible(request) =>
               ComposedCommand(request) # NoCommand
        /\ Conforms(request, RealtimeSchema(request.tool)) /\ Sensible(request) =>
               realtime # NoCommand
=============================================================================
