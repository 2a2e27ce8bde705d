---------------------------- MODULE ScheduleRows ----------------------------
(***************************************************************************)
(* The rows of the cloud schedule tables and the pure operators the        *)
(* schedule service computes with: applying a patch, validating a row,     *)
(* selecting the first active occurrence of a recurring schedule and       *)
(* cutting its rule.                                                       *)
(***************************************************************************)
EXTENDS Integers, FiniteSets

CONSTANTS
    Once,         \* ids of one-time schedules
    Series,       \* ids of recurring schedules
    Titles,       \* a field an update replaces; stands for every plain field
    Categories,   \* the values the classifier may answer
    Occurrences,  \* the instants recurring schedules occur at, in order
    Replaced,     \* REPLACE overrides present from the start (the service writes none)
    Rules,        \* the rules a command may give a recurring schedule
    Patches,      \* the patches an update command may carry
    Keep,         \* "this key is not in the patch"; as a replacement: there is none
    NoCategory    \* the category column is NULL

Ids == Once \cup Series

(* A rule is the set of instants its RRULE expands to from start_time; a   *)
(* one-time schedule has the empty one.                                    *)
Row == [status      : {"absent", "active", "deleted"},
        revision    : Nat,
        category    : Categories \cup {NoCategory},
        title       : Titles,
        reminder    : {"none", "set"},          \* reminder_type
        disposition : {"none", "confirmed"},    \* reminder_disposition_state
        rule        : SUBSET Occurrences]

(* replacement = Keep is a CANCEL override. *)
Override == [schedule : Ids, occurrence : Occurrences, replacement : Once \cup {Keep}]

(* ScheduleUpdatePatch; rule holds the given rule, or nothing. *)
Patch == [title    : Titles \cup {Keep},
          reminder : {"none", "set", Keep},
          rule     : {{}} \cup {{u} : u \in SUBSET Occurrences}]

NoPatch == [title |-> Keep, reminder |-> Keep, rule |-> {}]

ASSUME ScheduleRowsAssumption ==
    /\ Once \cap Series = {} /\ Ids # {}
    /\ Keep \notin Once \cup Titles \cup {"none", "set"}
    /\ NoCategory \notin Categories
    /\ Titles # {}
    /\ Occurrences \subseteq Int /\ Occurrences # {}
    /\ \E d \in Occurrences : \A e \in Occurrences : d <= e
    /\ Rules \subseteq (SUBSET Occurrences) \ {{}}
    /\ Patches \subseteq Patch \ {NoPatch}
    /\ Replaced \subseteq {o \in Override : o.schedule \in Series /\ o.replacement # Keep}
    /\ \A o, p \in Replaced : o.schedule = p.schedule /\ o.occurrence = p.occurrence => o = p

AnyTitle == CHOOSE x \in Titles : TRUE
Absent == [status |-> "absent", revision |-> 0, category |-> NoCategory, title |-> AnyTitle,
           reminder |-> "none", disposition |-> "none", rule |-> {}]

(* The rows create_schedule inserts, and those of the starting database. *)
Fresh == {[status |-> "active", revision |-> 1, category |-> NoCategory, title |-> t,
           reminder |-> r, disposition |-> "none", rule |-> u] :
             t \in Titles, r \in {"none", "set"}, u \in Rules \cup {{}}}

(* A plausible bug: a key missing from the patch is written as it is. *)
MergeMissing(new, old) == new

Merge(new, old) == IF new = Keep THEN old ELSE new

(* update_schedule: replace(current, **changes); clearing reminder_type    *)
(* clears the disposition, nothing else does.                              *)
Patched(row, changes) ==
    [row EXCEPT !.title = Merge(changes.title, @),
                !.reminder = Merge(changes.reminder, @),
                !.rule = IF changes.rule = {} THEN @ ELSE UNION changes.rule,
                !.disposition = IF changes.reminder = "none" THEN "none" ELSE @]

(* validate_schedule_snapshot, as far as the model's fields go. *)
ValidRow(id, row) ==
    /\ id \in Series <=> row.rule # {}
    /\ row.reminder = "none" => row.disposition = "none"

Deleted(row) == [row EXCEPT !.status = "deleted"]

(* first_active_occurrence_on_or_after_local_date: a set of at most one    *)
(* occurrence.  A replaced occurrence still counts, a cancelled one not.   *)
Remaining(rule, exceptions, now) ==
    {o \in rule : /\ o >= now
                  /\ \A e \in exceptions : e.occurrence = o => e.replacement # Keep}
FirstActive(rule, exceptions, now) ==
    {o \in Remaining(rule, exceptions, now) :
        \A p \in Remaining(rule, exceptions, now) : o <= p}
Before(rule, occurrence) == {o \in rule : o < occurrence}

Bump(row) == [row EXCEPT !.revision = @ + 1]

HasOverride(exceptions, schedule, occurrence) ==
    \E e \in exceptions : e.schedule = schedule /\ e.occurrence = occurrence

(* The database before the first command: the rows Replaced speaks of. *)
Seeded == {o.schedule : o \in Replaced} \cup {o.replacement : o \in Replaced}
FirstTable(table) ==
    /\ \A i \in Seeded : table[i] \in Fresh /\ ValidRow(i, table[i])
    /\ \A i \in Ids \ Seeded : table[i] = Absent
=============================================================================
