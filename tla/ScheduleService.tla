--------------------------- MODULE ScheduleService ---------------------------
(***************************************************************************)
(* The cloud schedule service: the operations of                           *)
(* ScheduleApplicationService (business/calendar/service.py) and of        *)
(* ReminderDispositionService (business/calendar/reminder_disposition.py), *)
(* run by concurrent database sessions over the schedules table            *)
(* (data/repositories/schedule.py) at PostgreSQL's default isolation,      *)
(* READ COMMITTED: every SELECT sees the last committed rows, an UPDATE    *)
(* waits for the row's lock and tests its WHERE clause on the committed    *)
(* row, the lock is held until the session commits or rolls back.          *)
(*                                                                         *)
(* A session is one unit of work.  Its statements are separate steps, so   *)
(* other sessions run between what it reads and what it writes.            *)
(***************************************************************************)
EXTENDS ScheduleRows

CONSTANTS
    Callers,      \* sessions of the agent tools and of the reminder-state route
    Workers,      \* sessions of the schedule-category executor
    MaxRevision,  \* bound: no command reads a row past this revision
    Ahead,        \* bound: no command names a revision further past that one
    NoSession     \* nobody holds the row's lock

ASSUME ScheduleServiceAssumption ==
    /\ Callers \cap Workers = {} /\ NoSession \notin Callers \cup Workers
    /\ MaxRevision \in Nat /\ Ahead \in Nat

Sessions == Callers \cup Workers

Operations == {"create", "update", "delete_once", "entire_series",
               "this_occurrence", "this_and_future", "confirm", "classify"}

Command == [operation : Operations,
            id        : Ids,
            expected  : Nat,             \* expected_revision
            changes   : Patch,
            now       : Occurrences,     \* the local date the command was taken at
            category  : Categories \cup {NoCategory}]

RangeScopes == {"this_occurrence", "this_and_future"}
SeriesScopes == RangeScopes \cup {"entire_series"}
Checked == {"update", "delete_once"} \cup SeriesScopes

VARIABLES
    store,      \* the committed row of every id
    overrides,  \* the committed occurrence overrides
    guesses,    \* history: how many guessed revisions were committed, by id
    dirty,      \* the uncommitted version of a locked row
    locks,      \* the session that holds the row's lock
    inserted,   \* overrides a session has inserted and not committed
    pc,         \* the statement a session runs next
    cmd,        \* the command it runs
    snap,       \* the row it read (service.py: current)
    seen,       \* the overrides of the series it read
    todo,       \* overrides whose replacement is still to be deleted
    victim,     \* the replacement it has read and is about to delete
    queued      \* schedules waiting in the category executor

vars == <<store, overrides, guesses, dirty, locks, inserted, pc, cmd, snap, seen,
          todo, victim, queued>>

table == <<store, overrides, guesses>>
local == <<cmd, snap, seen, todo, victim>>

PCs == {"idle", "overrides", "write", "replacement", "delete_replacement", "insert", "commit"}

AnyId == CHOOSE i \in Ids : TRUE
FirstDay == CHOOSE d \in Occurrences : \A e \in Occurrences : d <= e
NoCommand == [operation |-> "confirm", id |-> AnyId, expected |-> 0, changes |-> NoPatch,
              now |-> FirstDay, category |-> NoCategory]
NoVictim == [id |-> AnyId, row |-> Absent]

(* Bound: the revisions a caller may name, past and future ones.           *)
Named == 0 .. MaxRevision + Ahead

(* The command names a revision its row had not reached when it was read.  *)
(* Nothing compares the two, so it takes whatever is there when it writes. *)
Guessed(s) == cmd[s].operation \in Checked /\ cmd[s].expected > snap[s].revision

Target(s) == CHOOSE o \in Occurrences : o \in FirstActive(snap[s].rule, seen[s], cmd[s].now)
ReplacesAt(exceptions, occurrence) ==
    {e \in exceptions : e.occurrence = occurrence /\ e.replacement # Keep}

(* The row a revision-checked UPDATE writes, from the row as it was READ.  *)
Candidate(s) ==
    CASE cmd[s].operation = "update" -> Patched(snap[s], cmd[s].changes)
      [] cmd[s].operation \in {"delete_once", "entire_series"} -> Deleted(snap[s])
      [] cmd[s].operation = "this_occurrence" -> snap[s]
      [] OTHER ->
            IF Before(snap[s].rule, Target(s)) = {}
            THEN Deleted(snap[s])
            ELSE [snap[s] EXCEPT !.rule = Before(@, Target(s))]

(* The overrides whose replacements _soft_delete_replacements visits. *)
Doomed(s) ==
    CASE cmd[s].operation = "entire_series" -> {e \in seen[s] : e.replacement # Keep}
      [] cmd[s].operation = "this_occurrence" -> ReplacesAt(seen[s], Target(s))
      [] cmd[s].operation = "this_and_future" ->
            {e \in seen[s] : e.replacement # Keep /\ e.occurrence >= Target(s)}
      [] OTHER -> {}

------------------------------------------------------------------------------

Init ==
    /\ store \in [Ids -> Fresh \cup {Absent}] /\ FirstTable(store)
    /\ overrides = Replaced
    /\ guesses = [i \in Ids |-> 0]
    /\ dirty = [i \in Ids |-> Absent]
    /\ locks = [i \in Ids |-> NoSession]
    /\ inserted = [s \in Sessions |-> {}]
    /\ pc = [s \in Sessions |-> "idle"]
    /\ cmd = [s \in Sessions |-> NoCommand]
    /\ snap = [s \in Sessions |-> Absent]
    /\ seen = [s \in Sessions |-> {}]
    /\ todo = [s \in Sessions |-> {}]
    /\ victim = [s \in Sessions |-> NoVictim]
    /\ queued = {}

Goto(s, label) == pc' = [pc EXCEPT ![s] = label]

(* A plausible bug: the session is not closed on the way out. *)
CloseHoldingLocks(s) ==
    /\ Goto(s, "idle")
    /\ inserted' = [inserted EXCEPT ![s] = {}]
    /\ cmd' = [cmd EXCEPT ![s] = NoCommand]
    /\ snap' = [snap EXCEPT ![s] = Absent]
    /\ seen' = [seen EXCEPT ![s] = {}]
    /\ todo' = [todo EXCEPT ![s] = {}]
    /\ victim' = [victim EXCEPT ![s] = NoVictim]
    /\ UNCHANGED <<dirty, locks>>

(* The session ends: locks released, uncommitted versions and inserts gone *)
(* (or, after a commit, installed).                                        *)
Close(s) ==
    /\ Goto(s, "idle")
    /\ dirty' = [i \in Ids |-> IF locks[i] = s THEN Absent ELSE dirty[i]]
    /\ locks' = [i \in Ids |-> IF locks[i] = s THEN NoSession ELSE locks[i]]
    /\ inserted' = [inserted EXCEPT ![s] = {}]
    /\ cmd' = [cmd EXCEPT ![s] = NoCommand]
    /\ snap' = [snap EXCEPT ![s] = Absent]
    /\ seen' = [seen EXCEPT ![s] = {}]
    /\ todo' = [todo EXCEPT ![s] = {}]
    /\ victim' = [victim EXCEPT ![s] = NoVictim]

Rollback(s) == Close(s) /\ UNCHANGED <<table, queued>>

(* A statement writes row i; the row's lock must be free. *)
Put(s, i, row) ==
    /\ dirty' = [dirty EXCEPT ![i] = row]
    /\ locks' = [locks EXCEPT ![i] = s]

------------------------------------------------------------------------------

(* A command reaches the service and its first SELECT reads the active     *)
(* row.  The revision it names is any the caller gives (a model writes the *)
(* tools' arguments; they are checked to be integers of at least 0 only).  *)
(* A command refused by what was read (no such row, wrong kind, invalid    *)
(* patch) ends here, with no effect.                                       *)
Begin(s, operation, i, expected, changes, now) ==
    /\ pc[s] = "idle"
    /\ store[i].status = "active" /\ store[i].revision <= MaxRevision
    /\ cmd' = [cmd EXCEPT ![s] = [operation |-> operation, id |-> i, expected |-> expected,
                                  changes |-> changes, now |-> now, category |-> NoCategory]]
    /\ snap' = [snap EXCEPT ![s] = store[i]]
    /\ Goto(s, IF operation \in SeriesScopes THEN "overrides" ELSE "write")
    /\ UNCHANGED <<table, dirty, locks, inserted, seen, todo, victim, queued>>

BeginUpdate(s) ==
    \E i \in Ids, changes \in Patches :
        /\ ValidRow(i, Patched(store[i], changes))
        /\ \E expected \in Named :
               Begin(s, "update", i, expected, changes, FirstDay)

BeginDelete(s) ==
    \/ \E i \in Once : \E expected \in Named :
            Begin(s, "delete_once", i, expected, NoPatch, FirstDay)
    \/ \E i \in Series, scope \in SeriesScopes, now \in Occurrences :
        \E expected \in Named :
            Begin(s, scope, i, expected, NoPatch, now)

BeginConfirm(s) ==
    \E i \in Ids : /\ store[i].reminder = "set" /\ store[i].disposition = "none"
                  /\ Begin(s, "confirm", i, 0, NoPatch, FirstDay)

(* create_schedule: validation, then INSERT under a fresh id. *)
Create(s) ==
    /\ pc[s] = "idle"
    /\ \E i \in Ids, row \in Fresh :
        /\ store[i] = Absent /\ locks[i] = NoSession
        /\ ValidRow(i, row)
        /\ Put(s, i, row)
        /\ cmd' = [cmd EXCEPT ![s] = [NoCommand EXCEPT !.operation = "create", !.id = i]]
    /\ Goto(s, "commit")
    /\ UNCHANGED <<table, inserted, snap, seen, todo, victim, queued>>

(* The executor runs a queued classification; no category ends it there.   *)
StartClassify(s, i, category) ==
    /\ pc[s] = "idle"
    /\ i \in queued
    /\ queued' = queued \ {i}
    /\ IF category = NoCategory
       THEN UNCHANGED <<pc, cmd>>
       ELSE /\ Goto(s, "write")
            /\ cmd' = [cmd EXCEPT ![s] = [NoCommand EXCEPT !.operation = "classify", !.id = i,
                                                           !.category = category]]
    /\ UNCHANGED <<table, dirty, locks, inserted, snap, seen, todo, victim>>

(* list_occurrence_overrides, a SELECT of its own. *)
ReadOverrides(s) ==
    LET exceptions == {o \in overrides : o.schedule = cmd[s].id} IN
    /\ pc[s] = "overrides"
    /\ IF /\ cmd[s].operation \in RangeScopes
          /\ FirstActive(snap[s].rule, exceptions, cmd[s].now) = {}
       THEN Rollback(s)
       ELSE /\ seen' = [seen EXCEPT ![s] = exceptions]
            /\ Goto(s, "write")
            /\ UNCHANGED <<table, dirty, locks, inserted, cmd, snap, todo, victim,
                           queued>>

(* After the schedule's own UPDATE: the replacements, the CANCEL override  *)
(* or the commit.                                                          *)
AfterUpdate(s) ==
    CASE Doomed(s) # {} -> "replacement"
      [] Doomed(s) = {} /\ cmd[s].operation = "this_occurrence" -> "insert"
      [] OTHER -> "commit"

(* A plausible bug: the revision is not in the WHERE clause. *)
UpdateUnchecked(s) ==
    /\ pc[s] = "write" /\ cmd[s].operation \in Checked
    /\ locks[cmd[s].id] = NoSession
    /\ Put(s, cmd[s].id, [Candidate(s) EXCEPT !.revision = store[cmd[s].id].revision + 1])
    /\ todo' = [todo EXCEPT ![s] = Doomed(s)]
    /\ Goto(s, AfterUpdate(s))
    /\ UNCHANGED <<table, inserted, cmd, snap, seen, victim, queued>>

(* repository.update_schedule: UPDATE ... WHERE revision = expected, with  *)
(* every mutable column taken from the candidate.                          *)
UpdateSchedule(s) ==
    LET i == cmd[s].id IN
    /\ pc[s] = "write" /\ cmd[s].operation \in Checked
    /\ locks[i] = NoSession
    /\ IF store[i].revision # cmd[s].expected
       THEN Rollback(s)
       ELSE /\ Put(s, i, [Candidate(s) EXCEPT !.revision = store[i].revision + 1])
            /\ todo' = [todo EXCEPT ![s] = Doomed(s)]
            /\ Goto(s, AfterUpdate(s))
            /\ UNCHANGED <<table, inserted, cmd, snap, seen, victim, queued>>

(* A plausible bug: the UPDATE does not test the status again. *)
ConfirmDeleted(s) ==
    LET i == cmd[s].id IN
    /\ pc[s] = "write" /\ cmd[s].operation = "confirm"
    /\ locks[i] = NoSession
    /\ Put(s, i, [Bump(store[i]) EXCEPT !.disposition = "confirmed"])
    /\ Goto(s, "commit")
    /\ UNCHANGED <<table, inserted, local, queued>>

(* repository.confirm_reminder_disposition: a conditional UPDATE of the    *)
(* row's current version.  When it matches nothing the row is read again   *)
(* for the answer, and nothing is written.                                 *)
ConfirmReminder(s) ==
    LET i == cmd[s].id IN
    /\ pc[s] = "write" /\ cmd[s].operation = "confirm"
    /\ locks[i] = NoSession
    /\ IF /\ store[i].status = "active"
          /\ store[i].reminder = "set"
          /\ store[i].disposition = "none"
       THEN /\ Put(s, i, [Bump(store[i]) EXCEPT !.disposition = "confirmed"])
            /\ Goto(s, "commit")
            /\ UNCHANGED <<table, inserted, local, queued>>
       ELSE Rollback(s)

(* repository.set_schedule_category_if_unclassified: no revision. *)
SetCategory(s) ==
    LET i == cmd[s].id IN
    /\ pc[s] = "write" /\ cmd[s].operation = "classify"
    /\ locks[i] = NoSession
    /\ IF store[i].status = "active" /\ store[i].category = NoCategory
       THEN /\ Put(s, i, [store[i] EXCEPT !.category = cmd[s].category])
            /\ Goto(s, "commit")
            /\ UNCHANGED <<table, inserted, local, queued>>
       ELSE Rollback(s)

(* _soft_delete_replacements, in the order of the overrides: read the      *)
(* replacement, skip it when it is gone, ...                               *)
ReadReplacement(s) ==
    /\ pc[s] = "replacement"
    /\ \E e \in todo[s] :
        LET left == {d \in todo[s] : d.replacement # e.replacement} IN
        /\ \A d \in todo[s] : e.occurrence <= d.occurrence
        /\ todo' = [todo EXCEPT ![s] = left]
        /\ IF store[e.replacement].status = "active"
           THEN /\ victim' = [victim EXCEPT ![s] = [id |-> e.replacement,
                                                    row |-> store[e.replacement]]]
                /\ Goto(s, "delete_replacement")
           ELSE /\ Goto(s, IF left = {} THEN "commit" ELSE "replacement")
                /\ UNCHANGED victim
    /\ UNCHANGED <<table, dirty, locks, inserted, cmd, snap, seen, queued>>

(* A plausible bug: a replacement that has changed is skipped. *)
DeleteReplacementIfUnchanged(s) ==
    /\ pc[s] = "delete_replacement"
    /\ locks[victim[s].id] = NoSession
    /\ Goto(s, IF todo[s] = {} THEN "commit" ELSE "replacement")
    /\ IF store[victim[s].id].revision # victim[s].row.revision
       THEN UNCHANGED <<dirty, locks>>
       ELSE Put(s, victim[s].id, Bump(Deleted(victim[s].row)))
    /\ UNCHANGED <<table, inserted, local, queued>>

(* ... then update it at its own revision; a conflict undoes everything.   *)
DeleteReplacement(s) ==
    LET i == victim[s].id IN
    /\ pc[s] = "delete_replacement"
    /\ locks[i] = NoSession
    /\ IF store[i].revision # victim[s].row.revision
       THEN Rollback(s)
       ELSE /\ Put(s, i, Bump(Deleted(victim[s].row)))
            /\ Goto(s, IF todo[s] = {} THEN "commit" ELSE "replacement")
            /\ UNCHANGED <<table, inserted, local, queued>>

(* add_occurrence_override, under the unique constraint on (schedule,      *)
(* occurrence): an uncommitted row with the same key makes it wait.        *)
InsertOverride(s) ==
    \E occurrence \in FirstActive(snap[s].rule, seen[s], cmd[s].now) :
        /\ pc[s] = "insert"
        /\ \A t \in Sessions : ~ HasOverride(inserted[t], cmd[s].id, occurrence)
        /\ IF HasOverride(overrides, cmd[s].id, occurrence)
           THEN Rollback(s)
           ELSE /\ inserted' = [inserted EXCEPT ![s] =
                       {[schedule |-> cmd[s].id, occurrence |-> occurrence,
                         replacement |-> Keep]}]
                /\ Goto(s, "commit")
                /\ UNCHANGED <<table, dirty, locks, local, queued>>

(* unit_of_work.commit(); a created schedule then goes to the classifier.  *)
Commit(s) ==
    /\ pc[s] = "commit"
    /\ store' = [i \in Ids |-> IF locks[i] = s THEN dirty[i] ELSE store[i]]
    /\ overrides' = overrides \cup inserted[s]
    /\ guesses' = IF Guessed(s) THEN [guesses EXCEPT ![cmd[s].id] = @ + 1] ELSE guesses
    /\ queued' = IF cmd[s].operation = "create" THEN queued \cup {cmd[s].id} ELSE queued
    /\ Close(s)

(* Any statement may fail (connection lost, process stopped): the unit of  *)
(* work rolls back.                                                        *)
Fail(s) ==
    /\ pc[s] # "idle"
    /\ Rollback(s)

(* The process restarts: every session is lost, and the executor's queue.  *)
Restart ==
    /\ dirty' = [i \in Ids |-> Absent]
    /\ locks' = [i \in Ids |-> NoSession]
    /\ inserted' = [s \in Sessions |-> {}]
    /\ pc' = [s \in Sessions |-> "idle"]
    /\ cmd' = [s \in Sessions |-> NoCommand]
    /\ snap' = [s \in Sessions |-> Absent]
    /\ seen' = [s \in Sessions |-> {}]
    /\ todo' = [s \in Sessions |-> {}]
    /\ victim' = [s \in Sessions |-> NoVictim]
    /\ queued' = {}
    /\ UNCHANGED table

Statement(s) ==
    \/ ReadOverrides(s) \/ UpdateSchedule(s) \/ ConfirmReminder(s)
    \/ SetCategory(s) \/ ReadReplacement(s) \/ DeleteReplacement(s) \/ InsertOverride(s)
    \/ Commit(s)

Next ==
    \/ \E s \in Sessions : Statement(s) \/ Fail(s)
    \/ \E s \in Callers : BeginUpdate(s) \/ BeginDelete(s) \/ BeginConfirm(s) \/ Create(s)
    \/ \E s \in Workers, i \in Ids, category \in Categories \cup {NoCategory} :
            StartClassify(s, i, category)
    \/ Restart

Spec == Init /\ [][Next]_vars

(* A statement waiting for a row lock stands in PostgreSQL's queue for it: *)
(* it is served although others keep coming.                               *)
FairSpec == Spec /\ \A s \in Sessions : SF_vars(Statement(s))

------------------------------------------------------------------------------

TypeOK ==
    /\ store \in [Ids -> Row]
    /\ overrides \in SUBSET Override
    /\ guesses \in [Ids -> Nat]
    /\ dirty \in [Ids -> Row]
    /\ locks \in [Ids -> Sessions \cup {NoSession}]
    /\ inserted \in [Sessions -> SUBSET Override]
    /\ pc \in [Sessions -> PCs]
    /\ cmd \in [Sessions -> Command]
    /\ snap \in [Sessions -> Row]
    /\ seen \in [Sessions -> SUBSET Override]
    /\ todo \in [Sessions -> SUBSET {o \in Override : o.replacement # Keep}]
    /\ victim \in [Sessions -> [id : Ids, row : Row]]
    /\ queued \in SUBSET Ids

(* Concurrent units of work are serializable at their commits: whatever    *)
(* sessions interleave, fail or restart, the committed tables change as if *)
(* each successful command had run alone on the rows of that moment, whole *)
(* or not at all.  The revision in the WHERE clause of update_schedule is  *)
(* what makes writing back the row read earlier safe.  A command that      *)
(* guessed its revision gets past it; its damage stays within its schedule *)
(* and that schedule's replacements.                                       *)
Ledger == INSTANCE ScheduleLedger
ImplementsLedger == Ledger!Spec

SameButCategory(a, b) ==
    /\ a.status = b.status /\ a.title = b.title /\ a.reminder = b.reminder
    /\ a.disposition = b.disposition /\ a.rule = b.rule

(* A deleted schedule is not written again: no late update, confirmation   *)
(* or classification that read it while it was active brings it back or    *)
(* touches it, except a command that guessed the revision it has now.      *)
DeletedIsFinal ==
    [][\A i \in Ids : store[i].status = "deleted" =>
          store'[i] = store[i] \/ guesses'[i] = guesses[i] + 1]_vars

(* Two rows with one revision differ in the category at most; any other    *)
(* change, guessed or not, counts the revision up by one.  Clients compare *)
(* revisions to decide which copy of a schedule is newer.                  *)
RevisionCounts ==
    [][\A i \in Ids :
         \/ store'[i].revision = store[i].revision + 1
         \/ store'[i].revision = store[i].revision /\ SameButCategory(store'[i], store[i])]_vars

(* The versions of a schedule make one line, which ends with its deletion  *)
(* unless a guess goes on from there.                                      *)
VersionsAdvance == DeletedIsFinal /\ RevisionCounts

(* What the revision check is worth.  A row read and about to be written   *)
(* back is an older one or still the current one, but for its category.    *)
StillCurrent(row, i) ==
    /\ row.status = "active"
    /\ row.revision <= store[i].revision
    /\ row.revision = store[i].revision => SameButCategory(row, store[i])

ReadsHold ==
    \A s \in Sessions :
        /\ pc[s] \in {"overrides", "write"} /\ cmd[s].operation \in Checked =>
              StillCurrent(snap[s], cmd[s].id)
        /\ pc[s] = "delete_replacement" => StillCurrent(victim[s].row, victim[s].id)

(* A row is locked by a session that has written it.  The version about to *)
(* replace it is the next one, or the same with a category; it was made    *)
(* from the row that is still there, unless the revision was guessed, and  *)
(* a session that has not read that row itself does not bring it back.     *)
LockHolds(i) ==
    LET s == locks[i] IN
    /\ pc[s] \notin {"idle", "overrides", "write"}
    /\ \/ dirty[i].revision = store[i].revision + 1
       \/ dirty[i].revision = store[i].revision /\ SameButCategory(dirty[i], store[i])
    /\ IF cmd[s].operation \in Checked /\ cmd[s].id = i
       THEN \/ Guessed(s)
            \/ snap[s].revision = store[i].revision /\ StillCurrent(snap[s], i)
       ELSE store[i].status # "deleted"

LocksHold == \A i \in Ids : locks[i] # NoSession => LockHolds(i)

RevisionGuards == ReadsHold /\ LocksHold

(* Two deletions of "this occurrence" that name a revision the row had     *)
(* reached never pick the same occurrence, nor one that a third deletion,  *)
(* guessed or not, has cancelled: the unique constraint on (schedule,      *)
(* occurrence) is not hit, although the overrides were read before the row *)
(* was locked.                                                             *)
InsertNeverCollides ==
    \A s \in Sessions : pc[s] = "insert" /\ ~ Guessed(s) =>
        \A o \in FirstActive(snap[s].rule, seen[s], cmd[s].now) :
            /\ ~ HasOverride(overrides, cmd[s].id, o)
            /\ \A t \in Sessions : ~ HasOverride(inserted[t], cmd[s].id, o)

(* Every command that started comes to an end: the row locks that several  *)
(* units of work take one after the other never wait in a circle.          *)
CommandsEnd == \A s \in Sessions : pc[s] # "idle" ~> pc[s] = "idle"

(* What the docstring of update_schedule says: "Apply only explicitly      *)
(* supplied mutable fields and increment revision."  The category is not   *)
(* one an update can supply, so once set it should stay.                   *)
CategoryKept ==
    [][\A i \in Ids : store[i].category # NoCategory =>
          store'[i].category = store[i].category]_vars

(* The same docstring of the fields an update can supply: one that is not  *)
(* in the patch keeps the value it has when the update commits.            *)
OnlySuppliedFields ==
    [][\A s \in Sessions : LET i == cmd[s].id IN
          cmd[s].operation = "update" /\ store'[i] # store[i] /\ Commit(s) =>
             /\ store'[i].status = store[i].status
             /\ cmd[s].changes.title = Keep => store'[i].title = store[i].title
             /\ cmd[s].changes.reminder = Keep => store'[i].reminder = store[i].reminder
             /\ cmd[s].changes.rule = {} => store'[i].rule = store[i].rule]_vars

(* No deleted schedule comes back.                                         *)
NothingRevived ==
    [][\A i \in Ids : store[i].status = "deleted" => store'[i] = store[i]]_vars

=============================================================================
