------------------------ MODULE ScheduleServiceProofs ------------------------
(***************************************************************************)
(* Theorems about ScheduleService, for every set of sessions, schedules    *)
(* and values, and whatever revisions the commands name: type correctness; *)
(* that only a guessed revision writes a deleted schedule again, and the   *)
(* revision counts every change but the category's; that the unique        *)
(* constraint on the overrides is hit by guesses only; and that the        *)
(* committed tables change as ScheduleLedger says.                         *)
(***************************************************************************)
EXTENDS ScheduleService, TLAPS

(* The constants the starting state and the idle sessions are made of. *)
LEMMA DefaultsType ==
    /\ AnyId \in Ids /\ FirstDay \in Occurrences
    /\ NoPatch \in Patch /\ Absent \in Row
    /\ NoCommand \in Command /\ NoVictim \in [id : Ids, row : Row]
<1>1. AnyId \in Ids
  BY ScheduleRowsAssumption DEF AnyId
<1>2. FirstDay \in Occurrences
  BY ScheduleRowsAssumption DEF FirstDay
<1>3. NoPatch \in Patch
  BY DEF NoPatch, Patch
<1>4. Absent \in Row
  BY ScheduleRowsAssumption DEF Absent, AnyTitle, Row
<1> QED
  BY <1>1, <1>2, <1>3, <1>4 DEF NoCommand, NoVictim, Command, Operations, Checked,
     SeriesScopes, RangeScopes

LEMMA NamedType == Named \subseteq Nat
BY ScheduleServiceAssumption DEF Named

LEMMA FreshType == \A row \in Fresh : row \in Row /\ row.status = "active"
<1> SUFFICES ASSUME NEW t \in Titles, NEW r \in {"none", "set"}, NEW u \in Rules \cup {{}},
                    NEW row,
                    row = [status |-> "active", revision |-> 1, category |-> NoCategory,
                           title |-> t, reminder |-> r, disposition |-> "none", rule |-> u]
             PROVE  row \in Row /\ row.status = "active"
  BY DEF Fresh
<1>1. u \in SUBSET Occurrences
  BY ScheduleRowsAssumption
<1> QED
  BY <1>1 DEF Row

(* Applying a patch to a row, deleting it, counting it up give rows. *)
LEMMA RowOperators ==
    ASSUME NEW row \in Row
    PROVE  /\ \A changes \in Patch : Patched(row, changes) \in Row
           /\ Deleted(row) \in Row
           /\ Bump(row) \in Row
           /\ \A o : [row EXCEPT !.rule = Before(@, o)] \in Row
<1>1. ASSUME NEW changes \in Patch PROVE Patched(row, changes) \in Row
  <2>1. Merge(changes.title, row.title) \in Titles
    BY DEF Merge, Patch, Row
  <2>2. Merge(changes.reminder, row.reminder) \in {"none", "set"}
    BY DEF Merge, Patch, Row
  <2>3. (IF changes.rule = {} THEN row.rule ELSE UNION changes.rule) \in SUBSET Occurrences
    BY DEF Patch, Row
  <2>4. (IF changes.reminder = "none" THEN "none" ELSE row.disposition) \in {"none", "confirmed"}
    BY DEF Row
  <2> QED
    BY <2>1, <2>2, <2>3, <2>4 DEF Patched, Row
<1>2. Deleted(row) \in Row /\ Bump(row) \in Row
  BY DEF Deleted, Bump, Row
<1>3. ASSUME NEW o PROVE [row EXCEPT !.rule = Before(@, o)] \in Row
  BY DEF Before, Row
<1> QED
  BY <1>1, <1>2, <1>3

(* The row a revision-checked UPDATE writes is a row. *)
LEMMA CandidateType ==
    ASSUME TypeOK, NEW s \in Sessions
    PROVE  Candidate(s) \in Row /\ Doomed(s) \in SUBSET {o \in Override : o.replacement # Keep}
<1>1. snap[s] \in Row /\ cmd[s].changes \in Patch /\ seen[s] \in SUBSET Override
  BY DEF TypeOK, Command
<1>2. Candidate(s) \in Row
  BY <1>1, RowOperators DEF Candidate
<1>3. Doomed(s) \in SUBSET {o \in Override : o.replacement # Keep}
  BY <1>1 DEF Doomed, ReplacesAt
<1> QED
  BY <1>2, <1>3

(* Closing a session keeps the types of the session's variables. *)
LEMMA CloseType ==
    ASSUME TypeOK, NEW s \in Sessions, Close(s)
    PROVE  /\ dirty' \in [Ids -> Row]
           /\ locks' \in [Ids -> Sessions \cup {NoSession}]
           /\ inserted' \in [Sessions -> SUBSET Override]
           /\ pc' \in [Sessions -> PCs]
           /\ cmd' \in [Sessions -> Command]
           /\ snap' \in [Sessions -> Row]
           /\ seen' \in [Sessions -> SUBSET Override]
           /\ todo' \in [Sessions -> SUBSET {o \in Override : o.replacement # Keep}]
           /\ victim' \in [Sessions -> [id : Ids, row : Row]]
BY DefaultsType DEF TypeOK, Close, Goto, PCs

LEMMA RollbackType ==
    ASSUME TypeOK, NEW s \in Sessions, Rollback(s)
    PROVE  TypeOK'
BY CloseType DEF TypeOK, Rollback, table

LEMMA InitType == Init => TypeOK
<1> SUFFICES ASSUME Init PROVE TypeOK
  OBVIOUS
<1>1. store \in [Ids -> Row]
  BY DefaultsType, FreshType DEF Init
<1>2. overrides \in SUBSET Override
  BY ScheduleRowsAssumption DEF Init
<1> QED
  BY <1>1, <1>2, DefaultsType DEF Init, TypeOK, PCs

(***************************************************************************)
(* Type correctness: whatever the sessions do, every variable holds a      *)
(* value of its type; in particular no row ever holds the "not in the      *)
(* patch" marker of an update.                                             *)
(***************************************************************************)
LEMMA TypeStep == TypeOK /\ [Next]_vars => TypeOK'
<1> SUFFICES ASSUME TypeOK, [Next]_vars PROVE TypeOK'
  OBVIOUS
<1>1. ASSUME NEW s \in Callers, NEW operation \in Checked \cup {"confirm"}, NEW i \in Ids,
             NEW expected \in Nat, NEW changes \in Patch, NEW now \in Occurrences,
             Begin(s, operation, i, expected, changes, now)
      PROVE  TypeOK'
  <2>1. [operation |-> operation, id |-> i, expected |-> expected, changes |-> changes,
         now |-> now, category |-> NoCategory] \in Command
    BY <1>1 DEF Command, Operations, Checked, SeriesScopes, RangeScopes
  <2>2. s \in Sessions /\ store[i] \in Row
    BY <1>1 DEF TypeOK, Sessions
  <2> QED
    BY <1>1, <2>1, <2>2 DEF TypeOK, Begin, Goto, table, PCs
<1>2. ASSUME NEW s \in Callers, BeginUpdate(s) PROVE TypeOK'
  <2>1. PICK i \in Ids, changes \in Patches :
            \E expected \in Named :
                Begin(s, "update", i, expected, changes, FirstDay)
    BY <1>2 DEF BeginUpdate
  <2>2. PICK expected \in Named :
            Begin(s, "update", i, expected, changes, FirstDay)
    BY <2>1
  <2>3. expected \in Nat
    BY NamedType
  <2> QED
    BY <1>1, <2>2, <2>3, DefaultsType, ScheduleRowsAssumption DEF Checked
<1>3. ASSUME NEW s \in Callers, BeginDelete(s) PROVE TypeOK'
  <2>1. PICK i \in Ids, operation \in Checked, now \in Occurrences :
            \E expected \in Named :
                Begin(s, operation, i, expected, NoPatch, now)
    BY <1>3, DefaultsType DEF BeginDelete, Checked, Ids
  <2>2. PICK expected \in Named : Begin(s, operation, i, expected, NoPatch, now)
    BY <2>1
  <2>3. expected \in Nat
    BY NamedType
  <2> QED
    BY <1>1, <2>2, <2>3, DefaultsType
<1>4. ASSUME NEW s \in Callers, BeginConfirm(s) PROVE TypeOK'
  BY <1>1, <1>4, DefaultsType DEF BeginConfirm
<1>5. ASSUME NEW s \in Callers, Create(s) PROVE TypeOK'
  <2>1. PICK i \in Ids, row \in Fresh :
          /\ Put(s, i, row)
          /\ cmd' = [cmd EXCEPT ![s] = [NoCommand EXCEPT !.operation = "create", !.id = i]]
    BY <1>5 DEF Create
  <2>2. [NoCommand EXCEPT !.operation = "create", !.id = i] \in Command
    BY DefaultsType DEF Command, Operations
  <2> QED
    BY <1>5, <2>1, <2>2, FreshType DEF Create, Put, Goto, TypeOK, Sessions, table, PCs
<1>6. ASSUME NEW s \in Workers, NEW i \in Ids, NEW category \in Categories \cup {NoCategory},
             StartClassify(s, i, category)
      PROVE  TypeOK'
  <2>1. [NoCommand EXCEPT !.operation = "classify", !.id = i, !.category = category] \in Command
    BY DefaultsType DEF Command, Operations
  <2> QED
    BY <1>6, <2>1 DEF StartClassify, Goto, TypeOK, Sessions, table, PCs
<1>7. ASSUME NEW s \in Sessions, ReadOverrides(s) PROVE TypeOK'
  BY <1>7, RollbackType DEF ReadOverrides, Goto, TypeOK, table, PCs
<1>8. ASSUME NEW s \in Sessions, UpdateSchedule(s) PROVE TypeOK'
  <2>1. cmd[s].id \in Ids /\ store[cmd[s].id].revision + 1 \in Nat
    BY DEF TypeOK, Command, Row
  <2>2. [Candidate(s) EXCEPT !.revision = store[cmd[s].id].revision + 1] \in Row
    BY <2>1, CandidateType DEF Row
  <2>3. AfterUpdate(s) \in PCs
    BY DEF AfterUpdate, PCs
  <2>4. CASE Rollback(s)
    BY <2>4, RollbackType
  <2>5. CASE ~ Rollback(s)
    <3> DEFINE row == [Candidate(s) EXCEPT !.revision = store[cmd[s].id].revision + 1]
    <3>1. /\ Put(s, cmd[s].id, row)
          /\ todo' = [todo EXCEPT ![s] = Doomed(s)]
          /\ Goto(s, AfterUpdate(s))
          /\ UNCHANGED <<table, inserted, cmd, snap, seen, victim, queued>>
      BY <1>8, <2>5 DEF UpdateSchedule
    <3>2. row \in Row
      BY <2>2
    <3> HIDE DEF row
    <3> QED
      BY <2>1, <2>3, <3>1, <3>2, CandidateType DEF Put, Goto, TypeOK, table
  <2> QED
    BY <2>4, <2>5
<1>9. ASSUME NEW s \in Sessions, ConfirmReminder(s) PROVE TypeOK'
  <2>1. cmd[s].id \in Ids /\ store[cmd[s].id] \in Row
    BY DEF TypeOK, Command
  <2>2. [Bump(store[cmd[s].id]) EXCEPT !.disposition = "confirmed"] \in Row
    <3>1. PICK row \in Row : row = Bump(store[cmd[s].id])
      BY <2>1, RowOperators
    <3>2. [row EXCEPT !.disposition = "confirmed"] \in Row
      BY DEF Row
    <3> QED
      BY <3>1, <3>2
  <2>3. CASE Rollback(s)
    BY <2>3, RollbackType
  <2>4. CASE ~ Rollback(s)
    <3>1. /\ Put(s, cmd[s].id, [Bump(store[cmd[s].id]) EXCEPT !.disposition = "confirmed"])
          /\ Goto(s, "commit")
          /\ UNCHANGED <<table, inserted, local, queued>>
      BY <1>9, <2>4 DEF ConfirmReminder
    <3> QED
      BY <2>1, <2>2, <3>1 DEF Put, Goto, TypeOK, table, local, PCs
  <2> QED
    BY <2>3, <2>4
<1>10. ASSUME NEW s \in Sessions, SetCategory(s) PROVE TypeOK'
  <2>1. cmd[s].id \in Ids /\ store[cmd[s].id] \in Row
    BY DEF TypeOK, Command
  <2>2. [store[cmd[s].id] EXCEPT !.category = cmd[s].category] \in Row
    <3>1. cmd[s].category \in Categories \cup {NoCategory}
      BY DEF TypeOK, Command
    <3> QED
      BY <2>1, <3>1 DEF Row
  <2>3. CASE Rollback(s)
    BY <2>3, RollbackType
  <2>4. CASE ~ Rollback(s)
    <3>1. /\ Put(s, cmd[s].id, [store[cmd[s].id] EXCEPT !.category = cmd[s].category])
          /\ Goto(s, "commit")
          /\ UNCHANGED <<table, inserted, local, queued>>
      BY <1>10, <2>4 DEF SetCategory
    <3> QED
      BY <2>1, <2>2, <3>1 DEF Put, Goto, TypeOK, table, local, PCs
  <2> QED
    BY <2>3, <2>4
<1>11. ASSUME NEW s \in Sessions, ReadReplacement(s) PROVE TypeOK'
  <2>1. PICK e \in todo[s] :
          /\ todo' = [todo EXCEPT ![s] = {d \in todo[s] : d.replacement # e.replacement}]
          /\ IF store[e.replacement].status = "active"
             THEN /\ victim' = [victim EXCEPT ![s] = [id |-> e.replacement,
                                                      row |-> store[e.replacement]]]
                  /\ Goto(s, "delete_replacement")
             ELSE /\ Goto(s, IF {d \in todo[s] : d.replacement # e.replacement} = {}
                             THEN "commit" ELSE "replacement")
                  /\ UNCHANGED victim
    BY <1>11 DEF ReadReplacement
  <2>2. todo[s] \in SUBSET {o \in Override : o.replacement # Keep}
    BY DEF TypeOK
  <2> QED
    <3>1. /\ e.replacement \in Ids
          /\ {d \in todo[s] : d.replacement # e.replacement}
                \in SUBSET {o \in Override : o.replacement # Keep}
      BY <2>2 DEF Override, Ids
    <3>2. todo' \in [Sessions -> SUBSET {o \in Override : o.replacement # Keep}]
      BY <2>1, <3>1 DEF TypeOK
    <3>3. victim' \in [Sessions -> [id : Ids, row : Row]]
      <4>1. store[e.replacement] \in Row /\ victim \in [Sessions -> [id : Ids, row : Row]]
        BY <3>1 DEF TypeOK
      <4> QED
        BY <2>1, <3>1, <4>1
    <3>4. pc' \in [Sessions -> PCs]
      BY <2>1 DEF Goto, TypeOK, PCs
    <3> QED
      BY <1>11, <3>2, <3>3, <3>4 DEF ReadReplacement, TypeOK, table
<1>12. ASSUME NEW s \in Sessions, DeleteReplacement(s) PROVE TypeOK'
  <2>1. victim[s].id \in Ids /\ Bump(Deleted(victim[s].row)) \in Row
    BY RowOperators DEF TypeOK
  <2>2. CASE Rollback(s)
    BY <2>2, RollbackType
  <2>3. CASE ~ Rollback(s)
    <3>1. /\ Put(s, victim[s].id, Bump(Deleted(victim[s].row)))
          /\ Goto(s, IF todo[s] = {} THEN "commit" ELSE "replacement")
          /\ UNCHANGED <<table, inserted, local, queued>>
      BY <1>12, <2>3 DEF DeleteReplacement
    <3> QED
      BY <2>1, <3>1 DEF Put, Goto, TypeOK, table, local, PCs
  <2> QED
    BY <2>2, <2>3
<1>13. ASSUME NEW s \in Sessions, InsertOverride(s) PROVE TypeOK'
  <2>1. CASE Rollback(s)
    BY <2>1, RollbackType
  <2>2. CASE ~ Rollback(s)
    <3>1. PICK o \in FirstActive(snap[s].rule, seen[s], cmd[s].now) :
            /\ inserted' = [inserted EXCEPT ![s] =
                  {[schedule |-> cmd[s].id, occurrence |-> o, replacement |-> Keep]}]
            /\ Goto(s, "commit")
            /\ UNCHANGED <<table, dirty, locks, local, queued>>
      BY <1>13, <2>2 DEF InsertOverride
    <3>2. o \in Occurrences
      BY DEF FirstActive, Remaining, TypeOK, Row
    <3>3. [schedule |-> cmd[s].id, occurrence |-> o, replacement |-> Keep] \in Override
      BY <3>2 DEF Override, TypeOK, Command
    <3> QED
      BY <3>1, <3>3 DEF Goto, TypeOK, table, local, PCs
  <2> QED
    BY <2>1, <2>2
<1>14. ASSUME NEW s \in Sessions, Commit(s) PROVE TypeOK'
  <2>1. store' \in [Ids -> Row] /\ overrides' \in SUBSET Override /\ queued' \in SUBSET Ids
    BY <1>14 DEF Commit, TypeOK, Command
  <2>2. guesses' \in [Ids -> Nat]
    <3>1. guesses \in [Ids -> Nat] /\ [guesses EXCEPT ![cmd[s].id] = @ + 1] \in [Ids -> Nat]
      <4>1. PICK i \in Ids : i = cmd[s].id
        BY DEF TypeOK, Command
      <4>2. guesses \in [Ids -> Nat] /\ guesses[i] + 1 \in Nat
        BY DEF TypeOK
      <4> QED
        BY <4>1, <4>2
    <3> QED
      BY <1>14, <3>1 DEF Commit
  <2> QED
    BY <1>14, <2>1, <2>2, CloseType DEF Commit, TypeOK
<1>15. ASSUME NEW s \in Sessions, Fail(s) PROVE TypeOK'
  BY <1>15, RollbackType DEF Fail
<1>16. CASE Restart
  BY <1>16, DefaultsType DEF Restart, TypeOK, table, PCs
<1>17. CASE UNCHANGED vars
  BY <1>17 DEF vars, TypeOK
<1> QED
  BY <1>2, <1>3, <1>4, <1>5, <1>6, <1>7, <1>8, <1>9, <1>10, <1>11, <1>12, <1>13, <1>14,
     <1>15, <1>16, <1>17 DEF Next, Statement

THEOREM TypeCorrect == Spec => []TypeOK
BY InitType, TypeStep, PTL DEF Spec

(***************************************************************************)
(* The inductive invariant behind the two action properties: what a        *)
(* session has read, and what it has written without committing, relates   *)
(* to the committed row as RevisionGuards says.                            *)
(***************************************************************************)
(* A lock that stays, on a row, a version and a command that stay.         *)
LEMMA LockStays ==
    ASSUME RevisionGuards, NEW i \in Ids, locks[i] # NoSession,
           locks'[i] = locks[i], store'[i] = store[i], dirty'[i] = dirty[i],
           cmd'[locks[i]] = cmd[locks[i]], snap'[locks[i]] = snap[locks[i]],
           pc'[locks[i]] \notin {"idle", "overrides", "write"}
    PROVE  LockHolds(i)'
<1>1. LockHolds(i)
  BY DEF RevisionGuards, LocksHold
<1> QED
  BY <1>1 DEF LockHolds, Guessed, StillCurrent, SameButCategory

(* A step of s that leaves rows and locks alone, and after which s waits   *)
(* to write only if it did before, keeps the locks' part of the guards.    *)
LEMMA SameLocks ==
    ASSUME TypeOK, RevisionGuards, NEW s \in Sessions, NEW label, Goto(s, label),
           UNCHANGED <<store, dirty, locks>>,
           \A t \in Sessions \ {s} : cmd'[t] = cmd[t] /\ snap'[t] = snap[t],
           \/ pc[s] \in {"idle", "overrides", "write"}
           \/ label \notin {"idle", "overrides", "write"} /\ UNCHANGED <<cmd, snap>>
    PROVE  LocksHold'
<1> SUFFICES ASSUME NEW i \in Ids, locks[i] # NoSession PROVE LockHolds(i)'
  BY DEF LocksHold
<1>1. locks[i] \in Sessions /\ pc[locks[i]] \notin {"idle", "overrides", "write"}
  BY DEF RevisionGuards, LocksHold, LockHolds, TypeOK
<1>2. CASE locks[i] = s
  <2>1. cmd'[s] = cmd[s] /\ snap'[s] = snap[s] /\ pc'[s] \notin {"idle", "overrides", "write"}
    BY <1>1, <1>2 DEF Goto, TypeOK
  <2> QED
    BY <1>2, <2>1, LockStays
<1>3. CASE locks[i] # s
  <2>1. pc'[locks[i]] = pc[locks[i]]
    BY <1>1, <1>3 DEF Goto, TypeOK
  <2> QED
    BY <1>1, <1>3, <2>1, LockStays
<1> QED
  BY <1>2, <1>3

(* A session that locks row i with a proper new version of it, having kept *)
(* everybody's reads, keeps the guards.                                    *)
LEMMA PutKeepsGuards ==
    ASSUME TypeOK, RevisionGuards, NEW s \in Sessions, NEW i \in Ids, NEW row \in Row,
           NEW label \in {"replacement", "insert", "commit"},
           Put(s, i, row), Goto(s, label), UNCHANGED <<store, snap>>, ReadsHold',
           \A t \in Sessions \ {s} : cmd'[t] = cmd[t],
           cmd'[s] = cmd[s] \/ pc[s] \in {"idle", "overrides", "write"},
           \/ row.revision = store[i].revision + 1
           \/ row.revision = store[i].revision /\ SameButCategory(row, store[i]),
           IF cmd'[s].operation \in Checked /\ cmd'[s].id = i
           THEN \/ cmd'[s].expected > snap[s].revision
                \/ snap[s].revision = store[i].revision /\ StillCurrent(snap[s], i)
           ELSE store[i].status # "deleted"
    PROVE  RevisionGuards'
<1>1. /\ pc'[s] = label /\ \A t \in Sessions \ {s} : pc'[t] = pc[t]
      /\ locks'[i] = s /\ dirty'[i] = row
      /\ \A j \in Ids \ {i} : locks'[j] = locks[j] /\ dirty'[j] = dirty[j]
  BY DEF Put, Goto, TypeOK
<1>2. LockHolds(i)'
  <2>1. IF cmd'[s].operation \in Checked /\ cmd'[s].id = i
        THEN \/ Guessed(s)'
             \/ snap'[s].revision = store'[i].revision /\ StillCurrent(snap[s], i)'
        ELSE store'[i].status # "deleted"
    BY DEF Guessed, StillCurrent, SameButCategory
  <2>2. \/ dirty'[i].revision = store'[i].revision + 1
        \/ dirty'[i].revision = store'[i].revision /\ SameButCategory(dirty[i], store[i])'
    BY <1>1 DEF SameButCategory
  <2> QED
    BY <1>1, <2>1, <2>2 DEF LockHolds, Guessed, StillCurrent, SameButCategory
<1>3. ASSUME NEW j \in Ids \ {i}, locks'[j] # NoSession PROVE LockHolds(j)'
  <2>1. locks[j] # NoSession /\ locks[j] \in Sessions
        /\ pc[locks[j]] \notin {"idle", "overrides", "write"}
    BY <1>1, <1>3 DEF RevisionGuards, LocksHold, LockHolds, TypeOK
  <2>2. cmd'[locks[j]] = cmd[locks[j]] /\ pc'[locks[j]] \notin {"idle", "overrides", "write"}
    BY <1>1, <2>1
  <2> QED
    BY <1>1, <2>1, <2>2, LockStays
<1> QED
  BY <1>2, <1>3 DEF RevisionGuards, LocksHold

(* What others hold stays when a session closes and their rows stay.       *)
LEMMA CloseKeepsLocks ==
    ASSUME TypeOK, RevisionGuards, NEW s \in Sessions, Close(s),
           \A i \in Ids : locks[i] # s => store'[i] = store[i]
    PROVE  LocksHold'
<1> SUFFICES ASSUME NEW i \in Ids, locks'[i] # NoSession PROVE LockHolds(i)'
  BY DEF LocksHold
<1>1. /\ locks[i] # s /\ locks[i] # NoSession /\ locks'[i] = locks[i] /\ dirty'[i] = dirty[i]
      /\ locks[i] \in Sessions
  BY DEF Close, TypeOK
<1>2. /\ pc'[locks[i]] = pc[locks[i]] /\ cmd'[locks[i]] = cmd[locks[i]]
      /\ snap'[locks[i]] = snap[locks[i]]
  BY <1>1 DEF Close, Goto, TypeOK
<1>3. pc[locks[i]] \notin {"idle", "overrides", "write"}
  BY <1>1 DEF RevisionGuards, LocksHold, LockHolds
<1> QED
  BY <1>1, <1>2, <1>3, LockStays

(* A session that ends without a commit keeps the guards. *)
LEMMA RollbackKeepsGuards ==
    ASSUME TypeOK, RevisionGuards, NEW s \in Sessions, Rollback(s)
    PROVE  RevisionGuards'
<1>1. UNCHANGED store /\ Close(s)
  BY DEF Rollback, table
<1>2. LocksHold'
  BY <1>1, CloseKeepsLocks
<1>3. ReadsHold'
  <2> SUFFICES ASSUME NEW t \in Sessions, pc'[t] # "idle"
               PROVE  t # s /\ pc'[t] = pc[t] /\ cmd'[t] = cmd[t] /\ snap'[t] = snap[t]
                      /\ victim'[t] = victim[t]
    BY <1>1 DEF RevisionGuards, ReadsHold, StillCurrent, SameButCategory
  <2> QED
    BY DEF Rollback, Close, Goto, TypeOK
<1> QED
  BY <1>2, <1>3 DEF RevisionGuards

(* A step of s that leaves store and what s has read alone, and after      *)
(* which s waits to write only if it did before, keeps everybody's reads.  *)
LEMMA SameReads ==
    ASSUME TypeOK, RevisionGuards, NEW s \in Sessions, NEW label,
           Goto(s, label), UNCHANGED <<store, cmd, snap>>,
           \A t \in Sessions \ {s} : victim'[t] = victim[t],
           label \in {"overrides", "write"} => pc[s] \in {"overrides", "write"},
           label = "delete_replacement" =>
               StillCurrent(victim'[s].row, victim'[s].id)
    PROVE  ReadsHold'
<1> SUFFICES ASSUME NEW t \in Sessions
             PROVE  /\ pc'[t] \in {"overrides", "write"} /\ cmd'[t].operation \in Checked =>
                         StillCurrent(snap[t], cmd[t].id)
                    /\ pc'[t] = "delete_replacement" =>
                         StillCurrent(victim'[t].row, victim'[t].id)
  BY DEF ReadsHold, StillCurrent, SameButCategory
<1>1. CASE t = s
  BY <1>1 DEF RevisionGuards, ReadsHold, Goto, TypeOK
<1>2. CASE t # s
  BY <1>2 DEF RevisionGuards, ReadsHold, Goto, TypeOK
<1> QED
  BY <1>1, <1>2

(* A session past its UPDATE holds the row of its command to the end.      *)
Past == {"replacement", "delete_replacement", "insert"}
WritersHold == \A s \in Sessions : pc[s] \in Past => locks[cmd[s].id] = s

LEMMA GuardsInit == Init => RevisionGuards /\ WritersHold
BY DEF Init, RevisionGuards, ReadsHold, LocksHold, WritersHold, Past

LEMMA WritersKeep ==
    ASSUME TypeOK, WritersHold, NEW s \in Sessions,
           \A t \in Sessions \ {s} : pc'[t] = pc[t] /\ cmd'[t] = cmd[t],
           \A j \in Ids : locks[j] \in Sessions \ {s} => locks'[j] = locks[j],
           pc'[s] \in Past => locks'[cmd'[s].id] = s
    PROVE  WritersHold'
<1> SUFFICES ASSUME NEW t \in Sessions, t # s, pc[t] \in Past PROVE locks'[cmd[t].id] = t
  BY DEF WritersHold
<1>1. cmd[t].id \in Ids /\ locks[cmd[t].id] = t
  BY DEF WritersHold, TypeOK, Command
<1> QED
  BY <1>1

LEMMA WritersStep == TypeOK /\ WritersHold /\ [Next]_vars => WritersHold'
<1> SUFFICES ASSUME TypeOK, WritersHold, [Next]_vars PROVE WritersHold'
  OBVIOUS
<1> USE DEF Past
<1>1. NoSession \notin Sessions
  BY ScheduleServiceAssumption DEF Sessions
<1>2. ASSUME NEW s \in Sessions, Close(s) PROVE WritersHold'
  <2>1. /\ pc'[s] = "idle" /\ \A t \in Sessions \ {s} : pc'[t] = pc[t] /\ cmd'[t] = cmd[t]
        /\ \A j \in Ids : locks[j] # s => locks'[j] = locks[j]
    BY <1>2 DEF Close, Goto, TypeOK
  <2> QED
    BY <2>1, WritersKeep
<1>3. ASSUME NEW s \in Sessions, Rollback(s) PROVE WritersHold'
  BY <1>2, <1>3 DEF Rollback
<1>4. ASSUME NEW s \in Sessions, NEW label, label \notin Past, Goto(s, label),
             \A t \in Sessions \ {s} : cmd'[t] = cmd[t],
             \/ UNCHANGED locks
             \/ \E i \in Ids : \E row : locks[i] = NoSession /\ Put(s, i, row)
      PROVE  WritersHold'
  <2>1. pc'[s] = label /\ \A t \in Sessions \ {s} : pc'[t] = pc[t]
    BY <1>4 DEF Goto, TypeOK
  <2>2. \A j \in Ids : locks[j] \in Sessions \ {s} => locks'[j] = locks[j]
    BY <1>1, <1>4 DEF Put, TypeOK
  <2> QED
    BY <1>4, <2>1, <2>2, WritersKeep
<1>5. ASSUME NEW s \in Sessions, NEW label, Goto(s, label), pc[s] \in Past, UNCHANGED cmd,
             \/ UNCHANGED locks
             \/ \E i \in Ids : \E row : locks[i] = NoSession /\ Put(s, i, row)
      PROVE  WritersHold'
  <2>1. \A t \in Sessions \ {s} : pc'[t] = pc[t]
    BY <1>5 DEF Goto, TypeOK
  <2>2. \A j \in Ids : locks[j] \in Sessions => locks'[j] = locks[j]
    BY <1>1, <1>5 DEF Put, TypeOK
  <2>3. cmd[s].id \in Ids /\ locks[cmd[s].id] = s
    BY <1>5 DEF WritersHold, TypeOK, Command
  <2> QED
    BY <1>5, <2>1, <2>2, <2>3, WritersKeep
<1>6. ASSUME NEW s \in Callers, NEW operation, NEW i, NEW expected, NEW changes, NEW now,
             Begin(s, operation, i, expected, changes, now)
      PROVE  WritersHold'
  <2>1. s \in Sessions /\ UNCHANGED locks
        /\ Goto(s, IF operation \in SeriesScopes THEN "overrides" ELSE "write")
        /\ \A t \in Sessions \ {s} : cmd'[t] = cmd[t]
    BY <1>6 DEF Begin, Sessions, TypeOK
  <2> QED
    BY <1>4, <2>1
<1>7. ASSUME NEW s \in Callers, BeginUpdate(s) \/ BeginDelete(s) \/ BeginConfirm(s)
      PROVE  WritersHold'
  BY <1>6, <1>7 DEF BeginUpdate, BeginDelete, BeginConfirm
<1>8. ASSUME NEW s \in Callers, Create(s) PROVE WritersHold'
  <2>1. s \in Sessions /\ Goto(s, "commit") /\ \A t \in Sessions \ {s} : cmd'[t] = cmd[t]
    BY <1>8 DEF Create, Sessions, TypeOK
  <2>2. \E i \in Ids : \E row : locks[i] = NoSession /\ Put(s, i, row)
    BY <1>8 DEF Create
  <2> QED
    BY <1>4, <2>1, <2>2
<1>9. ASSUME NEW s \in Workers, NEW i \in Ids, NEW category, StartClassify(s, i, category)
      PROVE  WritersHold'
  <2>1. /\ s \in Sessions /\ UNCHANGED locks
        /\ \A t \in Sessions \ {s} : cmd'[t] = cmd[t]
        /\ Goto(s, "idle") \/ Goto(s, "write")
    BY <1>9 DEF StartClassify, Sessions, Goto, TypeOK
  <2> QED
    BY <1>4, <2>1
<1>10. ASSUME NEW s \in Sessions, ReadOverrides(s) PROVE WritersHold'
  BY <1>3, <1>4, <1>10 DEF ReadOverrides
<1>11. ASSUME NEW s \in Sessions, UpdateSchedule(s) PROVE WritersHold'
  <2>1. CASE Rollback(s)
    BY <1>3, <2>1
  <2>2. CASE ~ Rollback(s)
    <3>1. /\ cmd[s].id \in Ids /\ locks[cmd[s].id] = NoSession
          /\ locks' = [locks EXCEPT ![cmd[s].id] = s]
          /\ pc' = [pc EXCEPT ![s] = AfterUpdate(s)] /\ UNCHANGED cmd
      BY <1>11, <2>2 DEF UpdateSchedule, Put, Goto, TypeOK, Command
    <3>2. /\ \A t \in Sessions \ {s} : pc'[t] = pc[t] /\ cmd'[t] = cmd[t]
          /\ \A j \in Ids : locks[j] \in Sessions => locks'[j] = locks[j]
          /\ locks'[cmd'[s].id] = s
      BY <1>1, <3>1 DEF TypeOK
    <3> QED
      BY <3>2, WritersKeep
  <2> QED
    BY <2>1, <2>2
<1>12. ASSUME NEW s \in Sessions, ConfirmReminder(s) \/ SetCategory(s) PROVE WritersHold'
  <2>1. cmd[s].id \in Ids
    BY DEF TypeOK, Command
  <2> QED
    BY <1>3, <1>4, <1>12, <2>1 DEF ConfirmReminder, SetCategory, local
<1>13. ASSUME NEW s \in Sessions, ReadReplacement(s) PROVE WritersHold'
  <2>1. pc[s] \in Past /\ UNCHANGED <<locks, cmd>> /\ \E label : Goto(s, label)
    BY <1>13 DEF ReadReplacement
  <2> QED
    BY <1>5, <2>1
<1>14. ASSUME NEW s \in Sessions, DeleteReplacement(s) PROVE WritersHold'
  <2>1. victim[s].id \in Ids
    BY DEF TypeOK
  <2> QED
    BY <1>3, <1>5, <1>14, <2>1 DEF DeleteReplacement, local
<1>15. ASSUME NEW s \in Sessions, InsertOverride(s) PROVE WritersHold'
  BY <1>3, <1>5, <1>15 DEF InsertOverride, local
<1>16. ASSUME NEW s \in Sessions, Commit(s) \/ Fail(s) PROVE WritersHold'
  BY <1>2, <1>3, <1>16 DEF Commit, Fail
<1>17. CASE Restart
  BY <1>17 DEF Restart, WritersHold
<1>18. CASE UNCHANGED vars
  BY <1>18 DEF vars, WritersHold
<1> QED
  BY <1>7, <1>8, <1>9, <1>10, <1>11, <1>12, <1>13, <1>14, <1>15, <1>16, <1>17, <1>18
  DEF Next, Statement

LEMMA GuardsStep == TypeOK /\ WritersHold /\ RevisionGuards /\ [Next]_vars => RevisionGuards'
<1> SUFFICES ASSUME TypeOK, WritersHold, RevisionGuards, [Next]_vars PROVE RevisionGuards'
  OBVIOUS
<1>1. ASSUME NEW s \in Callers, NEW operation, NEW i \in Ids, NEW expected,
             NEW changes, NEW now, Begin(s, operation, i, expected, changes, now)
      PROVE  RevisionGuards'
  <2>1. s \in Sessions /\ store[i] \in Row /\ UNCHANGED <<store, dirty, locks, victim>>
    BY <1>1 DEF Begin, Sessions, TypeOK, table
  <2>2. LocksHold'
    <3>1. /\ pc[s] = "idle"
          /\ Goto(s, IF operation \in SeriesScopes THEN "overrides" ELSE "write")
          /\ \A t \in Sessions \ {s} : cmd'[t] = cmd[t] /\ snap'[t] = snap[t]
      BY <1>1 DEF Begin, TypeOK
    <3> QED
      BY <2>1, <3>1, SameLocks
  <2>3. ReadsHold'
    <3> SUFFICES ASSUME NEW t \in Sessions
                 PROVE  /\ pc'[t] \in {"overrides", "write"} /\ cmd'[t].operation \in Checked =>
                             StillCurrent(snap'[t], cmd'[t].id)
                        /\ pc'[t] = "delete_replacement" =>
                             StillCurrent(victim[t].row, victim[t].id)
      BY <2>1 DEF ReadsHold, StillCurrent, SameButCategory
    <3>1. CASE t = s
      <4>1. cmd'[s].id = i /\ snap'[s] = store[i] /\ pc'[s] # "delete_replacement"
        BY <1>1, <2>1 DEF Begin, Goto, TypeOK
      <4>2. StillCurrent(store[i], i)
        BY <1>1, <2>1 DEF Begin, StillCurrent, SameButCategory, Row
      <4> QED
        BY <1>1, <3>1, <4>1, <4>2
    <3>2. CASE t # s
      <4>1. pc'[t] = pc[t] /\ cmd'[t] = cmd[t] /\ snap'[t] = snap[t]
        BY <1>1, <2>1, <3>2 DEF Begin, Goto, TypeOK
      <4> QED
        BY <4>1 DEF RevisionGuards, ReadsHold
    <3> QED
      BY <3>1, <3>2
  <2> QED
    BY <2>2, <2>3 DEF RevisionGuards
<1>2. ASSUME NEW s \in Callers, BeginUpdate(s) PROVE RevisionGuards'
  BY <1>1, <1>2 DEF BeginUpdate
<1>3. ASSUME NEW s \in Callers, BeginDelete(s) PROVE RevisionGuards'
  BY <1>1, <1>3 DEF BeginDelete, Ids
<1>4. ASSUME NEW s \in Callers, BeginConfirm(s) PROVE RevisionGuards'
  BY <1>1, <1>4 DEF BeginConfirm
<1>5. ASSUME NEW s \in Callers, Create(s) PROVE RevisionGuards'
  <2>1. PICK i \in Ids, row \in Fresh :
          /\ store[i] = Absent /\ Put(s, i, row)
          /\ cmd' = [cmd EXCEPT ![s] = [NoCommand EXCEPT !.operation = "create", !.id = i]]
    BY <1>5 DEF Create
  <2>2. s \in Sessions /\ UNCHANGED <<store, snap, victim>> /\ Goto(s, "commit")
        /\ pc[s] = "idle"
    BY <1>5 DEF Create, Sessions, table
  <2>3. row \in Row /\ row.revision = store[i].revision + 1 /\ store[i].status # "deleted"
    BY <2>1, FreshType DEF Fresh, Absent
  <2>4. ReadsHold'
    <3> SUFFICES ASSUME NEW t \in Sessions, pc'[t] # "commit"
                 PROVE  pc'[t] = pc[t] /\ cmd'[t] = cmd[t]
      BY <2>2 DEF RevisionGuards, ReadsHold, StillCurrent, SameButCategory
    <3> QED
      BY <2>1, <2>2 DEF Goto, TypeOK
  <2>5. cmd'[s].operation = "create" /\ \A t \in Sessions \ {s} : cmd'[t] = cmd[t]
    BY <2>1, <2>2 DEF TypeOK, NoCommand
  <2>6. cmd'[s].operation \notin Checked
    BY <2>5 DEF Checked, SeriesScopes, RangeScopes
  <2> QED
    BY <2>1, <2>2, <2>3, <2>4, <2>5, <2>6, PutKeepsGuards
<1>6. ASSUME NEW s \in Workers, NEW i \in Ids, NEW category \in Categories \cup {NoCategory},
             StartClassify(s, i, category)
      PROVE  RevisionGuards'
  <2>1. s \in Sessions /\ UNCHANGED <<store, dirty, locks, snap, victim>>
    BY <1>6 DEF StartClassify, Sessions, table
  <2>2. LocksHold'
    <3>1. /\ pc[s] = "idle"
          /\ Goto(s, "idle") \/ Goto(s, "write")
          /\ \A t \in Sessions \ {s} : cmd'[t] = cmd[t] /\ snap'[t] = snap[t]
      BY <1>6, <2>1 DEF StartClassify, Goto, TypeOK
    <3> QED
      BY <2>1, <3>1, SameLocks
  <2>3. ReadsHold'
    <3> SUFFICES ASSUME NEW t \in Sessions
                 PROVE  \/ pc'[t] = "write" /\ cmd'[t].operation \notin Checked
                        \/ pc'[t] = pc[t] /\ cmd'[t] = cmd[t]
      BY <2>1 DEF RevisionGuards, ReadsHold, StillCurrent, SameButCategory
    <3>1. [NoCommand EXCEPT !.operation = "classify", !.id = i,
                            !.category = category].operation = "classify"
      BY DEF NoCommand
    <3> QED
      BY <1>6, <2>1, <3>1 DEF StartClassify, Goto, TypeOK, Checked, SeriesScopes, RangeScopes
  <2> QED
    BY <2>2, <2>3 DEF RevisionGuards
<1>7. ASSUME NEW s \in Sessions, ReadOverrides(s) PROVE RevisionGuards'
  <2>1. CASE Rollback(s)
    BY <2>1, RollbackKeepsGuards
  <2>2. CASE ~ Rollback(s)
    <3>1. /\ pc[s] = "overrides" /\ Goto(s, "write")
          /\ UNCHANGED <<store, dirty, locks, cmd, snap, victim>>
      BY <1>7, <2>2 DEF ReadOverrides, table
    <3>2. ReadsHold'
      BY <3>1, SameReads
    <3>3. LocksHold'
      BY <3>1, SameLocks
    <3> QED
      BY <3>2, <3>3 DEF RevisionGuards
  <2> QED
    BY <2>1, <2>2
<1>8. ASSUME NEW s \in Sessions, UpdateSchedule(s) PROVE RevisionGuards'
  <2>1. CASE Rollback(s)
    BY <2>1, RollbackKeepsGuards
  <2>2. CASE ~ Rollback(s)
    <3> DEFINE i == cmd[s].id
               row == [Candidate(s) EXCEPT !.revision = store[i].revision + 1]
    <3>1. /\ pc[s] = "write" /\ cmd[s].operation \in Checked
          /\ store[i].revision = cmd[s].expected
          /\ Put(s, i, row) /\ Goto(s, AfterUpdate(s))
          /\ UNCHANGED <<store, cmd, snap, victim>>
      BY <1>8, <2>2 DEF UpdateSchedule, table
    <3>2. i \in Ids /\ store[i] \in Row /\ snap[s] \in Row /\ cmd[s].expected \in Nat
      BY DEF TypeOK, Command
    <3>3. row \in Row /\ row.revision = store[i].revision + 1
      BY <3>2, CandidateType DEF Row
    <3>4. \/ cmd[s].expected > snap[s].revision
          \/ snap[s].revision = store[i].revision /\ StillCurrent(snap[s], i)
      <4>1. StillCurrent(snap[s], i)
        BY <3>1 DEF RevisionGuards, ReadsHold
      <4>2. snap[s].revision <= store[i].revision /\ snap[s].revision \in Nat
        BY <3>2, <4>1 DEF StillCurrent, Row
      <4> QED
        BY <3>1, <3>2, <4>1, <4>2
    <3>5. AfterUpdate(s) \in {"replacement", "insert", "commit"}
      BY DEF AfterUpdate
    <3>6. ReadsHold'
      BY <3>1, <3>5, SameReads
    <3> HIDE DEF row
    <3> QED
      BY <3>1, <3>2, <3>3, <3>4, <3>5, <3>6, PutKeepsGuards
  <2> QED
    BY <2>1, <2>2
<1>9. ASSUME NEW s \in Sessions, ConfirmReminder(s) PROVE RevisionGuards'
  <2>1. CASE Rollback(s)
    BY <2>1, RollbackKeepsGuards
  <2>2. CASE ~ Rollback(s)
    <3> DEFINE i == cmd[s].id
               row == [Bump(store[i]) EXCEPT !.disposition = "confirmed"]
    <3>1. /\ store[i].status = "active" /\ Put(s, i, row) /\ Goto(s, "commit")
          /\ cmd[s].operation = "confirm"
          /\ UNCHANGED <<store, cmd, snap, victim>>
      BY <1>9, <2>2 DEF ConfirmReminder, table, local
    <3>2. i \in Ids /\ store[i] \in Row
      BY DEF TypeOK, Command
    <3>3. row \in Row /\ row.revision = store[i].revision + 1
      <4>1. PICK b \in Row : b = Bump(store[i]) /\ b.revision = store[i].revision + 1
        BY <3>2, RowOperators DEF Bump, Row
      <4> QED
        BY <4>1 DEF Row
    <3>4. ReadsHold'
      BY <3>1, SameReads
    <3>5. cmd'[s].operation \notin Checked
      BY <3>1 DEF Checked, SeriesScopes, RangeScopes
    <3> HIDE DEF row
    <3> QED
      BY <3>1, <3>2, <3>3, <3>4, <3>5, PutKeepsGuards
  <2> QED
    BY <2>1, <2>2
<1>10. ASSUME NEW s \in Sessions, SetCategory(s) PROVE RevisionGuards'
  <2>1. CASE Rollback(s)
    BY <2>1, RollbackKeepsGuards
  <2>2. CASE ~ Rollback(s)
    <3> DEFINE i == cmd[s].id
               row == [store[i] EXCEPT !.category = cmd[s].category]
    <3>1. /\ store[i].status = "active" /\ Put(s, i, row) /\ Goto(s, "commit")
          /\ cmd[s].operation = "classify"
          /\ UNCHANGED <<store, cmd, snap, victim>>
      BY <1>10, <2>2 DEF SetCategory, table, local
    <3>2. i \in Ids /\ store[i] \in Row /\ cmd[s].category \in Categories \cup {NoCategory}
      BY DEF TypeOK, Command
    <3>3. row \in Row /\ row.revision = store[i].revision /\ SameButCategory(row, store[i])
      BY <3>2 DEF Row, SameButCategory
    <3>4. ReadsHold'
      BY <3>1, SameReads
    <3>5. cmd'[s].operation \notin Checked
      BY <3>1 DEF Checked, SeriesScopes, RangeScopes
    <3> HIDE DEF row
    <3> QED
      BY <3>1, <3>2, <3>3, <3>4, <3>5, PutKeepsGuards
  <2> QED
    BY <2>1, <2>2
<1>11. ASSUME NEW s \in Sessions, ReadReplacement(s) PROVE RevisionGuards'
  <2>1. PICK e \in todo[s] :
          IF store[e.replacement].status = "active"
          THEN /\ victim' = [victim EXCEPT ![s] = [id |-> e.replacement,
                                                   row |-> store[e.replacement]]]
               /\ Goto(s, "delete_replacement")
          ELSE /\ Goto(s, IF {d \in todo[s] : d.replacement # e.replacement} = {}
                          THEN "commit" ELSE "replacement")
               /\ UNCHANGED victim
    BY <1>11 DEF ReadReplacement
  <2>2. UNCHANGED <<store, dirty, locks, cmd, snap>>
    BY <1>11 DEF ReadReplacement, table
  <2>3. e.replacement \in Ids /\ store[e.replacement] \in Row
    BY DEF TypeOK, Override, Ids
  <2>4. LocksHold'
    <3> DEFINE left == {d \in todo[s] : d.replacement # e.replacement}
    <3>1. \/ Goto(s, "delete_replacement")
          \/ Goto(s, IF left = {} THEN "commit" ELSE "replacement")
      BY <2>1
    <3> QED
      BY <2>2, <3>1, SameLocks
  <2>5. CASE store[e.replacement].status = "active"
    <3>1. victim'[s].row = store[e.replacement] /\ victim'[s].id = e.replacement
      BY <2>1, <2>5 DEF TypeOK
    <3>2. StillCurrent(victim'[s].row, victim'[s].id)
      BY <2>3, <2>5, <3>1 DEF StillCurrent, SameButCategory, Row
    <3>3. \A t \in Sessions \ {s} : victim'[t] = victim[t]
      BY <2>1, <2>5 DEF TypeOK
    <3>4. ReadsHold'
      BY <2>1, <2>2, <2>5, <3>2, <3>3, SameReads
    <3> QED
      BY <2>4, <3>4 DEF RevisionGuards
  <2>6. CASE store[e.replacement].status # "active"
    <3>1. ReadsHold'
      BY <2>1, <2>2, <2>6, SameReads
    <3> QED
      BY <2>4, <3>1 DEF RevisionGuards
  <2> QED
    BY <2>5, <2>6
<1>12. ASSUME NEW s \in Sessions, DeleteReplacement(s) PROVE RevisionGuards'
  <2>1. CASE Rollback(s)
    BY <2>1, RollbackKeepsGuards
  <2>2. CASE ~ Rollback(s)
    <3> DEFINE i == victim[s].id
               row == Bump(Deleted(victim[s].row))
    <3>1. /\ pc[s] = "delete_replacement"
          /\ store[i].revision = victim[s].row.revision
          /\ Put(s, i, row) /\ Goto(s, IF todo[s] = {} THEN "commit" ELSE "replacement")
          /\ UNCHANGED <<store, cmd, snap, victim>>
      BY <1>12, <2>2 DEF DeleteReplacement, table, local
    <3>2. i \in Ids /\ store[i] \in Row /\ victim[s].row \in Row
      BY DEF TypeOK
    <3>3. row \in Row /\ row.revision = store[i].revision + 1
      <4>1. row \in Row
        BY <3>2, RowOperators
      <4> QED
        BY <3>1, <3>2, <4>1 DEF Row, Bump, Deleted
    <3>4. store[i].status = "active"
      <4>1. StillCurrent(victim[s].row, i)
        BY <3>1 DEF RevisionGuards, ReadsHold
      <4> QED
        BY <3>1, <4>1 DEF StillCurrent, SameButCategory
    <3>5. ReadsHold'
      BY <3>1, SameReads
    <3>6. i # cmd[s].id
      BY <1>12, <3>1, ScheduleServiceAssumption DEF DeleteReplacement, WritersHold, Past, Sessions
    <3> HIDE DEF row
    <3> QED
      BY <3>1, <3>2, <3>3, <3>4, <3>5, <3>6, PutKeepsGuards
  <2> QED
    BY <2>1, <2>2
<1>13. ASSUME NEW s \in Sessions, InsertOverride(s) PROVE RevisionGuards'
  <2>1. CASE Rollback(s)
    BY <2>1, RollbackKeepsGuards
  <2>2. CASE ~ Rollback(s)
    <3>1. Goto(s, "commit") /\ UNCHANGED <<store, dirty, locks, cmd, snap, victim>>
      BY <1>13, <2>2 DEF InsertOverride, table, local
    <3>2. ReadsHold'
      BY <3>1, SameReads
    <3>3. LocksHold'
      BY <3>1, SameLocks
    <3> QED
      BY <3>2, <3>3 DEF RevisionGuards
  <2> QED
    BY <2>1, <2>2
<1>14. ASSUME NEW s \in Sessions, Commit(s) PROVE RevisionGuards'
  <2>1. \A i \in Ids : store'[i] = IF locks[i] = s THEN dirty[i] ELSE store[i]
    BY <1>14 DEF Commit
  <2>2. s # NoSession
    BY ScheduleServiceAssumption DEF Sessions
  <2>3. \A i \in Ids : store[i] \in Row /\ dirty[i] \in Row
    BY DEF TypeOK
  <2>4. ASSUME NEW row \in Row, NEW i \in Ids, StillCurrent(row, i)
        PROVE  /\ row.status = "active"
               /\ row.revision <= store'[i].revision
               /\ row.revision = store'[i].revision => SameButCategory(row, store'[i])
    BY <2>1, <2>2, <2>3, <2>4
       DEF StillCurrent, SameButCategory, RevisionGuards, LocksHold, LockHolds, Row
  <2>5. ReadsHold'
    <3> SUFFICES ASSUME NEW t \in Sessions, pc'[t] # "idle"
                 PROVE  pc'[t] = pc[t] /\ cmd'[t] = cmd[t] /\ snap'[t] = snap[t]
                        /\ victim'[t] = victim[t] /\ cmd[t].id \in Ids /\ victim[t].id \in Ids
                        /\ snap[t] \in Row /\ victim[t].row \in Row
      BY <2>4 DEF RevisionGuards, ReadsHold, StillCurrent
    <3> QED
      BY <1>14 DEF Commit, Close, Goto, TypeOK, Command
  <2>6. LocksHold'
    BY <1>14, <2>1, CloseKeepsLocks DEF Commit
  <2> QED
    BY <2>5, <2>6 DEF RevisionGuards
<1>15. ASSUME NEW s \in Sessions, Fail(s) PROVE RevisionGuards'
  BY <1>15, RollbackKeepsGuards DEF Fail
<1>16. CASE Restart
  BY <1>16 DEF Restart, RevisionGuards, ReadsHold, LocksHold
<1>17. CASE UNCHANGED vars
  BY <1>17 DEF vars, RevisionGuards, ReadsHold, LocksHold, LockHolds, Guessed, StillCurrent,
     SameButCategory
<1> QED
  BY <1>2, <1>3, <1>4, <1>5, <1>6, <1>7, <1>8, <1>9, <1>10, <1>11, <1>12, <1>13, <1>14,
     <1>15, <1>16, <1>17 DEF Next, Statement

(* The guards hold in every reachable state. *)
THEOREM GuardsCorrect == Spec => []RevisionGuards
BY InitType, TypeStep, GuardsInit, WritersStep, GuardsStep, PTL DEF Spec

(* Only a commit changes the table, and only rows the session had locked.  *)
LEMMA OnlyCommits ==
    ASSUME TypeOK, [Next]_vars, NEW i \in Ids, store'[i] # store[i]
    PROVE  /\ locks[i] # NoSession /\ store'[i] = dirty[i]
           /\ \E s \in Sessions : Commit(s) /\ locks[i] = s
<1>1. PICK s \in Sessions : Commit(s)
  BY DEF Next, Statement, vars, table, local, Rollback, Begin, BeginUpdate, BeginDelete,
     BeginConfirm, Create, StartClassify, ReadOverrides, UpdateSchedule, ConfirmReminder,
     SetCategory, ReadReplacement, DeleteReplacement, InsertOverride, Fail, Restart
<1> QED
  BY <1>1, ScheduleServiceAssumption DEF Commit, Sessions

(***************************************************************************)
(* A deleted schedule is not written again, whatever was read before its   *)
(* deletion, but by a command that guessed the revision it was left at.    *)
(***************************************************************************)
THEOREM DeletedFinal == Spec => DeletedIsFinal
<1>1. TypeOK /\ RevisionGuards /\ [Next]_vars =>
        [\A i \in Ids : store[i].status = "deleted" =>
            store'[i] = store[i] \/ guesses'[i] = guesses[i] + 1]_vars
  <2> SUFFICES ASSUME TypeOK, RevisionGuards, [Next]_vars, NEW i \in Ids,
                      store[i].status = "deleted", store'[i] # store[i]
               PROVE  guesses'[i] = guesses[i] + 1
    OBVIOUS
  <2>1. PICK s \in Sessions : Commit(s) /\ locks[i] = s
    BY OnlyCommits
  <2>2. LockHolds(i)
    BY <2>1, OnlyCommits DEF RevisionGuards, LocksHold
  <2>3. Guessed(s) /\ cmd[s].id = i
    BY <2>1, <2>2 DEF LockHolds, StillCurrent, SameButCategory
  <2> QED
    BY <2>1, <2>3 DEF Commit, TypeOK
<1> QED
  BY <1>1, TypeCorrect, GuardsCorrect, PTL DEF Spec, DeletedIsFinal

(***************************************************************************)
(* The revision counts: every change of a committed row but its category   *)
(* takes the next revision.                                                *)
(***************************************************************************)
THEOREM RevisionCorrect == Spec => RevisionCounts
<1>1. TypeOK /\ RevisionGuards /\ [Next]_vars =>
        [\A i \in Ids :
           \/ store'[i].revision = store[i].revision + 1
           \/ store'[i].revision = store[i].revision /\ SameButCategory(store'[i], store[i])]_vars
  <2> SUFFICES ASSUME TypeOK, RevisionGuards, [Next]_vars, NEW i \in Ids
               PROVE  \/ store'[i].revision = store[i].revision + 1
                      \/ /\ store'[i].revision = store[i].revision
                         /\ SameButCategory(store'[i], store[i])
    OBVIOUS
  <2>1. CASE store'[i] = store[i]
    BY <2>1 DEF SameButCategory
  <2>2. CASE store'[i] # store[i]
    BY <2>2, OnlyCommits DEF RevisionGuards, LocksHold, LockHolds
  <2> QED
    BY <2>1, <2>2
<1> QED
  BY <1>1, TypeCorrect, GuardsCorrect, PTL DEF Spec, RevisionCounts


(* What a client that compares revisions relies on, of every row the        *)
(* service writes.                                                          *)
THEOREM VersionsCorrect == Spec => VersionsAdvance
BY DeletedFinal, RevisionCorrect DEF VersionsAdvance
------------------------------------------------------------------------------
(***************************************************************************)
(* The invariant behind the refinement of ScheduleLedger.  A session that  *)
(* is past its UPDATE holds the row's lock, so, unless it guessed, the row *)
(* and the overrides of its schedule are still those it read; and what it  *)
(* has written, and still has to delete, is what one operation of the      *)
(* ledger does.                                                            *)
(***************************************************************************)
ExceptionsOf(i) == {o \in overrides : o.schedule = i}
ReplacementsOf(exceptions) == {e.replacement : e \in exceptions}
FirstFor(s) == FirstActive(snap[s].rule, seen[s], cmd[s].now)

(* A version read of row i: an older one, or the current one but for a      *)
(* category set since.                                                      *)
ReadAs(row, i) ==
    /\ StillCurrent(row, i)
    /\ row.revision = store[i].revision => row.category \in {store[i].category, NoCategory}
ReadNow(row, i) == ReadAs(row, i) /\ row.revision = store[i].revision

Unwritten == {"idle", "overrides", "write"}

(* What the guards of the first step have left in the command.              *)
Sane(s) == pc[s] # "idle" =>
    /\ cmd[s].operation = "update" =>
            cmd[s].changes \in Patches /\ ValidRow(cmd[s].id, Patched(snap[s], cmd[s].changes))
    /\ cmd[s].operation = "delete_once" => cmd[s].id \in Once
    /\ cmd[s].operation \in SeriesScopes => cmd[s].id \in Series
    /\ cmd[s].operation = "classify" => cmd[s].category \in Categories
    /\ pc[s] = "overrides" => cmd[s].operation \in SeriesScopes
    /\ pc[s] = "write" => cmd[s].operation # "create"
    /\ pc[s] \in {"replacement", "delete_replacement", "insert"} => cmd[s].operation \in Checked
    /\ pc[s] = "insert" => cmd[s].operation = "this_occurrence" /\ Doomed(s) = {}

Reads(s) ==
    /\ pc[s] # "idle" /\ cmd[s].operation \in Checked => ReadAs(snap[s], cmd[s].id)
    /\ pc[s] = "delete_replacement" => ReadAs(victim[s].row, victim[s].id)

(* An override added since takes a revision of its schedule.                *)
Sees(s) == pc[s] \notin {"idle", "overrides"} /\ cmd[s].operation \in SeriesScopes =>
    /\ seen[s] \subseteq ExceptionsOf(cmd[s].id)
    /\ snap[s].revision = store[cmd[s].id].revision => seen[s] = ExceptionsOf(cmd[s].id)
    /\ cmd[s].operation \in RangeScopes => FirstFor(s) # {}

NothingYet(s) == pc[s] \in Unwritten => inserted[s] = {} /\ \A j \in Ids : locks[j] # s

Removed(j) == \E row \in Row : ReadNow(row, j) /\ dirty[j] = Bump(Deleted(row))

(* Every replacement that is to go is still to be visited, is the one just  *)
(* read, is written deleted, or was deleted by somebody else (and stays so, *)
(* unless a guess revives it).                                              *)
Visited(s, e) ==
    \/ e \in todo[s]
    \/ pc[s] = "delete_replacement" /\ victim[s].id = e.replacement
    \/ locks[e.replacement] = s
    \/ store[e.replacement].status = "deleted"
    \/ guesses[e.replacement] > 0

Rewrote(s) ==
    /\ locks[cmd[s].id] = s
    /\ Guessed(s) \/ ReadNow(snap[s], cmd[s].id)
    /\ dirty[cmd[s].id] = [Candidate(s) EXCEPT !.revision = store[cmd[s].id].revision + 1]
    /\ \A j \in Ids \ {cmd[s].id} : locks[j] = s =>
            j \in ReplacementsOf(Doomed(s)) /\ Removed(j)
    /\ todo[s] \subseteq Doomed(s)
    /\ pc[s] \in {"insert", "commit"} => todo[s] = {}
    /\ pc[s] = "delete_replacement" => victim[s].id \in ReplacementsOf(Doomed(s))
    /\ \A e \in Doomed(s) : Visited(s, e)
    /\ inserted[s] = IF pc[s] = "commit" /\ cmd[s].operation = "this_occurrence" /\ Doomed(s) = {}
                     THEN {[schedule |-> cmd[s].id, occurrence |-> Target(s), replacement |-> Keep]}
                     ELSE {}
    /\ inserted[s] # {} => ~ HasOverride(overrides, cmd[s].id, Target(s))

WroteOne(s) ==
    /\ inserted[s] = {} /\ \A j \in Ids : locks[j] = s <=> j = cmd[s].id
    /\ cmd[s].operation = "create" =>
            /\ store[cmd[s].id] = Absent /\ dirty[cmd[s].id] \in Fresh
            /\ ValidRow(cmd[s].id, dirty[cmd[s].id])
    /\ cmd[s].operation = "confirm" =>
            /\ store[cmd[s].id].status = "active" /\ store[cmd[s].id].reminder = "set"
            /\ store[cmd[s].id].disposition = "none"
            /\ dirty[cmd[s].id] = [Bump(store[cmd[s].id]) EXCEPT !.disposition = "confirmed"]
    /\ cmd[s].operation = "classify" =>
            /\ store[cmd[s].id].status = "active" /\ store[cmd[s].id].category = NoCategory
            /\ dirty[cmd[s].id] = [store[cmd[s].id] EXCEPT !.category = cmd[s].category]

Writes(s) == pc[s] \notin Unwritten =>
    IF cmd[s].operation \in Checked THEN Rewrote(s) ELSE WroteOne(s)

SessionInv(s) == Sane(s) /\ Reads(s) /\ Sees(s) /\ NothingYet(s) /\ Writes(s)

(* A version with the same revision is the first to have a category.        *)
FirstCategory == \A i \in Ids : locks[i] # NoSession =>
    /\ dirty[i].status # "absent"
    /\ dirty[i].revision = store[i].revision => store[i].category = NoCategory

(* The service adds cancellations only, and no replacement row vanishes.    *)
ReplacedKnown ==
    /\ \A o \in overrides : o.replacement # Keep => o \in Replaced
    /\ \A s \in Sessions : \A o \in inserted[s] : o.replacement = Keep
    /\ \A i \in Seeded : store[i].status # "absent"

LedgerInv == FirstCategory /\ ReplacedKnown /\ \A s \in Sessions : SessionInv(s)

(* The committed rows move on, and an override takes a revision.            *)
MovesOn(j) ==
    /\ guesses[j] <= guesses'[j]
    /\ \/ store'[j] = store[j]
       \/ /\ store[j].status # "deleted" \/ guesses'[j] > 0
          /\ \/ store'[j].revision = store[j].revision + 1
             \/ /\ store'[j].revision = store[j].revision /\ SameButCategory(store'[j], store[j])
                /\ store[j].category = NoCategory
OverridesMove(j) ==
    \/ ExceptionsOf(j)' = ExceptionsOf(j)
    \/ ExceptionsOf(j) \subseteq ExceptionsOf(j)' /\ store'[j].revision = store[j].revision + 1

LocalsKept(t) ==
    /\ pc'[t] = pc[t] /\ cmd'[t] = cmd[t] /\ snap'[t] = snap[t] /\ seen'[t] = seen[t]
    /\ todo'[t] = todo[t] /\ victim'[t] = victim[t] /\ inserted'[t] = inserted[t]
LocksKept(t) == \A j \in Ids :
    /\ locks'[j] = t <=> locks[j] = t
    /\ locks[j] = t => dirty'[j] = dirty[j] /\ store'[j] = store[j]

LEMMA ReadStays ==
    ASSUME TypeOK, TypeOK', NEW row \in Row, NEW j \in Ids, MovesOn(j), ReadAs(row, j)
    PROVE  /\ row.status = "active" /\ row.revision <= store'[j].revision
           /\ row.revision = store'[j].revision =>
                  SameButCategory(row, store'[j])
                  /\ row.category \in {store'[j].category, NoCategory}
                  /\ row.revision = store[j].revision
<1>1. store[j] \in Row /\ store'[j] \in Row
  BY DEF TypeOK
<1> QED BY <1>1 DEF ReadAs, StillCurrent, SameButCategory, MovesOn, Row

LEMMA LocalsSame ==
    ASSUME NEW t \in Sessions, LocalsKept(t)
    PROVE  /\ Doomed(t)' = Doomed(t) /\ Candidate(t)' = Candidate(t)
           /\ Target(t)' = Target(t) /\ FirstFor(t)' = FirstFor(t)
<1>1. FirstFor(t)' = FirstFor(t)
  BY DEF LocalsKept, FirstFor, FirstActive, Remaining
<1>2. Target(t)' = Target(t)
  BY <1>1 DEF Target, FirstFor
<1>3. Doomed(t)' = Doomed(t)
  BY <1>2 DEF Doomed, LocalsKept, ReplacesAt
<1>4. Candidate(t)' = Candidate(t)
  BY <1>2 DEF Candidate, LocalsKept, Patched, Merge, Deleted, Before
<1> QED BY <1>1, <1>2, <1>3, <1>4

(* A session keeps its part of the invariant while the others move the      *)
(* tables on and leave what it has locked alone.                            *)
LEMMA OthersKeep ==
    ASSUME TypeOK, TypeOK', NEW t \in Sessions, SessionInv(t), LocalsKept(t), LocksKept(t),
           \A j \in Ids : MovesOn(j) /\ OverridesMove(j)
    PROVE  SessionInv(t)'
<1> DEFINE i == cmd[t].id
<1>0. /\ i \in Ids /\ snap[t] \in Row /\ victim[t].row \in Row /\ victim[t].id \in Ids
      /\ cmd[t].operation \in Operations /\ store[i] \in Row /\ store'[i] \in Row
      /\ seen[t] \in SUBSET Override
  BY DEF TypeOK, Command
<1>1. /\ Doomed(t)' = Doomed(t) /\ Candidate(t)' = Candidate(t)
      /\ Target(t)' = Target(t) /\ FirstFor(t)' = FirstFor(t)
  BY LocalsSame
<1>2. Sane(t)'
  <2>1. cmd'[t] = cmd[t] /\ snap'[t] = snap[t] /\ pc'[t] = pc[t]
    BY DEF LocalsKept
  <2> QED BY <1>1, <2>1 DEF SessionInv, Sane, ValidRow, Patched, Merge
<1>3. ASSUME NEW row \in Row, NEW j \in Ids, ReadAs(row, j)
      PROVE  /\ row.status = "active" /\ row.revision <= store'[j].revision
             /\ row.revision = store'[j].revision =>
                    SameButCategory(row, store'[j])
                    /\ row.category \in {store'[j].category, NoCategory}
                    /\ row.revision = store[j].revision
  BY <1>3, ReadStays
<1>4. Reads(t)'
  BY <1>0, <1>3 DEF SessionInv, Reads, LocalsKept, ReadAs, StillCurrent, SameButCategory
<1>5. Sees(t)'
  <2> SUFFICES ASSUME pc[t] \notin {"idle", "overrides"}, cmd[t].operation \in SeriesScopes
               PROVE  /\ seen[t] \subseteq {o \in overrides' : o.schedule = i}
                      /\ snap[t].revision = store'[i].revision =>
                             seen[t] = {o \in overrides' : o.schedule = i}
                      /\ cmd[t].operation \in RangeScopes => FirstFor(t) # {}
    BY <1>1 DEF Sees, LocalsKept, ExceptionsOf
  <2>1. cmd[t].operation \in Checked
    BY DEF Checked
  <2>2. ReadAs(snap[t], i)
    BY <2>1 DEF SessionInv, Reads
  <2>3. ASSUME snap[t].revision = store'[i].revision
        PROVE  seen[t] = {o \in overrides' : o.schedule = i}
    <3>1. snap[t].revision = store[i].revision
      BY <1>0, <1>3, <2>2, <2>3
    <3>2. store'[i].revision # store[i].revision + 1
      BY <1>0, <2>3, <3>1 DEF Row
    <3> QED BY <1>0, <3>1, <3>2 DEF OverridesMove, SessionInv, Sees, ExceptionsOf
  <2>4. seen[t] \subseteq {o \in overrides' : o.schedule = i}
    BY <1>0 DEF OverridesMove, SessionInv, Sees, ExceptionsOf
  <2> QED BY <2>3, <2>4 DEF SessionInv, Sees
<1>6. NothingYet(t)'
  BY DEF SessionInv, NothingYet, LocalsKept, LocksKept
<1>7. ASSUME NEW row \in Row, NEW j \in Ids, locks[j] = t, ReadNow(row, j)
      PROVE  ReadNow(row, j)'
  BY <1>7 DEF LocksKept, ReadNow, ReadAs, StillCurrent, SameButCategory
<1>8. ASSUME NEW j \in Ids, store[j].status = "deleted" \/ guesses[j] > 0
      PROVE  store'[j].status = "deleted" \/ guesses'[j] > 0
  BY <1>8 DEF MovesOn, TypeOK
<1>9. Writes(t)'
  <2> SUFFICES ASSUME pc[t] \notin Unwritten
               PROVE  IF cmd[t].operation \in Checked THEN Rewrote(t)' ELSE WroteOne(t)'
    BY DEF Writes, LocalsKept
  <2>1. CASE cmd[t].operation \in Checked
    <3>1. Rewrote(t)
      BY <2>1 DEF SessionInv, Writes
    <3>2. locks[i] = t /\ locks'[i] = t /\ dirty'[i] = dirty[i] /\ store'[i] = store[i]
      BY <1>0, <3>1 DEF Rewrote, LocksKept
    <3>3. Guessed(t)' \/ ReadNow(snap[t], i)'
      <4>0. cmd'[t] = cmd[t] /\ snap'[t] = snap[t]
        BY DEF LocalsKept
      <4>1. CASE Guessed(t)
        BY <4>0, <4>1 DEF Guessed
      <4>2. CASE ReadNow(snap[t], i)
        <5>1. PICK row \in Row, j \in Ids : row = snap[t] /\ j = i
          BY <1>0
        <5>2. ReadNow(row, j)' /\ row = snap'[t] /\ j = cmd'[t].id
          BY <1>7, <3>2, <4>0, <4>2, <5>1
        <5> QED BY <5>2 DEF ReadNow, ReadAs, StillCurrent, SameButCategory
      <4> QED BY <3>1, <4>1, <4>2 DEF Rewrote
    <3>4. ASSUME NEW j \in Ids \ {i}, locks'[j] = t
          PROVE  j \in ReplacementsOf(Doomed(t)) /\ Removed(j)'
      <4>1. locks[j] = t /\ dirty'[j] = dirty[j]
        BY <3>4 DEF LocksKept
      <4>2. PICK row \in Row : ReadNow(row, j) /\ dirty[j] = Bump(Deleted(row))
        BY <3>1, <4>1 DEF Rewrote, Removed
      <4> QED BY <1>7, <3>1, <4>1, <4>2 DEF Rewrote, Removed
    <3>5. ASSUME NEW e \in Doomed(t) PROVE Visited(t, e)'
      <4>1. Visited(t, e) /\ e.replacement \in Ids
        BY <1>0, <3>1, CandidateType DEF Rewrote, Override, Ids
      <4> QED BY <1>8, <4>1 DEF Visited, LocalsKept, LocksKept
    <3>6. Rewrote(t)'
      <4>1. ReplacementsOf(Doomed(t))' = ReplacementsOf(Doomed(t))
        BY <1>1 DEF ReplacementsOf
      <4>2. cmd'[t] = cmd[t] /\ snap'[t] = snap[t] /\ pc'[t] = pc[t] /\ todo'[t] = todo[t]
            /\ victim'[t] = victim[t] /\ inserted'[t] = inserted[t]
        BY DEF LocalsKept
      <4>3. locks'[i] = t
            /\ dirty'[i] = [Candidate(t)' EXCEPT !.revision = store'[i].revision + 1]
        BY <1>1, <3>1, <3>2 DEF Rewrote
      <4>4. \A j \in Ids \ {i} : locks'[j] = t => j \in ReplacementsOf(Doomed(t))' /\ Removed(j)'
        BY <3>4, <4>1
      <4>5. /\ todo'[t] \subseteq Doomed(t)'
            /\ pc'[t] \in {"insert", "commit"} => todo'[t] = {}
            /\ pc'[t] = "delete_replacement" => victim'[t].id \in ReplacementsOf(Doomed(t))'
        BY <1>1, <3>1, <4>1, <4>2 DEF Rewrote
      <4>6. \A e \in Doomed(t)' : Visited(t, e)'
        BY <1>1, <3>5
      <4>7. inserted'[t] =
              IF pc'[t] = "commit" /\ cmd'[t].operation = "this_occurrence" /\ Doomed(t)' = {}
              THEN {[schedule |-> cmd'[t].id, occurrence |-> Target(t)', replacement |-> Keep]}
              ELSE {}
        BY <1>1, <3>1, <4>2 DEF Rewrote
      <4>8. inserted'[t] # {} => ~ HasOverride(overrides', cmd'[t].id, Target(t)')
        <5>1. {o \in overrides' : o.schedule = i} = ExceptionsOf(i)
          <6>1. PICK j \in Ids : j = i
            BY <1>0
          <6>2. store'[j].revision # store[j].revision + 1
            BY <1>0, <3>2, <6>1 DEF Row
          <6>3. {o \in overrides' : o.schedule = j} = {o \in overrides : o.schedule = j}
            BY <6>2 DEF OverridesMove, ExceptionsOf
          <6> QED BY <6>1, <6>3 DEF ExceptionsOf
        <5>2. inserted[t] # {} => ~ HasOverride(overrides, i, Target(t))
          BY <3>1 DEF Rewrote
        <5> QED BY <1>1, <4>2, <5>1, <5>2 DEF HasOverride, ExceptionsOf
      <4>9. Guessed(t)' \/ ReadNow(snap[t], cmd[t].id)'
        BY <3>3, <4>2 DEF Guessed, ReadNow, ReadAs, StillCurrent, SameButCategory
      <4> QED BY <4>2, <4>3, <4>4, <4>5, <4>6, <4>7, <4>8, <4>9
              DEF Rewrote
    <3> QED BY <2>1, <3>6
  <2>2. CASE cmd[t].operation \notin Checked
    <3>1. WroteOne(t)
      BY <2>2 DEF SessionInv, Writes
    <3>2. locks[i] = t /\ dirty'[i] = dirty[i] /\ store'[i] = store[i]
      BY <1>0, <3>1 DEF WroteOne, LocksKept
    <3>3. WroteOne(t)'
      BY <1>0, <3>1, <3>2 DEF WroteOne, LocalsKept, LocksKept, ValidRow, Bump
    <3> QED BY <2>2, <3>3
  <2> QED BY <2>1, <2>2
<1> QED BY <1>2, <1>4, <1>5, <1>6, <1>9 DEF SessionInv

(* A session's step that is not a commit: the tables stay, no lock of       *)
(* another session is touched.                                              *)
OwnStep(s) ==
    /\ UNCHANGED table
    /\ \A t \in Sessions \ {s} : LocalsKept(t)
    /\ \A j \in Ids : \/ locks'[j] = locks[j] /\ dirty'[j] = dirty[j]
                      \/ locks[j] \in {s, NoSession} /\ locks'[j] \in {s, NoSession}

LEMMA OwnStepKeeps ==
    ASSUME TypeOK, TypeOK', LedgerInv, NEW s \in Sessions, OwnStep(s), SessionInv(s)',
           FirstCategory', \A o \in inserted'[s] : o.replacement = Keep
    PROVE  LedgerInv'
<1>1. UNCHANGED <<store, overrides, guesses>>
  BY DEF OwnStep, table
<1>2. ASSUME NEW t \in Sessions \ {s} PROVE SessionInv(t)'
  <2>1. t # NoSession
    BY ScheduleServiceAssumption DEF Sessions
  <2>2. LocksKept(t)
    BY <1>1, <2>1 DEF OwnStep, LocksKept
  <2>3. \A j \in Ids : MovesOn(j) /\ OverridesMove(j)
    BY <1>1 DEF MovesOn, OverridesMove, ExceptionsOf, TypeOK
  <2>4. LocalsKept(t) /\ SessionInv(t)
    BY DEF OwnStep, LedgerInv
  <2> QED BY <2>2, <2>3, <2>4, OthersKeep
<1>3. ReplacedKnown'
  <2>1. \A t \in Sessions \ {s} : inserted'[t] = inserted[t]
    BY DEF OwnStep, LocalsKept
  <2> QED BY <1>1, <2>1 DEF LedgerInv, ReplacedKnown
<1> QED BY <1>2, <1>3 DEF LedgerInv

(* A session that has ended claims nothing.                                 *)
LEMMA CloseSession ==
    ASSUME TypeOK, NEW s \in Sessions, Close(s)
    PROVE  SessionInv(s)' /\ inserted'[s] = {}
<1>1. pc'[s] = "idle" /\ inserted'[s] = {} /\ \A j \in Ids : locks'[j] # s
  <2>1. s # NoSession
    BY ScheduleServiceAssumption DEF Sessions
  <2> QED BY <2>1 DEF Close, Goto, TypeOK
<1> QED BY <1>1 DEF SessionInv, Sane, Reads, Sees, NothingYet, Writes, Unwritten

LEMMA CloseOthers ==
    ASSUME TypeOK, NEW s \in Sessions, Close(s)
    PROVE  /\ \A t \in Sessions \ {s} : LocalsKept(t)
           /\ \A j \in Ids : IF locks[j] = s THEN locks'[j] = NoSession
                             ELSE locks'[j] = locks[j] /\ dirty'[j] = dirty[j]
BY DEF Close, Goto, TypeOK, LocalsKept

LEMMA RollbackLedger ==
    ASSUME TypeOK, TypeOK', LedgerInv, NEW s \in Sessions, Rollback(s)
    PROVE  LedgerInv'
<1>1. Close(s) /\ UNCHANGED table
  BY DEF Rollback
<1>2. OwnStep(s)
  BY <1>1, CloseOthers DEF OwnStep
<1>3. FirstCategory'
  BY <1>1, CloseOthers DEF LedgerInv, FirstCategory, table
<1> QED BY <1>1, <1>2, <1>3, CloseSession, OwnStepKeeps

(* Statements that only move the session on, or write one row.              *)
LEMMA MoveLedger ==
    ASSUME TypeOK, TypeOK', LedgerInv, NEW s \in Sessions, UNCHANGED <<table, dirty, locks>>,
           \A t \in Sessions \ {s} : LocalsKept(t), SessionInv(s)',
           \A o \in inserted'[s] : o.replacement = Keep
    PROVE  LedgerInv'
BY OwnStepKeeps DEF OwnStep, LedgerInv, FirstCategory, table

LEMMA PutLedger ==
    ASSUME TypeOK, TypeOK', LedgerInv, NEW s \in Sessions, NEW i \in Ids, NEW row \in Row,
           Put(s, i, row), locks[i] = NoSession, UNCHANGED <<table, inserted>>,
           \A t \in Sessions \ {s} : LocalsKept(t), SessionInv(s)',
           row.status # "absent",
           row.revision = store[i].revision => store[i].category = NoCategory
    PROVE  LedgerInv'
<1>1. /\ locks'[i] = s /\ dirty'[i] = row
      /\ \A j \in Ids \ {i} : locks'[j] = locks[j] /\ dirty'[j] = dirty[j]
  BY DEF Put, TypeOK
<1>2. OwnStep(s)
  BY <1>1 DEF OwnStep
<1>3. FirstCategory'
  BY <1>1 DEF LedgerInv, FirstCategory, table
<1>4. \A o \in inserted'[s] : o.replacement = Keep
  BY DEF LedgerInv, ReplacedKnown
<1> QED BY <1>2, <1>3, <1>4, OwnStepKeeps

LEMMA InitLedger == Init => LedgerInv
<1> SUFFICES ASSUME Init PROVE LedgerInv
  OBVIOUS
<1>1. FirstCategory
  BY DEF Init, FirstCategory
<1>2. ReplacedKnown
  BY FreshType DEF Init, ReplacedKnown, FirstTable
<1>3. ASSUME NEW s \in Sessions PROVE SessionInv(s)
  <2>1. s # NoSession
    BY ScheduleServiceAssumption DEF Sessions
  <2> QED BY <2>1 DEF Init, SessionInv, Sane, Reads, Sees, NothingYet, Writes, Unwritten
<1> QED BY <1>1, <1>2, <1>3 DEF LedgerInv

(* A first SELECT: what it reads is current, and nothing is written.        *)
LEMMA BeginLedger ==
    ASSUME TypeOK, TypeOK', LedgerInv, NEW s \in Sessions,
           NEW operation \in Checked \cup {"confirm"}, NEW i \in Ids, NEW expected, NEW changes,
           NEW now, Begin(s, operation, i, expected, changes, now),
           operation = "update" => changes \in Patches /\ ValidRow(i, Patched(store[i], changes)),
           operation = "delete_once" => i \in Once,
           operation \in SeriesScopes => i \in Series
    PROVE  LedgerInv'
<1> USE DEF Checked, SeriesScopes, RangeScopes
<1>1. /\ pc[s] = "idle" /\ UNCHANGED <<table, dirty, locks, inserted, seen, todo, victim>>
      /\ store[i].status = "active"
      /\ cmd'[s].operation = operation /\ cmd'[s].id = i /\ cmd'[s].changes = changes
      /\ snap'[s] = store[i]
      /\ pc'[s] = IF operation \in SeriesScopes THEN "overrides" ELSE "write"
  BY DEF Begin, Goto, TypeOK
<1>2. \A t \in Sessions \ {s} : LocalsKept(t)
  BY DEF Begin, Goto, TypeOK, LocalsKept
<1>3. UNCHANGED store /\ store[i] \in Row
  BY <1>1 DEF table, TypeOK
<1>4. Sane(s)'
  BY <1>1, <1>3 DEF Sane
<1>5. Reads(s)'
  BY <1>1, <1>3 DEF Reads, ReadAs, StillCurrent, SameButCategory, Row
<1>6. Sees(s)'
  BY <1>1 DEF Sees
<1>7. NothingYet(s)' /\ Writes(s)'
  BY <1>1 DEF LedgerInv, SessionInv, NothingYet, Writes, Unwritten
<1>8. \A o \in inserted'[s] : o.replacement = Keep
  BY <1>1 DEF LedgerInv, ReplacedKnown
<1> QED BY <1>1, <1>2, <1>4, <1>5, <1>6, <1>7, <1>8, MoveLedger DEF SessionInv

LEMMA CreateLedger ==
    ASSUME TypeOK, TypeOK', LedgerInv, NEW s \in Callers, Create(s)
    PROVE  LedgerInv'
<1>1. PICK i \in Ids, row \in Fresh :
          /\ store[i] = Absent /\ locks[i] = NoSession /\ ValidRow(i, row) /\ Put(s, i, row)
          /\ cmd' = [cmd EXCEPT ![s] = [NoCommand EXCEPT !.operation = "create", !.id = i]]
  BY DEF Create
<1>2. s \in Sessions /\ row \in Row /\ row.status = "active" /\ row.revision = 1
  BY FreshType DEF Sessions, Fresh
<1>3. /\ pc[s] = "idle" /\ UNCHANGED <<table, inserted, snap, seen, todo, victim>>
      /\ pc' = [pc EXCEPT ![s] = "commit"]
  BY DEF Create, Goto
<1>4. /\ cmd'[s].operation = "create" /\ cmd'[s].id = i /\ pc'[s] = "commit"
      /\ UNCHANGED <<store, overrides>>
  BY <1>1, <1>2, <1>3 DEF TypeOK, NoCommand, table
<1>5. /\ locks'[i] = s /\ dirty'[i] = row
      /\ \A j \in Ids \ {i} : locks'[j] = locks[j]
  BY <1>1 DEF Put, TypeOK
<1>6. inserted[s] = {} /\ \A j \in Ids : locks[j] # s
  BY <1>2, <1>3 DEF LedgerInv, SessionInv, NothingYet, Unwritten
<1>7. \A t \in Sessions \ {s} : LocalsKept(t)
  BY <1>1, <1>2, <1>3 DEF TypeOK, LocalsKept
<1>8. SessionInv(s)'
  <2>1. WroteOne(s)'
    BY <1>1, <1>3, <1>4, <1>5, <1>6 DEF WroteOne
  <2> QED BY <1>4, <2>1 DEF SessionInv, Sane, Reads, Sees, NothingYet, Writes, Unwritten,
                            Checked, SeriesScopes, RangeScopes
<1>9. row.revision = store[i].revision => store[i].category = NoCategory
  BY <1>1, <1>2 DEF Absent
<1> QED BY <1>1, <1>2, <1>3, <1>7, <1>8, <1>9, PutLedger

LEMMA ClassifyLedger ==
    ASSUME TypeOK, TypeOK', LedgerInv, NEW s \in Workers, NEW i \in Ids,
           NEW category \in Categories \cup {NoCategory}, StartClassify(s, i, category)
    PROVE  LedgerInv'
<1> USE DEF Checked, SeriesScopes, RangeScopes
<1>1. /\ s \in Sessions /\ pc[s] = "idle"
      /\ UNCHANGED <<table, dirty, locks, inserted, snap, seen, todo, victim>>
  BY DEF StartClassify, Sessions
<1>2. \A t \in Sessions \ {s} : LocalsKept(t)
  BY <1>1 DEF StartClassify, Goto, TypeOK, LocalsKept
<1>3. inserted[s] = {} /\ (\A j \in Ids : locks[j] # s) /\ inserted' = inserted /\ locks' = locks
  BY <1>1 DEF LedgerInv, SessionInv, NothingYet, Unwritten
<1>4. pc'[s] = "idle" \/ (/\ pc'[s] = "write" /\ cmd'[s].operation = "classify"
                          /\ cmd'[s].category \in Categories)
  <2> DEFINE c == [NoCommand EXCEPT !.operation = "classify", !.id = i, !.category = category]
  <2>1. c.operation = "classify" /\ c.category = category
    BY DEF NoCommand
  <2>2. \/ UNCHANGED <<pc, cmd>>
        \/ category # NoCategory /\ pc' = [pc EXCEPT ![s] = "write"] /\ cmd' = [cmd EXCEPT ![s] = c]
    BY DEF StartClassify, Goto
  <2> HIDE DEF c
  <2> QED BY <1>1, <2>1, <2>2 DEF TypeOK
<1>5. SessionInv(s)'
  BY <1>3, <1>4 DEF SessionInv, Sane, Reads, Sees, NothingYet, Writes, Unwritten
<1> QED BY <1>1, <1>2, <1>3, <1>5, MoveLedger

LEMMA ReadOverridesLedger ==
    ASSUME TypeOK, TypeOK', LedgerInv, NEW s \in Sessions, ReadOverrides(s)
    PROVE  LedgerInv'
<1>1. CASE Rollback(s)
  BY <1>1, RollbackLedger
<1>2. CASE ~Rollback(s)
  <2> DEFINE exceptions == {o \in overrides : o.schedule = cmd[s].id}
  <2>1. /\ pc[s] = "overrides"
        /\ ~ (/\ cmd[s].operation \in RangeScopes
              /\ FirstActive(snap[s].rule, exceptions, cmd[s].now) = {})
        /\ seen' = [seen EXCEPT ![s] = exceptions] /\ pc' = [pc EXCEPT ![s] = "write"]
        /\ UNCHANGED <<table, dirty, locks, inserted, cmd, snap, todo, victim, queued>>
    BY <1>2 DEF ReadOverrides, Goto
  <2>2. /\ seen'[s] = exceptions /\ pc'[s] = "write" /\ UNCHANGED <<store, overrides>>
        /\ \A t \in Sessions \ {s} : LocalsKept(t)
    BY <2>1 DEF TypeOK, LocalsKept, table
  <2> HIDE DEF exceptions
  <2>3. cmd[s].operation \in SeriesScopes /\ cmd[s].operation \in Checked
    BY <2>1 DEF LedgerInv, SessionInv, Sane, Checked
  <2>4. Sane(s)'
    BY <2>1, <2>2, <2>3 DEF LedgerInv, SessionInv, Sane, Checked, SeriesScopes, RangeScopes
  <2>5. Reads(s)'
    BY <2>1, <2>2, <2>3
    DEF LedgerInv, SessionInv, Reads, ReadAs, StillCurrent, SameButCategory
  <2>6. Sees(s)'
    BY <2>1, <2>2 DEF Sees, FirstFor, ExceptionsOf, FirstActive, Remaining, exceptions
  <2>7. NothingYet(s)' /\ Writes(s)'
    BY <2>1, <2>2 DEF LedgerInv, SessionInv, NothingYet, Writes, Unwritten
  <2>8. \A o \in inserted'[s] : o.replacement = Keep
    BY <2>1 DEF LedgerInv, ReplacedKnown
  <2> QED BY <2>1, <2>2, <2>4, <2>5, <2>6, <2>7, <2>8, MoveLedger DEF SessionInv
<1> QED BY <1>1, <1>2

LEMMA ConfirmLedger ==
    ASSUME TypeOK, TypeOK', LedgerInv, NEW s \in Sessions, ConfirmReminder(s)
    PROVE  LedgerInv'
<1> USE DEF Checked, SeriesScopes, RangeScopes
<1>1. CASE Rollback(s)
  BY <1>1, RollbackLedger
<1>2. CASE ~Rollback(s)
  <2> DEFINE i == cmd[s].id
             row == [Bump(store[i]) EXCEPT !.disposition = "confirmed"]
  <2>1. /\ pc[s] = "write" /\ cmd[s].operation = "confirm" /\ locks[i] = NoSession
        /\ store[i].status = "active" /\ store[i].reminder = "set"
        /\ store[i].disposition = "none"
        /\ Put(s, i, row) /\ pc' = [pc EXCEPT ![s] = "commit"]
        /\ UNCHANGED <<table, inserted, local>>
    BY <1>2 DEF ConfirmReminder, Goto
  <2>2. i \in Ids /\ store[i] \in Row
    BY DEF TypeOK, Command
  <2>3. row \in Row /\ row.status = "active" /\ row.revision # store[i].revision
    <3> DEFINE b == Bump(store[i])
    <3>1. b \in Row /\ b.status = "active" /\ b.revision = store[i].revision + 1
      <4>1. b \in Row
        BY <2>2, RowOperators
      <4>2. store[i].status = "active" /\ store[i] \in Row
        BY <2>1, <2>2
      <4> HIDE DEF i
      <4> QED BY <4>1, <4>2 DEF Bump, Row
    <3> HIDE DEF b
    <3>2. [b EXCEPT !.disposition = "confirmed"] \in Row
          /\ [b EXCEPT !.disposition = "confirmed"].status = "active"
          /\ [b EXCEPT !.disposition = "confirmed"].revision = store[i].revision + 1
      BY <3>1 DEF Row
    <3> QED BY <2>2, <3>1, <3>2 DEF Row, b
  <2> HIDE DEF row
  <2>4. /\ locks'[i] = s /\ dirty'[i] = row /\ \A j \in Ids \ {i} : locks'[j] = locks[j]
    BY <2>1, <2>2 DEF Put, TypeOK
  <2>5. /\ pc'[s] = "commit" /\ UNCHANGED <<store, overrides, cmd, inserted>>
        /\ \A t \in Sessions \ {s} : LocalsKept(t)
    BY <2>1 DEF TypeOK, LocalsKept, local, table
  <2>6. inserted[s] = {} /\ \A j \in Ids : locks[j] # s
    BY <2>1 DEF LedgerInv, SessionInv, NothingYet, Unwritten
  <2>7. WroteOne(s)'
    BY <2>1, <2>2, <2>4, <2>5, <2>6 DEF WroteOne, row, Bump
  <2>8. SessionInv(s)'
    BY <2>1, <2>5, <2>7 DEF SessionInv, Sane, Reads, Sees, NothingYet, Writes, Unwritten
  <2> QED BY <2>1, <2>2, <2>3, <2>5, <2>8, PutLedger
<1> QED BY <1>1, <1>2

LEMMA SetCategoryLedger ==
    ASSUME TypeOK, TypeOK', LedgerInv, NEW s \in Sessions, SetCategory(s)
    PROVE  LedgerInv'
<1> USE DEF Checked, SeriesScopes, RangeScopes
<1>1. CASE Rollback(s)
  BY <1>1, RollbackLedger
<1>2. CASE ~Rollback(s)
  <2> DEFINE i == cmd[s].id
             row == [store[i] EXCEPT !.category = cmd[s].category]
  <2>1. /\ pc[s] = "write" /\ cmd[s].operation = "classify" /\ locks[i] = NoSession
        /\ store[i].status = "active" /\ store[i].category = NoCategory
        /\ Put(s, i, row) /\ pc' = [pc EXCEPT ![s] = "commit"]
        /\ UNCHANGED <<table, inserted, local>>
    BY <1>2 DEF SetCategory, Goto
  <2>2. i \in Ids /\ store[i] \in Row /\ cmd[s].category \in Categories \cup {NoCategory}
        /\ cmd[s].category \in Categories
    BY <2>1 DEF TypeOK, Command, LedgerInv, SessionInv, Sane
  <2>3. row \in Row /\ row.status = "active"
    BY <2>1, <2>2 DEF Row
  <2> HIDE DEF row
  <2>4. /\ locks'[i] = s /\ dirty'[i] = row /\ \A j \in Ids \ {i} : locks'[j] = locks[j]
    BY <2>1, <2>2 DEF Put, TypeOK
  <2>5. /\ pc'[s] = "commit" /\ UNCHANGED <<store, overrides, cmd, inserted>>
        /\ \A t \in Sessions \ {s} : LocalsKept(t)
    BY <2>1 DEF TypeOK, LocalsKept, local, table
  <2>6. inserted[s] = {} /\ \A j \in Ids : locks[j] # s
    BY <2>1 DEF LedgerInv, SessionInv, NothingYet, Unwritten
  <2>7. WroteOne(s)'
    BY <2>1, <2>2, <2>4, <2>5, <2>6 DEF WroteOne, row
  <2>8. SessionInv(s)'
    BY <2>1, <2>2, <2>5, <2>7 DEF SessionInv, Sane, Reads, Sees, NothingYet, Writes, Unwritten
  <2> QED BY <2>1, <2>2, <2>3, <2>5, <2>8, PutLedger
<1> QED BY <1>1, <1>2

(* The UPDATE at the expected revision: what was read is what is there.     *)
LEMMA UpdateLedger ==
    ASSUME TypeOK, TypeOK', RevisionGuards, LedgerInv, NEW s \in Sessions, UpdateSchedule(s)
    PROVE  LedgerInv'
<1>1. CASE Rollback(s)
  BY <1>1, RollbackLedger
<1>2. CASE ~Rollback(s)
  <2> DEFINE i == cmd[s].id
             row == [Candidate(s) EXCEPT !.revision = store[i].revision + 1]
  <2>1. /\ pc[s] = "write" /\ cmd[s].operation \in Checked /\ locks[i] = NoSession
        /\ store[i].revision = cmd[s].expected
        /\ Put(s, i, row) /\ todo' = [todo EXCEPT ![s] = Doomed(s)]
        /\ pc' = [pc EXCEPT ![s] = AfterUpdate(s)]
        /\ UNCHANGED <<table, inserted, cmd, snap, seen, victim>>
    BY <1>2 DEF UpdateSchedule, Goto
  <2>2. /\ i \in Ids /\ store[i] \in Row /\ snap[s] \in Row /\ cmd[s].expected \in Nat
        /\ Candidate(s) \in Row
    BY CandidateType DEF TypeOK, Command
  <2>3. ReadAs(snap[s], i) /\ (Guessed(s) \/ ReadNow(snap[s], i))
    <3>1. ReadAs(snap[s], i)
      BY <2>1 DEF LedgerInv, SessionInv, Reads
    <3>2. snap[s].revision <= cmd[s].expected /\ snap[s].revision \in Nat
      BY <2>1, <2>2, <3>1 DEF ReadAs, StillCurrent, Row
    <3> QED BY <2>1, <2>2, <3>1, <3>2 DEF ReadNow, Guessed
  <2>4. row \in Row /\ row.revision # store[i].revision
    BY <2>2 DEF Row
  <2>5. row.status # "absent"
    <3>1. Candidate(s).status # "absent"
      BY <2>2, <2>3 DEF Candidate, Patched, Deleted, ReadAs, StillCurrent, Row
    <3> QED BY <2>2, <3>1 DEF Row
  <2> HIDE DEF row
  <2>6. /\ locks'[i] = s /\ dirty'[i] = row /\ \A j \in Ids \ {i} : locks'[j] = locks[j]
    BY <2>1, <2>2 DEF Put, TypeOK
  <2>7. /\ UNCHANGED <<store, overrides, cmd, snap, seen, victim, inserted>>
        /\ pc'[s] = AfterUpdate(s) /\ todo'[s] = Doomed(s)
        /\ \A t \in Sessions \ {s} : LocalsKept(t)
    BY <2>1 DEF TypeOK, LocalsKept, table
  <2>8. inserted[s] = {} /\ \A j \in Ids : locks[j] # s
    BY <2>1 DEF LedgerInv, SessionInv, NothingYet, Unwritten
  <2>9. /\ Doomed(s)' = Doomed(s) /\ Candidate(s)' = Candidate(s)
        /\ Target(s)' = Target(s) /\ FirstFor(s)' = FirstFor(s)
    BY <2>7 DEF Doomed, Candidate, Target, FirstFor, ReplacesAt
  <2>10. /\ AfterUpdate(s) \in {"replacement", "insert", "commit"}
         /\ AfterUpdate(s) = "insert" => cmd[s].operation = "this_occurrence" /\ Doomed(s) = {}
         /\ AfterUpdate(s) = "commit" => cmd[s].operation # "this_occurrence" /\ Doomed(s) = {}
    BY DEF AfterUpdate
  <2>11. Rewrote(s)'
    <3>1. Guessed(s)' \/ ReadNow(snap[s], cmd[s].id)'
      BY <2>3, <2>7 DEF Guessed, ReadNow, ReadAs, StillCurrent, SameButCategory
    <3>2. \A j \in Ids \ {i} : locks'[j] # s
      BY <2>6, <2>8
    <3>3. \A e \in Doomed(s)' : Visited(s, e)'
      BY <2>7, <2>9 DEF Visited
    <3>4. dirty'[i] = [Candidate(s)' EXCEPT !.revision = store'[i].revision + 1]
      BY <2>6, <2>7, <2>9 DEF row
    <3> QED BY <2>6, <2>7, <2>8, <2>9, <2>10, <3>1, <3>2, <3>3, <3>4 DEF Rewrote
  <2>12. SessionInv(s)'
    <3>1. Sane(s)'
      BY <2>1, <2>7, <2>9, <2>10 DEF LedgerInv, SessionInv, Sane
    <3>2. Reads(s)'
      BY <2>1, <2>7, <2>10
      DEF LedgerInv, SessionInv, Reads, ReadAs, StillCurrent, SameButCategory
    <3>3. Sees(s)'
      BY <2>1, <2>7, <2>9, <2>10 DEF LedgerInv, SessionInv, Sees, ExceptionsOf
    <3>4. NothingYet(s)' /\ Writes(s)'
      BY <2>1, <2>7, <2>10, <2>11 DEF NothingYet, Writes, Unwritten
    <3> QED BY <3>1, <3>2, <3>3, <3>4 DEF SessionInv
  <2> QED BY <2>1, <2>2, <2>4, <2>5, <2>7, <2>12, PutLedger
<1> QED BY <1>1, <1>2

(* There is one first active occurrence, or none.                           *)
LEMMA TargetFacts ==
    ASSUME TypeOK, NEW s \in Sessions, FirstFor(s) # {}
    PROVE  Target(s) \in Occurrences /\ FirstFor(s) = {Target(s)}
<1>1. FirstFor(s) \subseteq Occurrences
  BY DEF FirstFor, FirstActive, Remaining, TypeOK, Row
<1>2. \A o, p \in FirstFor(s) : o <= p /\ p <= o
  BY DEF FirstFor, FirstActive
<1>3. Target(s) = CHOOSE o \in Occurrences : o \in FirstFor(s)
  BY DEF Target, FirstFor
<1>4. Target(s) \in Occurrences /\ Target(s) \in FirstFor(s)
  BY <1>1, <1>3
<1>5. \A o \in FirstFor(s) : o \in Int
  BY <1>1, ScheduleRowsAssumption
<1> QED BY <1>2, <1>4, <1>5

(* What _soft_delete_replacements visits are replacing overrides it has     *)
(* read, and only deletions of a series or of a part of it have any.        *)
LEMMA DoomedFacts ==
    ASSUME TypeOK, NEW s \in Sessions
    PROVE  /\ Doomed(s) \subseteq seen[s]
           /\ \A e \in Doomed(s) : e.replacement # Keep /\ e.replacement \in Ids
                                   /\ e \in Override /\ e.replacement \in Once
           /\ Doomed(s) # {} => cmd[s].operation \in SeriesScopes
<1>1. Doomed(s) \subseteq seen[s] /\ \A e \in Doomed(s) : e.replacement # Keep
  BY DEF Doomed, ReplacesAt
<1>2. Doomed(s) # {} => cmd[s].operation \in SeriesScopes
  BY DEF Doomed, SeriesScopes, RangeScopes
<1>3. seen[s] \subseteq Override
  BY DEF TypeOK
<1> QED BY <1>1, <1>2, <1>3 DEF Override, Ids

(* While a session holds the row, the overrides it read are the committed   *)
(* ones (some of them when it guessed), and the replacements among them are *)
(* there or deleted.                                                        *)
LEMMA SeenIsCurrent ==
    ASSUME TypeOK, LedgerInv, NEW s \in Sessions, pc[s] \notin Unwritten,
           cmd[s].operation \in SeriesScopes
    PROVE  /\ seen[s] \subseteq ExceptionsOf(cmd[s].id)
           /\ ~ Guessed(s) => seen[s] = ExceptionsOf(cmd[s].id)
           /\ cmd[s].operation \in RangeScopes => FirstFor(s) # {}
           /\ \A e \in Doomed(s) : store[e.replacement].status \in {"active", "deleted"}
<1>1. Rewrote(s)
  BY DEF LedgerInv, SessionInv, Writes, Checked
<1>2. /\ seen[s] \subseteq ExceptionsOf(cmd[s].id)
      /\ ~ Guessed(s) => seen[s] = ExceptionsOf(cmd[s].id)
      /\ cmd[s].operation \in RangeScopes => FirstFor(s) # {}
  BY <1>1 DEF LedgerInv, SessionInv, Sees, Rewrote, ReadNow, Unwritten
<1>3. ASSUME NEW e \in Doomed(s) PROVE store[e.replacement].status \in {"active", "deleted"}
  <2>1. e \in Replaced /\ e.replacement \in Ids
    BY <1>2, DoomedFacts DEF ExceptionsOf, LedgerInv, ReplacedKnown
  <2>2. e.replacement \in Seeded
    BY <2>1 DEF Seeded
  <2>3. store[e.replacement].status # "absent" /\ store[e.replacement] \in Row
    BY <2>1, <2>2 DEF LedgerInv, ReplacedKnown, TypeOK
  <2> QED BY <2>3 DEF Row
<1> QED BY <1>2, <1>3

LEMMA ReadReplacementLedger ==
    ASSUME TypeOK, TypeOK', LedgerInv, NEW s \in Sessions, ReadReplacement(s)
    PROVE  LedgerInv'
<1>1. PICK e \in todo[s] :
          /\ todo' = [todo EXCEPT ![s] = {d \in todo[s] : d.replacement # e.replacement}]
          /\ IF store[e.replacement].status = "active"
             THEN /\ victim' = [victim EXCEPT ![s] = [id |-> e.replacement,
                                                      row |-> store[e.replacement]]]
                  /\ Goto(s, "delete_replacement")
             ELSE /\ Goto(s, IF {d \in todo[s] : d.replacement # e.replacement} = {}
                             THEN "commit" ELSE "replacement")
                  /\ UNCHANGED victim
  BY DEF ReadReplacement
<1> DEFINE left == {d \in todo[s] : d.replacement # e.replacement}
<1>2. /\ pc[s] = "replacement"
      /\ UNCHANGED <<table, dirty, locks, inserted, cmd, snap, seen>>
  BY DEF ReadReplacement
<1>3. /\ todo'[s] = left /\ UNCHANGED <<store, overrides, guesses>>
      /\ \A t \in Sessions \ {s} : LocalsKept(t)
      /\ \/ /\ pc'[s] = "delete_replacement" /\ store[e.replacement].status = "active"
            /\ victim'[s].id = e.replacement /\ victim'[s].row = store[e.replacement]
         \/ /\ pc'[s] = IF left = {} THEN "commit" ELSE "replacement"
            /\ store[e.replacement].status # "active"
  BY <1>1, <1>2 DEF TypeOK, LocalsKept, table, Goto
<1>4. cmd[s].operation \in Checked /\ Rewrote(s)
  BY <1>2 DEF LedgerInv, SessionInv, Sane, Writes, Unwritten
<1>5. e \in Doomed(s) /\ e.replacement \in Ids /\ cmd[s].operation \in SeriesScopes
  BY <1>4, DoomedFacts DEF Rewrote
<1>6. store[e.replacement].status \in {"active", "deleted"} /\ store[e.replacement] \in Row
  BY <1>2, <1>5, SeenIsCurrent DEF Unwritten, TypeOK
<1>7. /\ Doomed(s)' = Doomed(s) /\ Candidate(s)' = Candidate(s)
      /\ Target(s)' = Target(s) /\ FirstFor(s)' = FirstFor(s)
  BY <1>2 DEF Doomed, Candidate, Target, FirstFor, ReplacesAt
<1> HIDE DEF left
<1>8. ASSUME NEW d \in Doomed(s) PROVE Visited(s, d)'
  <2>1. Visited(s, d)
    BY <1>4 DEF Rewrote
  <2>2. CASE d \in todo[s] /\ d.replacement # e.replacement
    BY <1>3, <2>2 DEF Visited, left
  <2>3. CASE d \in todo[s] /\ d.replacement = e.replacement
    BY <1>3, <1>6, <2>3 DEF Visited
  <2>4. CASE d \notin todo[s]
    BY <1>2, <1>3, <2>1, <2>4 DEF Visited
  <2> QED BY <2>2, <2>3, <2>4
<1>9. Rewrote(s)'
  <2>1. \A j \in Ids : Removed(j)' <=> Removed(j)
    BY <1>2, <1>3 DEF Removed, ReadNow, ReadAs, StillCurrent, SameButCategory
  <2>2. Guessed(s)' \/ ReadNow(snap[s], cmd[s].id)'
    BY <1>2, <1>3, <1>4 DEF Rewrote, Guessed, ReadNow, ReadAs, StillCurrent, SameButCategory
  <2>3. todo'[s] \subseteq Doomed(s)' /\ \A d \in Doomed(s)' : Visited(s, d)'
    BY <1>3, <1>4, <1>7, <1>8 DEF Rewrote, left
  <2>4. ReplacementsOf(Doomed(s))' = ReplacementsOf(Doomed(s))
        /\ e.replacement \in ReplacementsOf(Doomed(s))
    BY <1>5, <1>7 DEF ReplacementsOf
  <2>5. inserted'[s] = {} /\ Doomed(s)' # {}
    BY <1>2, <1>4, <1>5, <1>7 DEF Rewrote
  <2>6. /\ pc'[s] \in {"insert", "commit"} => todo'[s] = {}
        /\ pc'[s] = "delete_replacement" => victim'[s].id \in ReplacementsOf(Doomed(s))'
    BY <1>3, <2>4
  <2>7. /\ locks'[cmd[s].id] = s
        /\ dirty'[cmd[s].id] = [Candidate(s)' EXCEPT !.revision = store'[cmd[s].id].revision + 1]
        /\ \A j \in Ids \ {cmd[s].id} : locks'[j] = s =>
                j \in ReplacementsOf(Doomed(s))' /\ Removed(j)'
    BY <1>2, <1>3, <1>4, <1>7, <2>1, <2>4 DEF Rewrote
  <2>8. (Guessed(s)' \/ ReadNow(snap[s], cmd[s].id)') /\ cmd' = cmd
    BY <1>2, <2>2
  <2> QED BY <2>3, <2>5, <2>6, <2>7, <2>8 DEF Rewrote
<1>10. SessionInv(s)'
  <2>1. Sane(s)'
    BY <1>2, <1>3, <1>4, <1>5, <1>7 DEF LedgerInv, SessionInv, Sane
  <2>2. Reads(s)'
    <3>1. ReadAs(snap[s], cmd[s].id)' <=> ReadAs(snap[s], cmd[s].id)
      BY <1>2, <1>3 DEF ReadAs, StillCurrent, SameButCategory
    <3>2. ReadAs(store[e.replacement], e.replacement)'
          \/ store[e.replacement].status # "active"
      BY <1>3, <1>6 DEF ReadAs, StillCurrent, SameButCategory, Row
    <3>3. pc'[s] = "delete_replacement" => ReadAs(victim[s].row, victim[s].id)'
      BY <1>3, <3>2 DEF ReadAs, StillCurrent, SameButCategory
    <3> QED BY <1>2, <3>1, <3>3 DEF LedgerInv, SessionInv, Reads
  <2>3. Sees(s)'
    BY <1>2, <1>3, <1>7 DEF LedgerInv, SessionInv, Sees, ExceptionsOf
  <2>4. NothingYet(s)' /\ Writes(s)'
    BY <1>2, <1>3, <1>4, <1>9 DEF NothingYet, Writes, Unwritten
  <2> QED BY <2>1, <2>2, <2>3, <2>4 DEF SessionInv
<1>11. \A o \in inserted'[s] : o.replacement = Keep
  BY <1>2 DEF LedgerInv, ReplacedKnown
<1> QED BY <1>2, <1>3, <1>10, <1>11, MoveLedger

LEMMA DeleteReplacementLedger ==
    ASSUME TypeOK, TypeOK', LedgerInv, NEW s \in Sessions, DeleteReplacement(s)
    PROVE  LedgerInv'
<1>1. CASE Rollback(s)
  BY <1>1, RollbackLedger
<1>2. CASE ~Rollback(s)
  <2> DEFINE i == victim[s].id
             old == victim[s].row
             row == Bump(Deleted(old))
  <2>1. /\ pc[s] = "delete_replacement" /\ locks[i] = NoSession
        /\ store[i].revision = old.revision /\ Put(s, i, row)
        /\ pc' = [pc EXCEPT ![s] = IF todo[s] = {} THEN "commit" ELSE "replacement"]
        /\ UNCHANGED <<table, inserted, local>>
    BY <1>2 DEF DeleteReplacement, Goto
  <2>2. i \in Ids /\ old \in Row /\ store[i] \in Row
    BY DEF TypeOK
  <2>3. row \in Row /\ row.status = "deleted" /\ row.revision # store[i].revision
    <3>1. row \in Row
      BY <2>2, RowOperators
    <3> QED BY <2>1, <2>2, <3>1 DEF Row, Bump, Deleted
  <2>4. ReadNow(old, i)
    BY <2>1 DEF LedgerInv, SessionInv, Reads, ReadNow
  <2>5. /\ UNCHANGED <<store, overrides, guesses, cmd, snap, seen, todo, victim, inserted>>
        /\ pc'[s] = IF todo[s] = {} THEN "commit" ELSE "replacement"
        /\ \A t \in Sessions \ {s} : LocalsKept(t)
    BY <2>1 DEF TypeOK, LocalsKept, table, local
  <2>6. cmd[s].operation \in Checked /\ Rewrote(s)
    BY <2>1 DEF LedgerInv, SessionInv, Sane, Writes, Unwritten
  <2>7. i \in ReplacementsOf(Doomed(s)) /\ i # cmd[s].id
    BY <2>1, <2>6, ScheduleServiceAssumption DEF Rewrote, Sessions
  <2>8. Doomed(s) # {}
    BY <2>7 DEF ReplacementsOf
  <2> HIDE DEF row
  <2>9. /\ locks'[i] = s /\ dirty'[i] = row
        /\ \A j \in Ids \ {i} : locks'[j] = locks[j] /\ dirty'[j] = dirty[j]
    BY <2>1, <2>2 DEF Put, TypeOK
  <2>10. /\ Doomed(s)' = Doomed(s) /\ Candidate(s)' = Candidate(s)
         /\ Target(s)' = Target(s) /\ FirstFor(s)' = FirstFor(s)
         /\ ReplacementsOf(Doomed(s))' = ReplacementsOf(Doomed(s))
    <3>1. Doomed(s)' = Doomed(s)
      BY <2>5 DEF Doomed, Target, ReplacesAt
    <3> QED BY <2>5, <3>1 DEF Candidate, Target, FirstFor, ReplacementsOf
  <2>11. ASSUME NEW e \in Doomed(s) PROVE Visited(s, e)'
    <3>1. Visited(s, e) /\ e.replacement \in Ids
      BY <2>6, DoomedFacts DEF Rewrote
    <3>2. locks[e.replacement] = s \/ e.replacement = i => locks'[e.replacement] = s
      BY <2>9, <3>1
    <3> QED BY <2>5, <3>1, <3>2 DEF Visited
  <2>12. ASSUME NEW j \in Ids \ {cmd[s].id}, locks'[j] = s
         PROVE  j \in ReplacementsOf(Doomed(s)) /\ Removed(j)'
    <3>1. CASE j = i
      <4>1. PICK r \in Row, k \in Ids : r = old /\ k = i
        BY <2>2
      <4>2. ReadNow(r, k)'
        BY <2>4, <2>5, <4>1 DEF ReadNow, ReadAs, StillCurrent, SameButCategory
      <4>3. dirty'[k] = Bump(Deleted(r)) /\ j = k
        BY <2>9, <3>1, <4>1 DEF row
      <4> QED BY <2>7, <3>1, <4>2, <4>3 DEF Removed
    <3>2. CASE j # i
      <4>1. locks[j] = s /\ dirty'[j] = dirty[j]
        BY <2>9, <2>12, <3>2
      <4>2. j \in ReplacementsOf(Doomed(s)) /\ Removed(j)
        BY <2>6, <4>1 DEF Rewrote
      <4> QED BY <2>5, <4>1, <4>2 DEF Removed, ReadNow, ReadAs, StillCurrent, SameButCategory
    <3> QED BY <3>1, <3>2
  <2>13. Rewrote(s)'
    <3>1. cmd[s].id \in Ids
      BY DEF TypeOK, Command
    <3>2. /\ locks'[cmd[s].id] = s
          /\ dirty'[cmd[s].id] = [Candidate(s)' EXCEPT !.revision = store'[cmd[s].id].revision + 1]
      BY <2>5, <2>6, <2>7, <2>9, <2>10, <3>1 DEF Rewrote
    <3>3. Guessed(s)' \/ ReadNow(snap[s], cmd[s].id)'
      BY <2>5, <2>6 DEF Rewrote, Guessed, ReadNow, ReadAs, StillCurrent, SameButCategory
    <3>4. todo'[s] \subseteq Doomed(s)' /\ (pc'[s] \in {"insert", "commit"} => todo'[s] = {})
          /\ pc'[s] # "delete_replacement" /\ inserted'[s] = {}
      BY <2>1, <2>5, <2>6, <2>10 DEF Rewrote
    <3>5. /\ \A j \in Ids \ {cmd[s].id} : locks'[j] = s =>
                 j \in ReplacementsOf(Doomed(s))' /\ Removed(j)'
          /\ \A e \in Doomed(s)' : Visited(s, e)'
      BY <2>10, <2>11, <2>12
    <3> QED BY <2>5, <2>8, <2>10, <3>2, <3>3, <3>4, <3>5 DEF Rewrote
  <2>14. SessionInv(s)'
    <3>1. Sane(s)'
      BY <2>1, <2>5, <2>6, <2>10 DEF LedgerInv, SessionInv, Sane
    <3>2. Reads(s)'
      BY <2>1, <2>5 DEF LedgerInv, SessionInv, Reads, ReadAs, StillCurrent, SameButCategory
    <3>3. Sees(s)'
      BY <2>1, <2>5, <2>10 DEF LedgerInv, SessionInv, Sees, ExceptionsOf
    <3>4. NothingYet(s)' /\ Writes(s)'
      BY <2>5, <2>6, <2>13 DEF NothingYet, Writes, Unwritten
    <3> QED BY <3>1, <3>2, <3>3, <3>4 DEF SessionInv
  <2> QED BY <2>1, <2>2, <2>3, <2>5, <2>14, PutLedger
<1> QED BY <1>1, <1>2

LEMMA InsertLedger ==
    ASSUME TypeOK, TypeOK', LedgerInv, NEW s \in Sessions, InsertOverride(s)
    PROVE  LedgerInv'
<1>1. CASE Rollback(s)
  BY <1>1, RollbackLedger
<1>2. CASE ~Rollback(s)
  <2>0. /\ pc[s] = "insert" /\ cmd[s].operation = "this_occurrence" /\ Doomed(s) = {}
    BY DEF InsertOverride, LedgerInv, SessionInv, Sane
  <2>1. PICK o \in FirstFor(s) :
            /\ inserted' = [inserted EXCEPT ![s] =
                   {[schedule |-> cmd[s].id, occurrence |-> o, replacement |-> Keep]}]
            /\ pc' = [pc EXCEPT ![s] = "commit"]
            /\ ~ HasOverride(overrides, cmd[s].id, o)
            /\ UNCHANGED <<table, dirty, locks, local>>
    BY <1>2 DEF InsertOverride, Goto, FirstFor
  <2>2. o = Target(s)
    BY TargetFacts
  <2>3. /\ UNCHANGED <<store, overrides, cmd, snap, seen, todo, victim, locks, dirty>>
        /\ pc'[s] = "commit"
        /\ inserted'[s] =
               {[schedule |-> cmd[s].id, occurrence |-> Target(s), replacement |-> Keep]}
        /\ \A t \in Sessions \ {s} : LocalsKept(t)
    BY <2>1, <2>2 DEF TypeOK, LocalsKept, table, local
  <2>4. Rewrote(s)
    BY <2>0 DEF LedgerInv, SessionInv, Writes, Unwritten, Checked, SeriesScopes, RangeScopes
  <2>5. /\ Doomed(s)' = Doomed(s) /\ Candidate(s)' = Candidate(s)
        /\ Target(s)' = Target(s) /\ FirstFor(s)' = FirstFor(s)
        /\ ReplacementsOf(Doomed(s))' = ReplacementsOf(Doomed(s))
    <3>1. Doomed(s)' = Doomed(s)
      BY <2>3 DEF Doomed, Target, ReplacesAt
    <3> QED BY <2>3, <3>1 DEF Candidate, Target, FirstFor, ReplacementsOf
  <2>6. Rewrote(s)'
    <3>1. \A j \in Ids : Removed(j)' <=> Removed(j)
      BY <2>3 DEF Removed, ReadNow, ReadAs, StillCurrent, SameButCategory
    <3>2. Guessed(s)' \/ ReadNow(snap[s], cmd[s].id)'
      BY <2>3, <2>4 DEF Rewrote, Guessed, ReadNow, ReadAs, StillCurrent, SameButCategory
    <3>3. /\ \A e \in Doomed(s)' : Visited(s, e)'
          /\ ~ HasOverride(overrides', cmd'[s].id, Target(s)')
      BY <2>0, <2>1, <2>2, <2>3, <2>5
    <3>4. /\ \A j \in Ids \ {cmd[s].id} : locks'[j] = s =>
                 j \in ReplacementsOf(Doomed(s))' /\ Removed(j)'
          /\ locks'[cmd[s].id] = s
          /\ dirty'[cmd[s].id] = [Candidate(s)' EXCEPT !.revision = store'[cmd[s].id].revision + 1]
          /\ todo'[s] \subseteq Doomed(s)' /\ todo'[s] = {}
      BY <2>0, <2>3, <2>4, <2>5, <3>1 DEF Rewrote
    <3> QED BY <2>0, <2>3, <2>5, <3>2, <3>3, <3>4 DEF Rewrote
  <2>7. SessionInv(s)'
    <3>1. Sane(s)'
      BY <2>0, <2>3, <2>5 DEF LedgerInv, SessionInv, Sane
    <3>2. Reads(s)'
      BY <2>0, <2>3 DEF LedgerInv, SessionInv, Reads, ReadAs, StillCurrent, SameButCategory
    <3>3. Sees(s)'
      BY <2>0, <2>3, <2>5 DEF LedgerInv, SessionInv, Sees, ExceptionsOf
    <3>4. NothingYet(s)' /\ Writes(s)'
      BY <2>0, <2>3, <2>6
      DEF NothingYet, Writes, Unwritten, Checked, SeriesScopes, RangeScopes
    <3> QED BY <3>1, <3>2, <3>3, <3>4 DEF SessionInv
  <2> QED BY <2>1, <2>3, <2>7, MoveLedger
<1> QED BY <1>1, <1>2

(* A commit: for the others the tables move on; an override it adds comes   *)
(* with a revision of its schedule.                                         *)
LEMMA CommitLedger ==
    ASSUME TypeOK, TypeOK', RevisionGuards, LedgerInv, NEW s \in Sessions, Commit(s)
    PROVE  LedgerInv'
<1>0. s # NoSession /\ pc[s] = "commit" /\ Close(s)
  BY ScheduleServiceAssumption DEF Sessions, Commit
<1>1. /\ \A j \in Ids : store'[j] = IF locks[j] = s THEN dirty[j] ELSE store[j]
      /\ overrides' = overrides \cup inserted[s]
  BY DEF Commit
<1>2. /\ SessionInv(s)' /\ inserted'[s] = {}
      /\ \A t \in Sessions \ {s} : LocalsKept(t)
      /\ \A j \in Ids : IF locks[j] = s THEN locks'[j] = NoSession
                        ELSE locks'[j] = locks[j] /\ dirty'[j] = dirty[j]
  BY <1>0, CloseSession, CloseOthers
<1>3. ASSUME NEW j \in Ids PROVE MovesOn(j)
  <2>1. /\ guesses[j] \in Nat
        /\ guesses'[j] = IF Guessed(s) /\ j = cmd[s].id THEN guesses[j] + 1 ELSE guesses[j]
    BY DEF Commit, TypeOK
  <2>2. CASE locks[j] # s
    BY <1>1, <2>1, <2>2 DEF MovesOn
  <2>3. CASE locks[j] = s
    <3>1. LockHolds(j) /\ (dirty[j].revision = store[j].revision => store[j].category = NoCategory)
      BY <1>0, <2>3 DEF RevisionGuards, LocksHold, LedgerInv, FirstCategory
    <3>2. store[j].status # "deleted" \/ guesses'[j] > 0
      BY <2>1, <2>3, <3>1 DEF LockHolds, StillCurrent, SameButCategory
    <3> QED BY <1>1, <2>1, <2>3, <3>1, <3>2 DEF LockHolds, MovesOn
  <2> QED BY <2>2, <2>3
<1>4. ASSUME NEW o \in inserted[s]
      PROVE  /\ o.schedule \in Ids /\ store'[o.schedule].revision = store[o.schedule].revision + 1
             /\ o.replacement = Keep
  <2>1. Rewrote(s) /\ o.schedule = cmd[s].id
    <3>1. Writes(s)
      BY DEF LedgerInv, SessionInv
    <3>2. Rewrote(s)
      BY <1>0, <3>1 DEF Writes, Unwritten, WroteOne
    <3> QED BY <3>2 DEF Rewrote
  <2>2. cmd[s].id \in Ids /\ Candidate(s) \in Row
    BY CandidateType DEF TypeOK, Command
  <2> QED BY <1>1, <2>1, <2>2 DEF Rewrote, Row, LedgerInv, ReplacedKnown
<1>5. ASSUME NEW j \in Ids PROVE OverridesMove(j)
  BY <1>1, <1>4 DEF OverridesMove, ExceptionsOf
<1>6. ASSUME NEW t \in Sessions \ {s} PROVE SessionInv(t)'
  <2>1. LocksKept(t)
    <3>1. t # NoSession
      BY ScheduleServiceAssumption DEF Sessions
    <3> QED BY <1>1, <1>2, <3>1 DEF LocksKept
  <2> QED BY <1>2, <1>3, <1>5, <2>1, OthersKeep DEF LedgerInv
<1>7. FirstCategory'
  BY <1>1, <1>2 DEF LedgerInv, FirstCategory
<1>8. ReplacedKnown'
  <2>1. \A i \in Seeded : i \in Ids
    BY ScheduleRowsAssumption DEF Seeded, Override, Ids
  <2>2. \A i \in Seeded : store'[i].status # "absent"
    BY <1>0, <1>1, <2>1 DEF LedgerInv, FirstCategory, ReplacedKnown
  <2>3. \A t \in Sessions : \A o \in inserted'[t] : o.replacement = Keep
    BY <1>2 DEF LedgerInv, ReplacedKnown, LocalsKept
  <2> QED BY <1>1, <1>4, <2>2, <2>3 DEF LedgerInv, ReplacedKnown
<1> QED BY <1>2, <1>6, <1>7, <1>8 DEF LedgerInv

LEMMA RestartLedger ==
    ASSUME TypeOK, TypeOK', LedgerInv, Restart
    PROVE  LedgerInv'
<1>1. /\ UNCHANGED <<store, overrides>>
      /\ \A j \in Ids : locks'[j] = NoSession
      /\ \A s \in Sessions : inserted'[s] = {} /\ pc'[s] = "idle"
  BY DEF Restart, table
<1>2. FirstCategory' /\ ReplacedKnown'
  BY <1>1 DEF LedgerInv, FirstCategory, ReplacedKnown
<1>3. ASSUME NEW s \in Sessions PROVE SessionInv(s)'
  <2>1. s # NoSession
    BY ScheduleServiceAssumption DEF Sessions
  <2> QED BY <1>1, <2>1 DEF SessionInv, Sane, Reads, Sees, NothingYet, Writes, Unwritten
<1> QED BY <1>2, <1>3 DEF LedgerInv

LEMMA StutterLedger ==
    ASSUME LedgerInv, UNCHANGED vars
    PROVE  LedgerInv'
<1>1. FirstCategory' /\ ReplacedKnown'
  BY DEF LedgerInv, FirstCategory, ReplacedKnown, vars
<1>2. ASSUME NEW s \in Sessions PROVE SessionInv(s)'
  <2>1. SessionInv(s) /\ UNCHANGED vars
    BY DEF LedgerInv
  <2>2. /\ Doomed(s)' = Doomed(s) /\ Candidate(s)' = Candidate(s)
        /\ Target(s)' = Target(s) /\ FirstFor(s)' = FirstFor(s)
    BY <2>1 DEF vars, Doomed, Candidate, Target, FirstFor, ReplacesAt
  <2>3. Sane(s)' /\ Reads(s)' /\ Sees(s)' /\ NothingYet(s)'
    BY <2>1, <2>2 DEF vars, SessionInv, Sane, Reads, Sees, NothingYet, ReadAs, StillCurrent,
                      SameButCategory, ExceptionsOf
  <2>4. Writes(s)'
    BY <2>1, <2>2 DEF vars, SessionInv, Writes, Rewrote, WroteOne, Visited, Removed, Guessed,
                      HasOverride, ReadNow, ReadAs, StillCurrent, SameButCategory, ReplacementsOf
  <2> QED BY <2>3, <2>4 DEF SessionInv
<1> QED BY <1>1, <1>2 DEF LedgerInv

LEMMA StepLedger ==
    ASSUME TypeOK, TypeOK', RevisionGuards, LedgerInv, [Next]_vars
    PROVE  LedgerInv'
<1>1. ASSUME NEW s \in Callers, BeginUpdate(s) PROVE LedgerInv'
  <2>1. PICK i \in Ids, changes \in Patches :
            /\ ValidRow(i, Patched(store[i], changes))
            /\ \E expected \in Named :
                   Begin(s, "update", i, expected, changes, FirstDay)
    BY <1>1 DEF BeginUpdate
  <2> QED
    BY <2>1, BeginLedger DEF Sessions, Checked, SeriesScopes, RangeScopes
<1>2. ASSUME NEW s \in Callers, BeginDelete(s) PROVE LedgerInv'
  <2>1. CASE \E i \in Once : \E expected \in Named :
                 Begin(s, "delete_once", i, expected, NoPatch, FirstDay)
    BY <2>1, BeginLedger DEF Sessions, Checked, SeriesScopes, RangeScopes, Ids
  <2>2. CASE \E i \in Series, scope \in SeriesScopes, now \in Occurrences :
               \E expected \in Named :
                 Begin(s, scope, i, expected, NoPatch, now)
    <3>1. PICK i \in Series, scope \in SeriesScopes, now \in Occurrences :
               \E expected \in Named :
                 Begin(s, scope, i, expected, NoPatch, now)
      BY <2>2
    <3>2. s \in Sessions /\ i \in Ids /\ scope \in Checked \cup {"confirm"}
          /\ scope # "update" /\ scope # "delete_once"
      BY DEF Sessions, Checked, SeriesScopes, RangeScopes, Ids
    <3> QED
      BY <3>1, <3>2, BeginLedger
  <2> QED
    BY <1>2, <2>1, <2>2 DEF BeginDelete
<1>3. ASSUME NEW s \in Callers, BeginConfirm(s) PROVE LedgerInv'
  BY <1>3, BeginLedger DEF BeginConfirm, Sessions, Checked, SeriesScopes, RangeScopes
<1>4. ASSUME NEW s \in Callers, Create(s) PROVE LedgerInv'
  BY <1>4, CreateLedger
<1>5. ASSUME NEW s \in Workers, NEW i \in Ids, NEW category \in Categories \cup {NoCategory},
             StartClassify(s, i, category)
      PROVE  LedgerInv'
  BY <1>5, ClassifyLedger
<1>6. ASSUME NEW s \in Sessions, Statement(s) PROVE LedgerInv'
  BY <1>6, ReadOverridesLedger, UpdateLedger, ConfirmLedger, SetCategoryLedger,
     ReadReplacementLedger, DeleteReplacementLedger, InsertLedger, CommitLedger DEF Statement
<1>7. ASSUME NEW s \in Sessions, Fail(s) PROVE LedgerInv'
  BY <1>7, RollbackLedger DEF Fail
<1> QED
  BY <1>1, <1>2, <1>3, <1>4, <1>5, <1>6, <1>7, RestartLedger, StutterLedger DEF Next

THEOREM LedgerInductive == Spec => []LedgerInv
BY InitLedger, StepLedger, TypeCorrect, GuardsCorrect, PTL DEF Spec

(***************************************************************************)
(* Two deletions of "this occurrence" never meet at the unique constraint, *)
(* unless the one that inserts guessed its revision: it holds the row of   *)
(* the series, so the overrides it read are the committed ones and nobody  *)
(* else is inserting for that row.                                         *)
(***************************************************************************)
LEMMA InsertIsFree == TypeOK /\ LedgerInv => InsertNeverCollides
<1> SUFFICES ASSUME TypeOK, LedgerInv, NEW s \in Sessions, pc[s] = "insert", ~ Guessed(s),
                    NEW o \in FirstActive(snap[s].rule, seen[s], cmd[s].now)
             PROVE  /\ ~ HasOverride(overrides, cmd[s].id, o)
                    /\ \A t \in Sessions : ~ HasOverride(inserted[t], cmd[s].id, o)
  BY DEF InsertNeverCollides
<1>1. cmd[s].operation = "this_occurrence" /\ Doomed(s) = {}
  BY DEF LedgerInv, SessionInv, Sane
<1>2. /\ cmd[s].operation \in SeriesScopes /\ cmd[s].operation \in Checked
      /\ cmd[s].operation \in RangeScopes /\ pc[s] \notin Unwritten
  BY <1>1 DEF SeriesScopes, RangeScopes, Checked, Unwritten
<1>3. seen[s] = ExceptionsOf(cmd[s].id) /\ Rewrote(s)
  BY <1>2, SeenIsCurrent DEF LedgerInv, SessionInv, Writes
<1>4. o = Target(s)
  BY <1>2, SeenIsCurrent, TargetFacts DEF FirstFor
<1>5. ~ HasOverride(overrides, cmd[s].id, o)
  <2>1. \A e \in seen[s] : e.occurrence = o => e.replacement # Keep
    BY DEF FirstActive, Remaining
  <2>2. ReplacesAt(seen[s], o) = {}
    BY <1>1, <1>4 DEF Doomed
  <2> QED BY <1>3, <2>1, <2>2 DEF ReplacesAt, HasOverride, ExceptionsOf
<1>6. ASSUME NEW t \in Sessions PROVE ~ HasOverride(inserted[t], cmd[s].id, o)
  <2> SUFFICES ASSUME NEW e \in inserted[t], e.schedule = cmd[s].id PROVE FALSE
    BY DEF HasOverride
  <2>1. Writes(t) /\ pc[t] \notin Unwritten
    BY DEF LedgerInv, SessionInv, NothingYet
  <2>2. Rewrote(t)
    BY <2>1 DEF Writes, WroteOne
  <2>3. pc[t] = "commit" /\ e.schedule = cmd[t].id /\ locks[cmd[t].id] = t
    BY <2>2 DEF Rewrote
  <2> QED BY <1>3, <2>3 DEF Rewrote
<1> QED BY <1>5, <1>6

THEOREM InsertCorrect == Spec => []InsertNeverCollides
BY LedgerInductive, TypeCorrect, InsertIsFree, PTL
------------------------------------------------------------------------------
(***************************************************************************)
(* The refinement of ScheduleLedger.  Only a commit changes the tables; it *)
(* installs what LedgerInv says the session has written, and that is one   *)
(* operation of the ledger, on the rows of the moment of the commit.       *)
(***************************************************************************)
LEMMA SameRow ==
    ASSUME NEW a \in Row, NEW b \in Row, SameButCategory(a, b), a.revision = b.revision,
           a.category \in {b.category, NoCategory}
    PROVE  a = b \/ a = [b EXCEPT !.category = NoCategory]
BY DEF SameButCategory, Row

(* A version computed from a row that was read is, with the next revision,  *)
(* the one the ledger writes, or that one with its category lost.           *)
LEMMA WrittenRow ==
    ASSUME NEW old \in Row, NEW new \in Row, SameButCategory(old, new),
           old.category \in {new.category, NoCategory}
    PROVE  [old EXCEPT !.revision = new.revision + 1] \in Ledger!Written(new)
<1> DEFINE a == [old EXCEPT !.revision = new.revision + 1]
           b == Bump(new)
<1>1. a \in Row /\ b \in Row
  BY DEF Row, Bump
<1>2. SameButCategory(a, b) /\ a.revision = b.revision /\ a.category \in {b.category, NoCategory}
  BY DEF Row, Bump, SameButCategory
<1> HIDE DEF a, b
<1>3. a = b \/ a = [b EXCEPT !.category = NoCategory]
  BY <1>1, <1>2, SameRow
<1> QED BY <1>3 DEF a, b, Ledger!Written, Ledger!Bump, Bump

LEMMA RemovedRow ==
    ASSUME TypeOK, NEW j \in Ids, Removed(j)
    PROVE  /\ store[j].status = "active"
           /\ \/ dirty[j] = Bump(Deleted(store[j]))
              \/ dirty[j] = [Bump(Deleted(store[j])) EXCEPT !.category = NoCategory]
<1>1. PICK row \in Row : ReadNow(row, j) /\ dirty[j] = Bump(Deleted(row))
  BY DEF Removed
<1>2. store[j] \in Row /\ SameButCategory(row, store[j]) /\ row.revision = store[j].revision
      /\ row.category \in {store[j].category, NoCategory} /\ row.status = "active"
  BY <1>1 DEF TypeOK, ReadNow, ReadAs, StillCurrent
<1>3. row = store[j] \/ row = [store[j] EXCEPT !.category = NoCategory]
  BY <1>2, SameRow
<1>4. CASE row = store[j]
  BY <1>1, <1>2, <1>4
<1>5. CASE row = [store[j] EXCEPT !.category = NoCategory]
  BY <1>1, <1>2, <1>5 DEF Row, Bump, Deleted, SameButCategory
<1> QED BY <1>3, <1>4, <1>5

(* What a session that rewrote its row commits, for any row the ledger      *)
(* computes that differs from the candidate in the category at most.        *)
LEMMA RewriteStep ==
    ASSUME TypeOK, LedgerInv, NEW s \in Sessions, Commit(s), cmd[s].operation \in Checked,
           ~ Guessed(s), NEW row \in Row, row.revision = store[cmd[s].id].revision,
           SameButCategory(Candidate(s), row), Candidate(s).category \in {row.category, NoCategory}
    PROVE  Ledger!Rewrite(cmd[s].id, row, ReplacementsOf(Doomed(s)))
<1> DEFINE removed == {j \in ReplacementsOf(Doomed(s)) : store[j].status = "active"}
           spared == {j \in removed : locks[j] # s}
           lost == {j \in removed : dirty[j] # Bump(Deleted(store[j]))}
<1>1. pc[s] = "commit" /\ Rewrote(s) /\ cmd[s].id \in Ids /\ Candidate(s) \in Row
  BY CandidateType DEF Commit, LedgerInv, SessionInv, Writes, Unwritten, TypeOK, Command
<1>2. \A j \in Ids : store'[j] = IF locks[j] = s THEN dirty[j] ELSE store[j]
  BY DEF Commit
<1>3. dirty[cmd[s].id] \in Ledger!Written(row)
  BY <1>1, WrittenRow DEF Rewrote
<1>4. ASSUME NEW j \in spared
      PROVE  guesses[j] > 0
  <2>1. PICK e \in Doomed(s) : e.replacement = j
    BY <1>4 DEF ReplacementsOf
  <2>2. Visited(s, e) /\ todo[s] = {}
    BY <1>1 DEF Rewrote
  <2> QED BY <1>1, <1>4, <2>1, <2>2 DEF Visited
<1>5. ASSUME NEW j \in Ids, j # cmd[s].id, locks[j] = s
      PROVE  /\ j \in removed
             /\ \/ dirty[j] = Bump(Deleted(store[j]))
                \/ dirty[j] = [Bump(Deleted(store[j])) EXCEPT !.category = NoCategory]
  BY <1>1, <1>5, RemovedRow DEF Rewrote
<1>6. ASSUME NEW j \in Ids, j # cmd[s].id
      PROVE  store'[j] = IF j \notin removed \ spared THEN store[j]
                         ELSE IF j \in lost
                         THEN [Bump(Deleted(store[j])) EXCEPT !.category = NoCategory]
                         ELSE Bump(Deleted(store[j]))
  <2>1. CASE locks[j] = s
    <3>1. j \in removed \ spared
      BY <1>5, <1>6, <2>1
    <3> HIDE DEF removed, spared
    <3>2. lost = {k \in removed : dirty[k] # Bump(Deleted(store[k]))}
      OBVIOUS
    <3> HIDE DEF lost
    <3> QED BY <1>2, <1>5, <1>6, <2>1, <3>1, <3>2
  <2>2. CASE locks[j] # s
    BY <1>2, <1>6, <2>2
  <2> QED BY <2>1, <2>2
<1>7. store'[cmd[s].id] = dirty[cmd[s].id]
  BY <1>1, <1>2 DEF Rewrote
<1>8. store' = [j \in Ids |->
                  IF j = cmd[s].id THEN dirty[cmd[s].id]
                  ELSE IF j \notin removed \ spared THEN store[j]
                  ELSE IF j \in lost
                       THEN [Bump(Deleted(store[j])) EXCEPT !.category = NoCategory]
                  ELSE Bump(Deleted(store[j]))]
  <2>1. store' = [j \in Ids |-> store'[j]]
    BY DEF Commit
  <2> HIDE DEF lost, removed, spared
  <2> QED BY <1>6, <1>7, <2>1
<1>9. lost \in SUBSET removed /\ spared \in SUBSET {j \in removed : guesses[j] > 0}
  BY <1>4
<1> HIDE DEF lost, spared
<1> QED
  BY <1>3, <1>8, <1>9
  DEF Ledger!Rewrite, Ledger!Active, Ledger!Bump, Ledger!Deleted, Ledger!Ids, Bump, Deleted, Ids

(* A guess is counted, any other commit is not.                             *)
LEMMA Counted ==
    ASSUME TypeOK, NEW s \in Sessions, Commit(s)
    PROVE  /\ ~ Guessed(s) => UNCHANGED guesses
           /\ Guessed(s) => guesses' = [guesses EXCEPT ![cmd[s].id] = @ + 1]
BY DEF Commit

(* The ledger reads with its own copies of the operators.                   *)
LEMMA SameOperators ==
    /\ \A i, row : Ledger!ValidRow(i, row) <=> ValidRow(i, row)
    /\ \A row, changes : Ledger!Patched(row, changes) = Patched(row, changes)
    /\ \A row : Ledger!Deleted(row) = Deleted(row) /\ Ledger!Bump(row) = Bump(row)
    /\ \A rule, o : Ledger!Before(rule, o) = Before(rule, o)
    /\ \A i : Ledger!OverridesOf(i) = ExceptionsOf(i)
    /\ \A rule, exceptions, now :
           Ledger!FirstActive(rule, exceptions, now) = FirstActive(rule, exceptions, now)
<1>1. \A row, changes : Ledger!Patched(row, changes) = Patched(row, changes)
  BY DEF Ledger!Patched, Patched, Ledger!Merge, Merge
<1>2. \A rule, exceptions, now :
          Ledger!FirstActive(rule, exceptions, now) = FirstActive(rule, exceptions, now)
  BY DEF Ledger!FirstActive, FirstActive, Ledger!Remaining, Remaining
<1>3. \A i, row : Ledger!ValidRow(i, row) <=> ValidRow(i, row)
  BY DEF Ledger!ValidRow, ValidRow
<1> QED BY <1>1, <1>2, <1>3 DEF Ledger!Deleted, Deleted, Ledger!Bump, Bump, Ledger!Before, Before,
               Ledger!OverridesOf, ExceptionsOf

LEMMA UpdateCommit ==
    ASSUME TypeOK, LedgerInv, NEW s \in Sessions, Commit(s), ~ Guessed(s),
           cmd[s].operation = "update"
    PROVE  Ledger!Update(cmd[s].id, cmd[s].changes) /\ cmd[s].changes \in Patches
<1> DEFINE i == cmd[s].id
           row == Patched(store[i], cmd[s].changes)
<1>1. /\ pc[s] = "commit" /\ cmd[s].operation \in Checked /\ i \in Ids
      /\ cmd[s].changes \in Patch /\ store[i] \in Row /\ snap[s] \in Row
  BY DEF Commit, TypeOK, Command, Checked
<1>2. Rewrote(s) /\ Sane(s) /\ Candidate(s) = Patched(snap[s], cmd[s].changes) /\ Doomed(s) = {}
  BY <1>1 DEF LedgerInv, SessionInv, Writes, Unwritten, Candidate, Doomed
<1>3. ReadNow(snap[s], i)
  BY <1>2 DEF Rewrote
<1>4. row \in Row
  BY <1>1, RowOperators
<1>5. /\ row.revision = store[i].revision /\ SameButCategory(Candidate(s), row)
      /\ Candidate(s).category \in {row.category, NoCategory}
  BY <1>1, <1>2, <1>3 DEF ReadNow, ReadAs, StillCurrent, SameButCategory, Patched, Row
<1>6. ValidRow(i, row)
  BY <1>1, <1>2, <1>5, <1>4 DEF Sane, ValidRow, SameButCategory
<1>7. Ledger!Rewrite(i, row, {})
  <2>1. ReplacementsOf(Doomed(s)) = {}
    BY <1>2 DEF ReplacementsOf
  <2> HIDE DEF row
  <2> QED BY <1>1, <1>4, <1>5, <2>1, RewriteStep
<1>8. store[i].status = "active" /\ UNCHANGED <<overrides, guesses>> /\ cmd[s].changes \in Patches
  BY <1>1, <1>2, <1>3, Counted
  DEF ReadNow, ReadAs, StillCurrent, SameButCategory, Commit, Rewrote, Sane
<1> QED BY <1>6, <1>7, <1>8, SameOperators DEF Ledger!Update, Ledger!Active

LEMMA DeleteCommit ==
    ASSUME TypeOK, LedgerInv, NEW s \in Sessions, Commit(s), ~ Guessed(s),
           cmd[s].operation \in {"delete_once", "entire_series"}
    PROVE  \/ cmd[s].id \in Once /\ Ledger!DeleteOnce(cmd[s].id)
           \/ cmd[s].id \in Series /\ Ledger!DeleteSeries(cmd[s].id)
<1> DEFINE i == cmd[s].id
           row == Deleted(store[i])
<1>1. /\ pc[s] = "commit" /\ cmd[s].operation \in Checked /\ i \in Ids
      /\ store[i] \in Row /\ snap[s] \in Row
  BY DEF Commit, TypeOK, Command, Checked, SeriesScopes
<1>2. Rewrote(s) /\ Sane(s) /\ Candidate(s) = Deleted(snap[s])
  BY <1>1 DEF LedgerInv, SessionInv, Writes, Unwritten, Candidate
<1>3. ReadNow(snap[s], i)
  BY <1>2 DEF Rewrote
<1>4. row \in Row
  BY <1>1, RowOperators
<1>5. /\ row.revision = store[i].revision /\ SameButCategory(Candidate(s), row)
      /\ Candidate(s).category \in {row.category, NoCategory}
  BY <1>1, <1>2, <1>3 DEF ReadNow, ReadAs, StillCurrent, SameButCategory, Deleted, Row
<1>6. Ledger!Rewrite(i, row, ReplacementsOf(Doomed(s)))
  <2> HIDE DEF row
  <2> QED BY <1>1, <1>4, <1>5, RewriteStep
<1>7. store[i].status = "active" /\ UNCHANGED <<overrides, guesses>>
  BY <1>1, <1>2, <1>3, Counted DEF ReadNow, ReadAs, StillCurrent, SameButCategory, Commit, Rewrote
<1>8. CASE cmd[s].operation = "delete_once"
  <2>1. ReplacementsOf(Doomed(s)) = {} /\ i \in Once
    BY <1>1, <1>2, <1>8 DEF ReplacementsOf, Doomed, Sane
  <2> QED BY <1>6, <1>7, <2>1, SameOperators DEF Ledger!DeleteOnce, Ledger!Active
<1>9. CASE cmd[s].operation = "entire_series"
  <2>1. i \in Series /\ seen[s] = ExceptionsOf(i)
    BY <1>1, <1>2, <1>9, SeenIsCurrent DEF Sane, SeriesScopes, Unwritten
  <2>2. ReplacementsOf(Doomed(s)) = Ledger!Replacements(Ledger!OverridesOf(i))
    BY <1>9, <2>1, SameOperators DEF ReplacementsOf, Doomed, Ledger!Replacements
  <2> QED BY <1>6, <1>7, <2>1, <2>2, SameOperators DEF Ledger!DeleteSeries, Ledger!Active
<1> QED BY <1>8, <1>9

LEMMA OccurrenceCommit ==
    ASSUME TypeOK, LedgerInv, NEW s \in Sessions, Commit(s), ~ Guessed(s),
           cmd[s].operation = "this_occurrence"
    PROVE  cmd[s].id \in Series /\ Ledger!DeleteOccurrence(cmd[s].id, cmd[s].now)
<1> DEFINE i == cmd[s].id
           replaced == {e \in ExceptionsOf(i) : e.occurrence = Target(s)}
<1>1. /\ pc[s] = "commit" /\ cmd[s].operation \in Checked /\ i \in Ids
      /\ store[i] \in Row /\ snap[s] \in Row
      /\ cmd[s].operation \in SeriesScopes /\ cmd[s].operation \in RangeScopes
  BY DEF Commit, TypeOK, Command, Checked, SeriesScopes, RangeScopes
<1>2. Rewrote(s) /\ Sane(s) /\ Candidate(s) = snap[s] /\ Doomed(s) = ReplacesAt(seen[s], Target(s))
  BY <1>1 DEF LedgerInv, SessionInv, Writes, Unwritten, Candidate, Doomed
<1>3. ReadNow(snap[s], i)
  BY <1>2 DEF Rewrote
<1>4. /\ i \in Series /\ store[i].status = "active" /\ snap[s].rule = store[i].rule
      /\ seen[s] = ExceptionsOf(i) /\ FirstFor(s) # {}
  BY <1>1, <1>2, <1>3, SeenIsCurrent
  DEF Sane, ReadNow, ReadAs, StillCurrent, SameButCategory, Unwritten
<1>5. Target(s) \in Ledger!FirstActive(store[i].rule, Ledger!OverridesOf(i), cmd[s].now)
  BY <1>4, TargetFacts, SameOperators DEF FirstFor
<1>6. Doomed(s) = replaced
  <2>1. \A e \in ExceptionsOf(i) : e.occurrence = Target(s) => e.replacement # Keep
    BY <1>5, SameOperators DEF FirstActive, Remaining
  <2> QED BY <1>2, <1>4, <2>1 DEF ReplacesAt
<1>7. ReplacementsOf(Doomed(s)) = Ledger!Replacements(replaced)
  <2>1. \A e \in Doomed(s) : e.replacement # Keep
    BY DoomedFacts
  <2> QED BY <1>6, <2>1 DEF ReplacementsOf, Ledger!Replacements
<1>8. Ledger!Rewrite(i, store[i], Ledger!Replacements(replaced))
  <2>1. SameButCategory(snap[s], store[i]) /\ snap[s].category \in {store[i].category, NoCategory}
    BY <1>3 DEF ReadNow, ReadAs, StillCurrent
  <2> QED BY <1>1, <1>2, <1>7, <2>1, RewriteStep
<1>9. overrides' = IF replaced # {} THEN overrides
                   ELSE overrides \cup
                        {[schedule |-> i, occurrence |-> Target(s), replacement |-> Keep]}
  <2>1. inserted[s] = IF Doomed(s) = {}
                      THEN {[schedule |-> i, occurrence |-> Target(s), replacement |-> Keep]}
                      ELSE {}
    BY <1>1, <1>2 DEF Rewrote
  <2> QED BY <1>6, <2>1 DEF Commit
<1> QED BY <1>4, <1>5, <1>8, <1>9, Counted, SameOperators
        DEF Ledger!DeleteOccurrence, Ledger!Active

LEMMA FutureCommit ==
    ASSUME TypeOK, LedgerInv, NEW s \in Sessions, Commit(s), ~ Guessed(s),
           cmd[s].operation = "this_and_future"
    PROVE  cmd[s].id \in Series /\ Ledger!DeleteFuture(cmd[s].id, cmd[s].now)
<1> DEFINE i == cmd[s].id
           row == IF Before(store[i].rule, Target(s)) = {} THEN Deleted(store[i])
                  ELSE [store[i] EXCEPT !.rule = Before(@, Target(s))]
           gone == {e \in ExceptionsOf(i) : e.occurrence >= Target(s)}
<1>1. /\ pc[s] = "commit" /\ cmd[s].operation \in Checked /\ i \in Ids
      /\ store[i] \in Row /\ snap[s] \in Row
      /\ cmd[s].operation \in SeriesScopes /\ cmd[s].operation \in RangeScopes
  BY DEF Commit, TypeOK, Command, Checked, SeriesScopes, RangeScopes
<1>2. /\ Rewrote(s) /\ Sane(s)
      /\ Candidate(s) = IF Before(snap[s].rule, Target(s)) = {} THEN Deleted(snap[s])
                        ELSE [snap[s] EXCEPT !.rule = Before(@, Target(s))]
      /\ Doomed(s) = {e \in seen[s] : e.replacement # Keep /\ e.occurrence >= Target(s)}
  BY <1>1 DEF LedgerInv, SessionInv, Writes, Unwritten, Candidate, Doomed
<1>3. ReadNow(snap[s], i)
  BY <1>2 DEF Rewrote
<1>4. /\ i \in Series /\ store[i].status = "active" /\ snap[s].rule = store[i].rule
      /\ seen[s] = ExceptionsOf(i) /\ FirstFor(s) # {}
  BY <1>1, <1>2, <1>3, SeenIsCurrent
  DEF Sane, ReadNow, ReadAs, StillCurrent, SameButCategory, Unwritten
<1>5. Target(s) \in Ledger!FirstActive(store[i].rule, Ledger!OverridesOf(i), cmd[s].now)
  BY <1>4, TargetFacts, SameOperators DEF FirstFor
<1>6. ReplacementsOf(Doomed(s)) = Ledger!Replacements(gone)
  BY <1>2, <1>4 DEF ReplacementsOf, Ledger!Replacements
<1>7. row \in Row
  BY <1>1 DEF Row, Deleted, Before
<1>8. /\ row.revision = store[i].revision /\ SameButCategory(Candidate(s), row)
      /\ Candidate(s).category \in {row.category, NoCategory}
  <2>1. /\ SameButCategory(snap[s], store[i])
        /\ snap[s].category \in {store[i].category, NoCategory}
    BY <1>3 DEF ReadNow, ReadAs, StillCurrent
  <2>2. CASE Before(store[i].rule, Target(s)) = {}
    BY <1>1, <1>2, <1>4, <2>1, <2>2 DEF SameButCategory, Deleted, Row
  <2>3. CASE Before(store[i].rule, Target(s)) # {}
    BY <1>1, <1>2, <1>4, <2>1, <2>3 DEF SameButCategory, Row
  <2> QED BY <2>2, <2>3
<1>9. Ledger!Rewrite(i, row, Ledger!Replacements(gone)) /\ UNCHANGED <<overrides, guesses>>
  <2>1. UNCHANGED <<overrides, guesses>>
    BY <1>1, <1>2, Counted DEF Commit, Rewrote
  <2> HIDE DEF row
  <2> QED BY <1>1, <1>6, <1>7, <1>8, <2>1, RewriteStep
<1> QED BY <1>4, <1>5, <1>9, SameOperators DEF Ledger!DeleteFuture, Ledger!Active

LEMMA OneRowCommit ==
    ASSUME TypeOK, LedgerInv, NEW s \in Sessions, Commit(s),
           cmd[s].operation \in {"create", "confirm", "classify"}
    PROVE  \/ \E row \in Fresh : Ledger!Create(cmd[s].id, row)
           \/ Ledger!Confirm(cmd[s].id)
           \/ cmd[s].category \in Categories /\ Ledger!Classify(cmd[s].id, cmd[s].category)
<1> DEFINE i == cmd[s].id
<1>1. pc[s] = "commit" /\ WroteOne(s) /\ Sane(s) /\ i \in Ids
  BY DEF Commit, LedgerInv, SessionInv, Writes, Unwritten, Checked, SeriesScopes, RangeScopes,
         TypeOK, Command
<1>2. store' = [store EXCEPT ![i] = dirty[i]] /\ UNCHANGED <<overrides, guesses>>
  <2>1. ~ Guessed(s)
    BY DEF Guessed, Checked, SeriesScopes, RangeScopes
  <2> QED BY <1>1, <2>1, Counted DEF Commit, WroteOne, TypeOK
<1>3. CASE cmd[s].operation = "create"
  <2>1. store[i] = Ledger!Absent
    BY <1>1, <1>3 DEF WroteOne, Absent, Ledger!Absent, AnyTitle, Ledger!AnyTitle
  <2> QED BY <1>1, <1>2, <1>3, <2>1, SameOperators DEF WroteOne, Ledger!Create
<1>4. CASE cmd[s].operation = "confirm"
  BY <1>1, <1>2, <1>4, SameOperators DEF WroteOne, Ledger!Confirm, Ledger!Active, TypeOK
<1>5. CASE cmd[s].operation = "classify"
  BY <1>1, <1>2, <1>5 DEF WroteOne, Sane, Ledger!Classify, Ledger!Active, TypeOK
<1> QED BY <1>3, <1>4, <1>5

(* A command that guessed commits within its own series.                    *)
LEMMA GuessCommit ==
    ASSUME TypeOK, TypeOK', LedgerInv, NEW s \in Sessions, Commit(s), Guessed(s)
    PROVE  Ledger!Guess(cmd[s].id)
<1> DEFINE i == cmd[s].id
<1>1. /\ pc[s] = "commit" /\ i \in Ids /\ cmd[s].operation \in Checked
      /\ Candidate(s) \in Row /\ store[i] \in Row /\ snap[s] \in Row
  BY CandidateType DEF Commit, TypeOK, Command, Guessed
<1>2. Rewrote(s) /\ Reads(s)
  BY <1>1 DEF LedgerInv, SessionInv, Writes, Unwritten
<1>3. \A j \in Ids : store'[j] = IF locks[j] = s THEN dirty[j] ELSE store[j]
  BY DEF Commit
<1>4. Ledger!Row = Row /\ Ledger!Ids = Ids /\ store' \in [Ids -> Row]
  BY DEF Ledger!Row, Row, Ledger!Ids, Ids, TypeOK
<1>5. store'[i].revision = store[i].revision + 1 /\ store'[i].status # "absent"
  <2>1. dirty[i] = [Candidate(s) EXCEPT !.revision = store[i].revision + 1] /\ store'[i] = dirty[i]
    BY <1>1, <1>2, <1>3 DEF Rewrote
  <2>2. Candidate(s).status # "absent"
    BY <1>1, <1>2 DEF Candidate, Patched, Deleted, Reads, ReadAs, StillCurrent, Row
  <2> QED BY <1>1, <2>1, <2>2 DEF Row
<1>6. ASSUME NEW j \in Ids \ {i}, store'[j] # store[j]
      PROVE  /\ Ledger!Active(j) /\ j \in Ledger!Replacements(Ledger!OverridesOf(i))
             /\ store'[j] \in Ledger!Written(Ledger!Deleted(store[j]))
  <2>1. locks[j] = s /\ store'[j] = dirty[j]
    BY <1>3, <1>6
  <2>2. j \in ReplacementsOf(Doomed(s)) /\ Removed(j)
    BY <1>2, <2>1 DEF Rewrote
  <2>3. Ledger!Active(j) /\ store'[j] \in Ledger!Written(Ledger!Deleted(store[j]))
    BY <2>1, <2>2, RemovedRow, SameOperators DEF Ledger!Active, Ledger!Written
  <2>4. PICK e \in Doomed(s) : e.replacement = j
    BY <2>2 DEF ReplacementsOf
  <2>5. e \in ExceptionsOf(i) /\ e.replacement # Keep
    BY <1>1, <2>4, DoomedFacts, SeenIsCurrent DEF Unwritten
  <2> QED BY <2>3, <2>4, <2>5, SameOperators DEF Ledger!Replacements
<1>7. \/ UNCHANGED overrides
      \/ \E o \in Occurrences :
            /\ ~ HasOverride(overrides, i, o)
            /\ overrides' =
                  overrides \cup {[schedule |-> i, occurrence |-> o, replacement |-> Keep]}
  <2>1. overrides' = overrides \cup inserted[s]
    BY DEF Commit
  <2>2. CASE inserted[s] = {}
    BY <2>1, <2>2
  <2>3. CASE inserted[s] # {}
    <3>1. /\ cmd[s].operation = "this_occurrence"
          /\ inserted[s] = {[schedule |-> i, occurrence |-> Target(s), replacement |-> Keep]}
          /\ ~ HasOverride(overrides, i, Target(s))
      BY <1>2, <2>3 DEF Rewrote
    <3>2. FirstFor(s) # {}
      BY <1>1, <3>1, SeenIsCurrent DEF Unwritten, SeriesScopes, RangeScopes
    <3> QED BY <2>1, <3>1, <3>2, TargetFacts
  <2> QED BY <2>2, <2>3
<1>8. guesses' = [guesses EXCEPT ![i] = @ + 1]
  BY Counted
<1>9. \A o : Ledger!HasOverride(overrides, i, o) <=> HasOverride(overrides, i, o)
  BY DEF Ledger!HasOverride, HasOverride
<1> HIDE DEF i
<1>10. \A j \in Ledger!Ids \ {i} :
          \/ store'[j] = store[j]
          \/ /\ Ledger!Active(j) /\ j \in Ledger!Replacements(Ledger!OverridesOf(i))
             /\ store'[j] \in Ledger!Written(Ledger!Deleted(store[j]))
  BY <1>4, <1>6
<1>11. store' \in [Ledger!Ids -> Ledger!Row]
  BY <1>4
<1> QED BY <1>5, <1>7, <1>8, <1>9, <1>10, <1>11 DEF Ledger!Guess, i

LEMMA LedgerStep ==
    ASSUME TypeOK, TypeOK', LedgerInv, [Next]_vars
    PROVE  [Ledger!Next]_(Ledger!table)
<1>1. ASSUME NEW s \in Sessions, Commit(s) PROVE Ledger!Next
  <2>1. /\ cmd[s].operation \in Operations /\ cmd[s].id \in Ids /\ cmd[s].now \in Occurrences
    BY DEF TypeOK, Command
  <2>2. Ledger!Ids = Ids /\ Ledger!Fresh = Fresh
    BY DEF Ledger!Ids, Ids, Ledger!Fresh, Fresh
  <2>3. CASE Guessed(s)
    BY <1>1, <2>1, <2>2, <2>3, GuessCommit DEF Ledger!Next
  <2>4. CASE ~ Guessed(s)
    BY <1>1, <2>1, <2>2, <2>4, UpdateCommit, DeleteCommit, OccurrenceCommit, FutureCommit,
       OneRowCommit
    DEF Operations, Ledger!Next
  <2> QED BY <2>3, <2>4
<1>2. CASE \A s \in Sessions : ~Commit(s)
  <2>1. UNCHANGED table
    BY <1>2 DEF Next, Statement, vars, table, local, Rollback, Begin, BeginUpdate, BeginDelete,
       BeginConfirm, Create, StartClassify, ReadOverrides, UpdateSchedule, ConfirmReminder,
       SetCategory, ReadReplacement, DeleteReplacement, InsertOverride, Fail, Restart
  <2> QED BY <2>1 DEF table, Ledger!table
<1> QED BY <1>1, <1>2

LEMMA LedgerStart == Init => Ledger!Init
<1>1. Ledger!Fresh = Fresh /\ Ledger!Absent = Absent /\ Ledger!Ids = Ids /\ Ledger!Seeded = Seeded
  BY DEF Fresh, Ledger!Fresh, Absent, Ledger!Absent, AnyTitle, Ledger!AnyTitle, Ids, Ledger!Ids,
         Seeded, Ledger!Seeded
<1>2. Ledger!FirstTable(store) <=> FirstTable(store)
  BY <1>1, SameOperators DEF FirstTable, Ledger!FirstTable
<1> QED BY <1>1, <1>2 DEF Init, Ledger!Init

(***************************************************************************)
(* Concurrent units of work are serializable at their commits: however the *)
(* sessions interleave, fail and restart, the committed tables change by   *)
(* one whole operation of ScheduleLedger at a time, computed from the rows *)
(* of that moment.  A command that guessed its revision is one step too;   *)
(* what it changes is its schedule and that schedule's replacements.       *)
(***************************************************************************)
THEOREM LedgerRefinement == Spec => ImplementsLedger
BY LedgerStart, LedgerStep, TypeCorrect, LedgerInductive, PTL
DEF Spec, ImplementsLedger, Ledger!Spec
=============================================================================
