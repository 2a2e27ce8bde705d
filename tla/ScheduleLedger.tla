--------------------------- MODULE ScheduleLedger ---------------------------
(***************************************************************************)
(* What the schedule service promises, without sessions: the committed     *)
(* tables change by one whole operation at a time, each computed from the  *)
(* rows as they are at that moment.  Two liberties: an operation that      *)
(* rewrites a row may lose the row's category (service.py writes back the  *)
(* category it read before a classification landed), and an operation that *)
(* names a revision its row had not reached is not held to anything in its *)
(* own series, only to the rest of the tables.                             *)
(***************************************************************************)
EXTENDS ScheduleRows

VARIABLES
    store,      \* the committed row of every id
    overrides,  \* the committed occurrence overrides
    guesses     \* how many guessed revisions were committed, by id

table == <<store, overrides, guesses>>

Active(i) == store[i].status = "active"
OverridesOf(i) == {o \in overrides : o.schedule = i}

(* The row written, or the same with its category lost. *)
Written(row) == {Bump(row), [Bump(row) EXCEPT !.category = NoCategory]}

Replacements(exceptions) == {o.replacement : o \in {e \in exceptions : e.replacement # Keep}}

(* Row i becomes the next version of row, the active replacements in gone  *)
(* are deleted.  One that was found deleted and then revived by a guess    *)
(* may be spared.                                                          *)
Rewrite(i, row, gone) ==
    LET removed == {j \in gone : Active(j)} IN
    \E new \in Written(row), lost \in SUBSET removed,
       spared \in SUBSET {j \in removed : guesses[j] > 0} :
        store' = [j \in Ids |->
                    IF j = i THEN new
                    ELSE IF j \notin removed \ spared THEN store[j]
                    ELSE IF j \in lost
                         THEN [Bump(Deleted(store[j])) EXCEPT !.category = NoCategory]
                    ELSE Bump(Deleted(store[j]))]

Create(i, row) ==
    /\ store[i] = Absent /\ ValidRow(i, row)
    /\ store' = [store EXCEPT ![i] = row]
    /\ UNCHANGED <<overrides, guesses>>

Update(i, changes) ==
    /\ Active(i) /\ ValidRow(i, Patched(store[i], changes))
    /\ Rewrite(i, Patched(store[i], changes), {})
    /\ UNCHANGED <<overrides, guesses>>

DeleteOnce(i) ==
    /\ Active(i)
    /\ Rewrite(i, Deleted(store[i]), {})
    /\ UNCHANGED <<overrides, guesses>>

DeleteSeries(i) ==
    /\ Active(i)
    /\ Rewrite(i, Deleted(store[i]), Replacements(OverridesOf(i)))
    /\ UNCHANGED <<overrides, guesses>>

(* The first occurrence from now on that is not cancelled goes: its        *)
(* replacement when it has one, else it is cancelled.                      *)
DeleteOccurrence(i, now) ==
    /\ Active(i)
    /\ \E o \in FirstActive(store[i].rule, OverridesOf(i), now) :
        LET replaced == {e \in OverridesOf(i) : e.occurrence = o} IN
        /\ Rewrite(i, store[i], Replacements(replaced))
        /\ overrides' =
             IF replaced # {} THEN overrides
             ELSE overrides \cup {[schedule |-> i, occurrence |-> o, replacement |-> Keep]}
    /\ UNCHANGED guesses

(* That occurrence and every later one go. *)
DeleteFuture(i, now) ==
    /\ Active(i)
    /\ \E o \in FirstActive(store[i].rule, OverridesOf(i), now) :
        Rewrite(i,
                IF Before(store[i].rule, o) = {} THEN Deleted(store[i])
                ELSE [store[i] EXCEPT !.rule = Before(@, o)],
                Replacements({e \in OverridesOf(i) : e.occurrence >= o}))
    /\ UNCHANGED <<overrides, guesses>>

Confirm(i) ==
    /\ Active(i) /\ store[i].reminder = "set" /\ store[i].disposition = "none"
    /\ store' = [store EXCEPT ![i] = [Bump(@) EXCEPT !.disposition = "confirmed"]]
    /\ UNCHANGED <<overrides, guesses>>

Classify(i, category) ==
    /\ Active(i) /\ store[i].category = NoCategory
    /\ store' = [store EXCEPT ![i] = [@ EXCEPT !.category = category]]
    /\ UNCHANGED <<overrides, guesses>>

(* A command whose revision was guessed works from a row and overrides that *)
(* may be outdated, for a schedule that may be deleted.  It writes the next *)
(* revision of its own row, deletes replacements of its own series only,    *)
(* and cancels no occurrence that has an override.                          *)
Guess(i) ==
    /\ guesses' = [guesses EXCEPT ![i] = @ + 1]
    /\ store' \in [Ids -> Row]
    /\ store'[i].revision = store[i].revision + 1 /\ store'[i].status # "absent"
    /\ \A j \in Ids \ {i} :
          \/ store'[j] = store[j]
          \/ /\ Active(j) /\ j \in Replacements(OverridesOf(i))
             /\ store'[j] \in Written(Deleted(store[j]))
    /\ \/ UNCHANGED overrides
       \/ \E o \in Occurrences :
            /\ ~ HasOverride(overrides, i, o)
            /\ overrides' =
                  overrides \cup {[schedule |-> i, occurrence |-> o, replacement |-> Keep]}

Init ==
    /\ store \in [Ids -> Fresh \cup {Absent}] /\ FirstTable(store)
    /\ overrides = Replaced
    /\ guesses = [i \in Ids |-> 0]

Next ==
    \/ \E i \in Ids, row \in Fresh : Create(i, row)
    \/ \E i \in Ids, changes \in Patches : Update(i, changes)
    \/ \E i \in Once : DeleteOnce(i)
    \/ \E i \in Series : DeleteSeries(i)
    \/ \E i \in Series, now \in Occurrences : DeleteOccurrence(i, now) \/ DeleteFuture(i, now)
    \/ \E i \in Ids : Guess(i) \/ Confirm(i) \/ (\E category \in Categories : Classify(i, category))

Spec == Init /\ [][Next]_table

=============================================================================
