-------------------------- MODULE RealtimeSessions --------------------------
(***************************************************************************)
(* The pool of model sessions RealtimeAgent keeps between the turns of a   *)
(* conversation (intelligence/realtime/agent.py): handle_audio with the    *)
(* sweep of spent sessions, the per-conversation asyncio locks and the     *)
(* decision whether a session outlives its turn.                           *)
(*                                                                         *)
(* The agent runs on one event loop: an action is the code between two     *)
(* awaits that suspend.  asyncio.Lock is modelled as Python 3.11 defines   *)
(* it: release() clears the flag and wakes the first waiter, which takes   *)
(* the lock only when it runs again; locked() is false in between.         *)
(***************************************************************************)
EXTENDS Naturals, Sequences, FiniteSets, SequencesExt

CONSTANTS
    Turns,         \* tasks running handle_audio, one per voice stream
    Keys,          \* (account_id, conversation_id)
    Modes,         \* voice modes
    Sessions,      \* identities of model sessions; a closed one is used again
    Locks,         \* identities of asyncio.Lock objects, likewise
    TurnBudget,    \* SESSION_MAX_TURNS
    None           \* Python's None

ASSUME RealtimeSessionsAssumption ==
    /\ TurnBudget \in Nat \ {0}
    /\ Modes = {"push_to_talk", "continuous"}
    /\ None \notin Turns \cup Keys \cup Sessions \cup Locks

VARIABLES
    held,      \* _held: the pooled session of a conversation
    session,   \* every session: open or closed, its mode, its budgets, its past
    lockOf,    \* _locks: the lock registered for a conversation
    holder,    \* the turn that has a lock
    queue,     \* the turns waiting for a lock, first come first served
    woken,     \* waiting turns whose future is set
    pc,        \* where a turn is suspended
    turn       \* its locals

vars == <<held, session, lockOf, holder, queue, woken, pc, turn>>

PCs == {"idle", "sweeping", "waiting", "switching", "opening", "running",
        "settling", "discarding"}
Inside == {"switching", "opening", "running", "settling", "discarding"}
Ends == {"on", "done", "failed", "raised"}
Pasts == {"clean", "raised", "failed", "unsettled"}

Session == [open : {"yes", "no"}, mode : Modes, turns : 0 .. TurnBudget,
            aged : {"yes", "no"}, past : Pasts]

Turn == [key       : Keys \cup {None},
         mode      : Modes,
         spent     : SUBSET Keys,                \* _close_spent's list
         lock      : Locks \cup {None},
         using     : Sessions \cup {None},       \* held.session
         forwarding : Ends \ {"failed"},
         pumping   : Ends,
         reusable  : {"yes", "no"}]

NoSession == [open |-> "no", mode |-> "continuous", turns |-> 0, aged |-> "no",
              past |-> "clean"]

NoTurn == [key |-> None, mode |-> "continuous", spent |-> {}, lock |-> None, using |-> None,
           forwarding |-> "on", pumping |-> "on", reusable |-> "no"]

Unlocked(k) == \A l \in Locks : lockOf[k] = l => holder[l] = None

(* _spent: turns, or any of the budgets only time and the vendor move.     *)
Spent(s) == session[s].turns >= TurnBudget \/ session[s].aged = "yes"

IdleSpent == {k \in Keys : held[k] # None /\ Spent(held[k]) /\ Unlocked(k)}

(* _waiters.remove: a turn waits once. *)
Without(q, t) ==
    IF \E i \in DOMAIN q : q[i] = t THEN RemoveAt(q, CHOOSE i \in DOMAIN q : q[i] = t) ELSE q

Goto(t, label) == pc' = [pc EXCEPT ![t] = label]

------------------------------------------------------------------------------

Init ==
    /\ held = [k \in Keys |-> None]
    /\ session = [s \in Sessions |-> NoSession]
    /\ lockOf = [k \in Keys |-> None]
    /\ holder = [l \in Locks |-> None]
    /\ queue = [l \in Locks |-> <<>>]
    /\ woken = {}
    /\ pc = [t \in Turns |-> "idle"]
    /\ turn = [t \in Turns |-> NoTurn]

(* A plausible bug: the session is closed and stays in the pool. *)
DiscardKeeping(k) ==
    /\ session' = IF held[k] = None THEN session ELSE [session EXCEPT ![held[k]].open = "no"]
    /\ UNCHANGED held

(* _discard.  Nothing of a closed session but its mode is read again.      *)
Discard(k) ==
    /\ held' = [held EXCEPT ![k] = None]
    /\ session' = IF held[k] = None THEN session
                  ELSE [session EXCEPT ![held[k]] = [NoSession EXCEPT !.mode = session[held[k]].mode]]

(* The first stretch of _session_for, run as soon as the lock is taken.    *)
SessionFor(t, k, m, locals) ==
    IF held[k] # None /\ session[held[k]].mode = m
    THEN /\ turn' = [turn EXCEPT ![t] = [locals EXCEPT !.using = held[k]]]
         /\ Goto(t, "running") /\ UNCHANGED <<held, session>>
    ELSE /\ turn' = [turn EXCEPT ![t] = locals]
         /\ IF held[k] = None
            THEN Goto(t, "opening") /\ UNCHANGED <<held, session>>
            ELSE Goto(t, "switching") /\ Discard(k)

(* _forget_idle_locks, then the acquire of the conversation's lock: nothing *)
(* is awaited in between.                                                   *)
Registered == [k \in Keys |-> IF Unlocked(k) /\ held[k] = None THEN None ELSE lockOf[k]]

Named == {Registered[k] : k \in Keys} \cup {turn[t].lock : t \in Turns}

LockFor(k) == IF Registered[k] = None THEN Locks \ Named ELSE {Registered[k]}

(* A plausible bug: a newcomer takes a free lock past the one it has woken. *)
AcquireBarging(t, k, m, locals, l) ==
    IF holder[l] = None
    THEN /\ holder' = [holder EXCEPT ![l] = t]
         /\ SessionFor(t, k, m, locals)
         /\ UNCHANGED <<queue, woken>>
    ELSE /\ queue' = [queue EXCEPT ![l] = Append(@, t)]
         /\ turn' = [turn EXCEPT ![t] = locals]
         /\ Goto(t, "waiting")
         /\ UNCHANGED <<held, session, holder, woken>>

Acquire(t, k, m, locals, l) ==
    IF holder[l] = None /\ queue[l] = <<>>
    THEN /\ holder' = [holder EXCEPT ![l] = t]
         /\ SessionFor(t, k, m, locals)
         /\ UNCHANGED <<queue, woken>>
    ELSE /\ queue' = [queue EXCEPT ![l] = Append(@, t)]
         /\ turn' = [turn EXCEPT ![t] = locals]
         /\ Goto(t, "waiting")
         /\ UNCHANGED <<held, session, holder, woken>>

Enter(t, k, m) ==
    \E l \in LockFor(k) :
        /\ lockOf' = [Registered EXCEPT ![k] = l]
        /\ Acquire(t, k, m, [NoTurn EXCEPT !.key = k, !.mode = m, !.lock = l], l)

(* handle_audio starts: the list of spent sessions, and the first of them   *)
(* closed before anything else of the turn.                                 *)
Start(t, k, m) ==
    /\ pc[t] = "idle"
    /\ IF IdleSpent = {}
       THEN Enter(t, k, m)
       ELSE \E first \in IdleSpent :
                /\ turn' = [turn EXCEPT ![t] = [NoTurn EXCEPT !.key = k, !.mode = m,
                                                             !.spent = IdleSpent \ {first}]]
                /\ Discard(first)
                /\ Goto(t, "sweeping")
                /\ UNCHANGED <<lockOf, holder, queue, woken>>

(* close() has returned: the next of the list, as it was drawn up.  A       *)
(* conversation that has no session any more costs no await.                *)
Sweep(t) ==
    /\ pc[t] = "sweeping"
    /\ LET left == {k \in turn[t].spent : held[k] # None}
       IN IF left = {}
          THEN Enter(t, turn[t].key, turn[t].mode)
          ELSE \E k \in left :
                /\ turn' = [turn EXCEPT ![t].spent = @ \ {k}]
                /\ Discard(k)
                /\ UNCHANGED <<lockOf, holder, queue, woken, pc>>

(* A waiter that was woken runs again and takes the lock.                  *)
Resume(t) ==
    /\ pc[t] = "waiting" /\ t \in woken
    /\ woken' = woken \ {t}
    /\ LET l == turn[t].lock
       IN /\ queue' = [queue EXCEPT ![l] = Without(@, t)]
          /\ holder' = [holder EXCEPT ![l] = t]
    /\ SessionFor(t, turn[t].key, turn[t].mode, turn[t])
    /\ UNCHANGED lockOf

(* A plausible bug: the lock is cleared and nobody is woken. *)
ReleaseQuietly(t) ==
    /\ holder' = [holder EXCEPT ![turn[t].lock] = None]
    /\ UNCHANGED <<queue, woken>>

Release(t) ==
    LET l == turn[t].lock
    IN /\ holder' = [holder EXCEPT ![l] = None]
       /\ woken' = IF queue[l] = <<>> THEN woken ELSE woken \cup {Head(queue[l])}
       /\ UNCHANGED queue

Leave(t) ==
    /\ turn' = [turn EXCEPT ![t] = NoTurn]
    /\ Goto(t, "idle")

(* The mode changed: the old session is closed, a new one is opened.       *)
Switched(t) ==
    /\ pc[t] = "switching"
    /\ Goto(t, "opening")
    /\ UNCHANGED <<held, session, lockOf, holder, queue, woken, turn>>

Opened(t) ==
    /\ pc[t] = "opening"
    /\ \E s \in {u \in Sessions : session[u].open = "no" /\ \A v \in Turns : turn[v].using # u} :
        /\ session' = [session EXCEPT ![s] = [NoSession EXCEPT !.open = "yes",
                                                                !.mode = turn[t].mode]]
        /\ held' = [held EXCEPT ![turn[t].key] = s]
        /\ turn' = [turn EXCEPT ![t].using = s]
    /\ Goto(t, "running")
    /\ UNCHANGED <<lockOf, holder, queue, woken>>

OpenFails(t) ==
    /\ pc[t] = "opening"
    /\ Release(t)
    /\ Leave(t)
    /\ UNCHANGED <<held, session, lockOf>>

------------------------------------------------------------------------------
(* A turn at work: forwarding the client's audio and pumping the model's   *)
(* events are tasks of their own, and either can end first.                *)

InputEnds(t) ==
    /\ pc[t] = "running" /\ turn[t].forwarding = "on"
    /\ turn' = [turn EXCEPT ![t].forwarding = "done"]
    /\ UNCHANGED <<held, session, lockOf, holder, queue, woken, pc>>

(* The source of the chunks or the session's transport raises.             *)
InputBreaks(t) ==
    /\ pc[t] = "running" /\ turn[t].forwarding = "on"
    /\ turn' = [turn EXCEPT ![t].forwarding = "raised"]
    /\ UNCHANGED <<held, session, lockOf, holder, queue, woken, pc>>

(* pump() returns after a reply (push-to-talk only), or after reporting a   *)
(* failure, or lets an exception of a tool or of the client's socket out.   *)
PumpEnds(t, how) ==
    /\ pc[t] = "running" /\ turn[t].pumping = "on"
    /\ how = "done" => turn[t].mode = "push_to_talk"
    /\ turn' = [turn EXCEPT ![t].pumping = how]
    /\ UNCHANGED <<held, session, lockOf, holder, queue, woken, pc>>

(* Either task has ended; push-to-talk then waits for the answer.          *)
Concludable(t) ==
    /\ turn[t].forwarding # "on" \/ turn[t].pumping # "on"
    /\ turn[t].forwarding = "done" /\ turn[t].mode = "push_to_talk" => turn[t].pumping # "on"

(* What the try block leaves in "reusable".  pumping is awaited only after  *)
(* the input of a push-to-talk turn ended; elsewhere its exception is       *)
(* swallowed with the cancelled tasks.  cancel_response may raise.          *)
Verdicts(t) ==
    LET f == turn[t].forwarding p == turn[t].pumping
    IN CASE f = "raised" \/ p = "failed" -> {"no"}
         [] f = "done" /\ turn[t].mode = "push_to_talk" /\ p = "raised" -> {"no"}
         [] f = "done" /\ turn[t].mode = "continuous" /\ p = "on" -> {"yes", "no"}
         [] OTHER -> {"yes"}

(* What happened to the session, told by the verdict or not.               *)
Past(t, verdict) ==
    IF session[turn[t].using].open = "no" THEN "clean"
    ELSE IF verdict = "no" \/ turn[t].pumping = "failed" THEN "failed"
    ELSE IF turn[t].pumping = "raised" THEN "raised"
    ELSE session[turn[t].using].past

Conclude(t) ==
    /\ pc[t] = "running"
    /\ Concludable(t)
    /\ \E verdict \in Verdicts(t) :
        /\ turn' = [turn EXCEPT ![t].reusable = verdict, ![t].forwarding = "on",
                                ![t].pumping = "on"]
        /\ session' = [session EXCEPT ![turn[t].using].past = Past(t, verdict)]
    /\ Goto(t, "settling")
    /\ UNCHANGED <<held, lockOf, holder, queue, woken>>

(* turn.close() has settled the reply: the session is kept, or discarded    *)
(* by its conversation's key, whatever session that names now.              *)
Settle(t) ==
    /\ pc[t] = "settling"
    /\ IF turn[t].reusable = "yes"
       THEN /\ session' = [session EXCEPT ![turn[t].using].turns =
                                IF @ < TurnBudget /\ session[turn[t].using].open = "yes"
                                THEN @ + 1 ELSE @]
            /\ Release(t) /\ Leave(t) /\ UNCHANGED held
       ELSE /\ Discard(turn[t].key)
            /\ IF held[turn[t].key] = None
               THEN Release(t) /\ Leave(t)
               ELSE Goto(t, "discarding") /\ UNCHANGED <<turn, holder, queue, woken>>
    /\ UNCHANGED lockOf

(* turn.close() raises: the client's socket is gone, or the turn is         *)
(* cancelled while settling.  The rest of the finally clause is skipped.    *)
SettleRaises(t) ==
    /\ pc[t] = "settling"
    /\ session' = [session EXCEPT ![turn[t].using].past =
                                IF session[turn[t].using].open = "no" THEN @ ELSE "unsettled"]
    /\ Release(t)
    /\ Leave(t)
    /\ UNCHANGED <<held, lockOf>>

Discarded(t) ==
    /\ pc[t] = "discarding"
    /\ Release(t)
    /\ Leave(t)
    /\ UNCHANGED <<held, session, lockOf>>

(* The stream is aborted or its connection lost: the task is cancelled      *)
(* where it is suspended.                                                   *)
CancelSweeping(t) ==
    /\ pc[t] = "sweeping"
    /\ Leave(t)
    /\ UNCHANGED <<held, session, lockOf, holder, queue, woken>>

(* A plausible bug: a cancelled waiter does not pass its wake-up on. *)
CancelWaitingQuietly(t) ==
    /\ pc[t] = "waiting"
    /\ queue' = [queue EXCEPT ![turn[t].lock] = Without(@, t)]
    /\ Leave(t)
    /\ UNCHANGED woken
    /\ UNCHANGED <<held, session, lockOf, holder>>

CancelWaiting(t) ==
    /\ pc[t] = "waiting"
    /\ LET l == turn[t].lock
           others == Without(queue[l], t)
       IN /\ queue' = [queue EXCEPT ![l] = others]
          /\ woken' = (woken \ {t}) \cup (IF holder[l] = None /\ others # <<>>
                                          THEN {Head(others)} ELSE {})
    /\ Leave(t)
    /\ UNCHANGED <<held, session, lockOf, holder>>

CancelOpening(t) ==
    /\ pc[t] \in {"switching", "opening"}
    /\ Release(t)
    /\ Leave(t)
    /\ UNCHANGED <<held, session, lockOf>>

CancelRunning(t) ==
    /\ pc[t] = "running"
    /\ turn' = [turn EXCEPT ![t].reusable = "no", ![t].forwarding = "on", ![t].pumping = "on"]
    /\ session' = [session EXCEPT ![turn[t].using].past = Past(t, "no")]
    /\ Goto(t, "settling")
    /\ UNCHANGED <<held, lockOf, holder, queue, woken>>

(* Time passed, tokens were spent.  Only the sweep asks, and only of a      *)
(* pooled session whose lock is free: that is when it matters.              *)
Age(s) ==
    /\ session[s].aged = "no"
    /\ \E k \in Keys : held[k] = s /\ Unlocked(k)
    /\ session' = [session EXCEPT ![s].aged = "yes"]
    /\ UNCHANGED <<held, lockOf, holder, queue, woken, pc, turn>>

Work(t) ==
    \/ Sweep(t) \/ Resume(t) \/ Switched(t) \/ Opened(t) \/ OpenFails(t)
    \/ Conclude(t) \/ Settle(t) \/ SettleRaises(t) \/ Discarded(t)

Pump(t) == \E how \in Ends \ {"on"} : PumpEnds(t, how)

Cancel(t) == CancelSweeping(t) \/ CancelWaiting(t) \/ CancelOpening(t) \/ CancelRunning(t)

Next ==
    \/ \E t \in Turns :
        \/ \E k \in Keys, m \in Modes : Start(t, k, m)
        \/ Work(t) \/ InputEnds(t) \/ InputBreaks(t) \/ Pump(t) \/ Cancel(t)
    \/ \E s \in Sessions : Age(s)

Spec == Init /\ [][Next]_vars

(* The event loop runs what is ready, and opening or closing a connection   *)
(* ends.  Neither the vendor nor the user is assumed to end a call.         *)
LoopFairness == \A t \in Turns : WF_vars(Work(t))
FairSpec == Spec /\ LoopFairness

------------------------------------------------------------------------------

(* The types; only a waiting turn has a future to be set.                  *)
TypeOK ==
    /\ held \in [Keys -> Sessions \cup {None}]
    /\ session \in [Sessions -> Session]
    /\ lockOf \in [Keys -> Locks \cup {None}]
    /\ holder \in [Locks -> Turns \cup {None}]
    /\ queue \in [Locks -> Seq(Turns)]
    /\ woken \in SUBSET {t \in Turns : pc[t] = "waiting"}
    /\ pc \in [Turns -> PCs]
    /\ turn \in [Turns -> Turn]

(* The pool never offers a session somebody closed: _discard forgets before *)
(* it closes (agent.py _discard), whoever discards and whenever.            *)
PooledIsOpen == \A k \in Keys : held[k] # None => session[held[k]].open = "yes"

(* A turn never speaks to a session opened for the other voice mode         *)
(* (_session_for), however conversations switch between its awaits.         *)
ModeMatches == \A t \in Turns :
    turn[t].using # None => session[turn[t].using].mode = turn[t].mode

(* Two turns are past the acquire of one conversation only if one of them   *)
(* has a lock _forget_idle_locks has dropped from the registry.             *)
RegisteredLockExcludes == \A t, u \in Turns :
    /\ t # u /\ pc[t] \in Inside /\ pc[u] \in Inside /\ turn[t].key = turn[u].key
    => \E v \in {t, u} : turn[v].lock # lockOf[turn[v].key]

(* A free lock somebody waits for has woken the first of them, however      *)
(* releases, hand-overs and cancelled waits interleave.                     *)
FreeLockWakesFirst == \A l \in Locks :
    holder[l] = None /\ queue[l] # <<>> => Head(queue[l]) \in woken

(* The locks do what a lock per conversation is for.                        *)
LocksAreSound == RegisteredLockExcludes /\ FreeLockWakesFirst

InUse(s) == \E t \in Turns : turn[t].using = s
Idle(s) == ~InUse(s) /\ \E k \in Keys : held[k] = s

(* A session whose turn broke off, was cancelled or reported a failure is   *)
(* never left in the pool by a turn that could settle its reply.            *)
FailureNotPooled == \A s \in Sessions : Idle(s) => session[s].past # "failed"

(* What a turn takes from the pool it can use.                              *)
PoolIsSound == PooledIsOpen /\ ModeMatches /\ FailureNotPooled

(* agent.py:228 "Kept only after a turn it survived. A failure, an          *)
(* exception, or a client that hung up mid-turn leaves state nobody has     *)
(* reasoned about, and reusing it carries that into the next turn."         *)
KeptOnlyAfterSurvival == \A s \in Sessions : Idle(s) => session[s].past = "clean"

(* agent.py:317 "the lock that serializes turns within one conversation":   *)
(* two turns never are at work on one conversation.                         *)
TurnsSerialized == \A t, u \in Turns :
    t # u /\ pc[t] \in Inside /\ pc[u] \in Inside => turn[t].key # turn[u].key

(* agent.py:45 "a session is replaced while it still works rather than      *)
(* after a turn has already been lost to it": closing spent sessions never  *)
(* closes one a turn is at work on, under the conversation's lock.          *)
SweepSparesTurns == [][\A t, u \in Turns :
    /\ pc'[t] = "sweeping" /\ turn'[t] # turn[t]
    /\ u # t /\ pc[u] = "running" /\ turn[u].lock = lockOf[turn[u].key]
    => session'[turn[u].using].open = session[turn[u].using].open]_vars

(* When the model's side of a turn ends, the turn ends, though the          *)
(* microphone stays open (agent.py:192): nobody waits for a client that     *)
(* waits to be told.                                                        *)
PumpEndEndsTurn == \A t \in Turns :
    pc[t] = "running" /\ turn[t].pumping # "on" ~> pc[t] = "idle"

(* No turn waits for ever on a lock nobody is at work under: no wake-up is  *)
(* lost when locks are released, handed over, or waits cancelled.           *)
QueuedTurnRuns == \A t \in Turns :
    []<>(\/ pc[t] # "waiting"
         \/ \E u \in Turns : pc[u] = "running" /\ turn[u].lock = turn[t].lock)

(* Both: a turn gets its lock, and ends when its session has nothing more.  *)
TurnsComeThrough == PumpEndEndsTurn /\ QueuedTurnRuns
=============================================================================
