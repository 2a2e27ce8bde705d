# TimeFlow in TLA+

TimeFlow is a voice-first schedule assistant: an Android (Expo) client, a
FastAPI backend and PostgreSQL. The user talks to an agent over a WebSocket; the
agent changes schedules through tools; the client keeps a local copy of the
schedules and turns them into alarms and place reminders. This directory holds
TLA+ models of the parts where that is concurrent, checked with TLC, and proofs
of their main invariants, checked with TLAPS.

Paths below are relative to `src/`; `B/` is `backend/src/timeflow`, `F/` is
`frontend/src`, `N/` is the native Android module
`frontend/modules/timeflow-alarm/android/src/main/java/com/timeflow/alarm`.

## The system

| component | state | operations | talks to |
| --- | --- | --- | --- |
| calendar service, `B/business/calendar`, `B/data` | tables `schedules`, `schedule_occurrence_overrides`; the classifier's queue | create, update, five deletion scopes, confirm a reminder, classify | agent tools, reminder-state route, classifier threads |
| realtime agent, `B/intelligence/realtime`, `B/infrastructure/external/realtime` | pool of model sessions, a lock per conversation, per-session reply protocol, per-reply turn | run a stream's turn, reuse/replace/discard a session, pump the vendor's events, run a tool, settle a reply | vendor socket, connection manager, calendar tools |
| agent tools, `B/intelligence/conversation/schedule_tools.py`, `B/intelligence/realtime/schedule_tools.py`, `tool_mapping.py`, `B/intelligence/location` | per session: the question's authorisation, the lazily prepared search | map arguments to a command, run it in a thread, hand the client its result, answer the model | agents, calendar service, connection manager |
| composed agent, `B/intelligence/composed`, `conversation`, `speech` | turn lock, generation, conversation history, bounded text and audio queues | listen, run a turn, interrupt, speak | ASR, LLM and TTS providers, connection manager, calendar tools |
| WebSocket connections, `B/gateway/websocket/connection_manager.py` | registry, write lock and audio lock per session | register, unregister, send, fan out to an account, stream audio | every producer of messages |
| voice stream, `B/gateway/websocket/handlers/voice_stream.py` | active stream, its bounded queue, its task | start, binary frame, end, disconnect, retire, abort | client, agents |
| handshake, `B/gateway/websocket/endpoint.py` | slots of unauthenticated connections, gauge, occupancy | admit, authenticate, time out, serve, release | accounts |
| accounts, `B/business/auth`, `B/gateway/http/rate_limit.py` | accounts, tokens, sliding windows | register on first login, log in, verify a token | PostgreSQL |
| client schedules, `F/features/sync`, `F/features/assistant/data/local`, `F/infrastructure/database` | SQLite copy of the schedules, a queue for database access | bootstrap, apply a snapshot, a command result, a category, a reminder state | HTTP, WebSocket, reminders |
| reminders, `F/features/reminder`, `F/infrastructure/location` | runtime rows, a chain of operations, tracked deliveries, guard session | fire, deliver, snooze, confirm, rescue, replay native events, judge places | SQLite, native alarms, calendar service |
| native alarms, `N/` | persisted alarm list, event list, ringing service | schedule, cancel, fire, act, boot | Android, reminders |
| client session, `F/features/auth`, `F/infrastructure/websocket`, `F/app` | published state, stored record, retried deletions, socket, running engine | restore, log in, connect, invalidate, clean up, start and stop the runtime | backend, every account-scoped state |
| assistant conversation, `F/features/assistant/application` | conversation phase, stream, playback | push to talk, continuous call, hang up, answers | transport, recorder, player |
| presentation and device adapters | what is on the screen; audio devices | | not modelled |

What is hard, and what correctness means, by component:

* **Calendar service.** Units of work of tools, HTTP routes and classifier
  threads interleave under READ COMMITTED; an update writes back the row it read
  earlier. Correct: the tables change as if each successful command had run alone;
  a deleted schedule stays deleted; revisions tell copies apart; commands end.
* **Realtime agent.** One event loop, but every `await` is a window: sessions are
  swept, replaced and discarded while other turns wait for a lock. The vendor
  and the session each send without waiting for the other. Correct: turns of a
  conversation exclude each other, a broken session is not reused, a cancelled
  reply is silent, every follow-up and every end of a call is eventually due.
* **Agent tools.** A call runs in a pool thread that cannot be stopped, and its task
  may be cancelled at every await, more than once. Correct: the client is handed
  what was applied, once, and the model hears of it only afterwards; two copies of
  the argument mapping agree.
* **Composed agent.** Turns, barge-in and interruption race over one generation
  counter and bounded queues. Correct: only the newest turn speaks, nothing waits
  for ever on a full queue, a finished call calls no more tools.
* **Connections and voice streams.** Several tasks write to one socket, and
  cancellation can land at every await. Correct: bursts do not overlap, what was
  begun is ended, the receive loop always gets back to its client.
* **Client copies and reminders.** Snapshots, command results, pushed categories
  and reminder decisions arrive in any order and survive restarts. Correct: no
  older copy replaces a newer one, no confirmed reminder rings again, no reminder
  that is due is lost.
* **Accounts and handshake.** Requests race between two transactions with a slow
  hash in between; a verification outlives its time-out. Correct: one account per
  username, no token without its password, every slot and gauge given back once.
* **Client session.** Restoring, logging in, a late 401, retried deletions and the
  runtime's start and stop interleave over a store that answers in any order.
  Correct: nothing of an account stays behind it, and nothing waits for ever.

`PROJECT.json` lists every component with its files and its status, and under
`hazards` the places where this can go wrong, with the properties that would
catch it.

## Modules

| module | models | proofs |
| --- | --- | --- |
| `ScheduleRows` | rows, patches, overrides, first active occurrence, cut rule | |
| `ScheduleLedger` | what the service promises: one whole command at a time | |
| `ScheduleService` | sessions of the service, statement by statement | `ScheduleServiceProofs` |
| `RealtimeSessions` | the pool of model sessions and its locks | `RealtimeSessionsProofs` |
| `ContinuousCall` | vendor, reply protocol and turn of a continuous call | `RealtimeCallProofs` |
| `ConnectionManager` | writes and bursts to the registered sockets | `ConnectionManagerProofs` |
| `VoiceStream` | the inbound audio of one connection | `WebsocketSessionProofs` |
| `ComposedTurns` | one composed session: receive loop, calls, turns and their queues | `ComposedAgentProofs` |
| `Dialogue` | one conversation of the agent and its guard on deletions | `ComposedAgentProofs` |
| `ToolArguments` | what both agents make of a tool's arguments | |
| `CommandPromise` | what a tool call promises the client and the model | |
| `ScheduleTools` | tool calls of both agents, from arguments to answers | `RealtimeCallProofs` |
| `Accounts` | first login, limiter and tokens | `AccountsProofs` |
| `SessionEntry` | connections from the limiter to the clean-up, and their counters | `WebsocketSessionProofs` |
| `ClientSession` | the client's session, its record, its socket and its runtime | `ClientSessionProofs` |

Each `MC...` module gives TLC the values a `.cfg` cannot write. Operators marked
"A plausible bug" are the mutated forms used to show that a property can fail;
no action uses them. Three proof modules extend two components each, so the names
both would have carry a prefix in one of them: `Call...` in `ContinuousCall`,
`Stream...` in `VoiceStream`, `Composed...` in `ComposedTurns` (`CallSpec`,
`StreamTypeOK`, ...).

### ScheduleService

A session is one unit of work (`schedule_unit_of_work.py`). Its SELECTs and
UPDATEs are separate actions named by `pc`; `store` is what is committed, `dirty`
the uncommitted version of a locked row, `snap`/`seen` what the session read. An
UPDATE waits for the row lock and tests its `WHERE revision =` on the committed
row, as READ COMMITTED does; `Fail` and `Restart` roll back. A command that is
refused at its first read has no effect and is not begun. The local date `now` is
arbitrary for each command. The revision a command names is any number up to
`MaxRevision + Ahead`, for the tools pass on whatever integer the model gives and
`service.py:351` compares it with nothing: only the UPDATE does. A command that names
a revision past the row it has read is a guess (`Guessed`); when another commit makes
the guess right it writes an outdated row. `guesses` is a history variable that
counts such commits. `Replaced` seeds REPLACE overrides: the code handles
them everywhere but writes only CANCEL ones.

`ScheduleLedger` is the abstract specification. The service implements it under
the identity mapping of `store`, `overrides` and `guesses` (property
`ImplementsLedger`), with two liberties the ledger grants openly: a rewritten row may
lose its category, and a guess (`Guess`) is held to little: it writes the next
revision of its own row, deletes active replacements of its own series only, and adds
no second override to an occurrence. Everybody else's operations are whole and
computed from the rows of the moment, guesses around them or not; only a replacement
that a series deletion found deleted and that a guess has revived since may be spared.

### RealtimeSessions

A turn is a task in `RealtimeAgent.handle_audio`; `pc` is the await it is
suspended at. `asyncio.Lock` is modelled as Python 3.11 has it: a release clears
the flag and wakes the first waiter, and in between `locked()` is false. That
interval is where `_forget_idle_locks` goes wrong. The audio forwarder and the
pump end by themselves, by failure or by exception; `Verdicts` is what the `try`
block makes of it; `SettleRaises` is `turn.close()` raising out of `finally`.
Session and lock identities are used again once nobody refers to them.

### ContinuousCall

`wire` and `up` are the two directions of the vendor socket. The vendor (external:
modelled from the events the code handles and from its comments) starts a
response when speech ends, when it is asked to, or unasked; emits words and tool
calls in any order; rejects a create while a response is open and a cancel while
none is. `_pump_continuous` is one action per event kind; a tool call suspends
the pump (`awaiting = "call"`), and so does the settling of a reply. `flags` are the
session's fields, `playing` stands for `_clock() < _playable_until`, which
`PlayedOut` may end at any time. `HangUp` is the microphone closing, `Disconnect`
the turn being cancelled, `NextCall` the next stream taking the session up.
Two assumptions on timing are built in: a cancel reaches the vendor before it
starts another response to speech, and an unasked response starts on a quiet wire.

### ConnectionManager

Each asyncio lock is the queue of its waiters, whose head owns it. A frame is on
the wire as soon as its writer has the lock; then the writer drains. Cancellation
can arrive in every state of a burst; the end message is sent by a shielded task
(`ender`). Session identifiers are minted per connection, so an unregistered one
does not come back.

### VoiceStream

One connection. `loop` is where the receive loop is; `queue[s]` the bounded queue
of a stream; `task[s]` its `_drain_to_sink`. A disconnect is seen only when the
loop is back at `receive`. The audio budget is counted in frames. A sink is "busy"
from its call to its first read and between two reads: opening a session, waiting for
its conversation's lock, working on a frame. Nothing makes it come back from there.

### ComposedTurns

`receiver` is the receive loop of the connection, `call[s]` the task of stream `s`
in `handle_audio` (with, in continuous mode, its loop over the finals), `asr[s]`
what the stream's recognition has passed on, and `turn[<<s, n>>]` the turn of the
n-th final. A turn is three tasks: `maker` asks the agent for events and puts each
into two bounded queues, `text` and `speech` read them. `maker = "parting"` is
its `finally`, which puts the end markers; `due` are the queues a put still waits
for. `Cancelled` is a task's cancellation as asyncio does it: consumers leave, the
producer still runs its `finally`, and a cancellation that finds it there is
dropped with what it was putting. `Detaches` is the place where cancelling a call
does not cancel its turn (`asyncio.wait`): the turn goes on without a call.
`session.audio` is `active_audio_id` and `active_audio_stream`. Recognition, agent
and synthesis may answer, fail or take any time. A message to the client is sent
or dropped. A send that raises because the socket breaks under it
(connection_manager.py:106) is left out: it would end the consumer of the text and
with it the turn, or, while a barge-in tells the client that its audio is cancelled
(agent.py:428), end the call and leave the turn running without one, as
`Detaches` does for a cancellation. From then on nothing reaches that client, so
what the properties say of its audio has no listener; the turns that follow on
that socket are not covered. The speech task is taken to read up to its end
marker, where the pipeline stops at the end of the answer (pipeline.py:239, 243).
`VoiceStream` models the queue between receive loop and call, so here it is left
out.

### Dialogue

`messages` is the history sent to the model (without the system message, which is
replaced in place), `pending` the question the next utterance answers, `answered`
what the guard on deletions reads. A turn may end wherever it awaits or yields
(`Stop`). `Deliver` is the agent's consumer handing the question to the client.
Turns do not overlap: a turn left behind by its call (`ClosedIsDone` below) would
work on the same history and is not modelled here. The call that ends a conversation
never gets a result; `WellPaired` exempts it.

### ToolArguments, CommandPromise, ScheduleTools

An argument is one of the values its readers tell apart (absent, null, a naive
date-time, a number out of range, ...); a reader is the function from what it takes
to what it makes of it, and refuses the rest. `OfComposed` and `OfRealtime` are the
two copies of the mapping. `MappingsAgree` compares them on every request with one
argument out of the ordinary, once, in the initial state, since it does not depend
on later ones.

In `ScheduleTools` a call's `pc` is the await its task is at; `Workers` threads run
the service and go on when a call is cancelled. The composed agent shields its
thread and drains it before it lets a cancellation through, the realtime agent does
not wait. A call that looks for a place finds the session's context open (with a
place to prepare around), `none` (no provider, or no client location) or prepared.
A realtime turn without tools (agent.py:472) does not happen: main.py:349 always
hands the agent a factory for them. `CommandPromise` is the abstract specification both implement
(`ImplementsPromise`, an INSTANCE ... WITH over the calls' outcome, reports and
answers): a command is decided once, reported to the client only when applied and
once, told to the model only after that, and a withdrawn call tells nothing more.

### Accounts

A request is a thread; each transaction is one action, the hash is the gap between
two of them. A hash is represented by the password it was made of, an account id by
the request that generated it. `Restart` ends what runs, empties the limiter and
keeps the database; the new process may be configured with another token lifetime.

### SessionEntry

`pc` is the await a connection's task is at. The verification of a hello runs in one
of `Workers` threads and may return when nobody waits for it any more. The handshake's
time-out may fire wherever `asyncio.wait_for` covers; the client may leave and the
server may shut down at any await. A frame that cannot be read ends a connection by an
exception when it is not one `_receive_frame` catches; to the counters that is an
exit like the others.

### ClientSession

The client is one JavaScript thread: an action is the stretch between two awaits.
`native[o]` is the secure-store operation that owner `o` waits for; operations return
in any order and may fail, and at a crash those in flight may or may not have
reached the store. `live` are the deletions of the retrier's present generation.
React effects are taken to run right after the state they depend on is published.
An invalidation or sign-out that joins one already running changes nothing, so it is
no action. A clean-up that times out stays in the chain as a stop that is still to
come. The cleaner of the schedule view has no state here.

## What the runs show

| run | question | bounds | result |
| --- | --- | --- | --- |
| `schedule_rows` | two callers and a classifier on one schedule | revisions read to 2, named to 4, 2 titles | serializable but for guessed revisions (so confirmations survive concurrent updates), deleted is final, versions advance |
| `schedule_series` | two callers on a series with a replaced occurrence | 3 days, revisions read to 1, named to 2 | serializable but for guessed revisions, no duplicate override, every command ends |
| `realtime_pool` | two streams on one conversation, one turn a session | 1 session, 2 locks | pool, modes, locks and failures as promised; turns end; waiters run |
| `calls` | two calls on one session, vendor may also answer unasked | 2 responses, 2 stretches of speech, 2 events in flight | silence after a cancel, nothing unasked, everything owed is due |
| `bursts` | two bursts, a message, a fan-out, losses and cancellations | 1 session, 1 chunk a burst | bursts do not overlap, are ended, and give way |
| `voice_stream` | two streams on one connection | queue of 2 | always read, no reader gone while the loop is parked, quiet when closed; the loop returns and the end of input is heard where sinks come back |
| `composed` | two streams of one session, either mode, turns that fail, are interrupted, talked over or abandoned | 2 finals, replies and queues of 1 event | one voice, audio that can be cancelled, whole farewells; nobody waits for ever except behind a stuck producer |
| `dialogue` | three utterances, failures and interruptions everywhere | 2 tool rounds, 3 kinds of question | history well paired; deletions answered |
| `tools` | one composed and two realtime calls, cancelled up to twice each | 1 thread, 2 sessions | both agents keep `CommandPromise`; calls end; the mappings agree |
| `accounts` | three first logins, two for one username under two spellings | window of 2, limits 1 and 2, clock to 2, 1 restart | one account a username, no token without a password, no burst past the window; requests end |
| `session_entry` | three connections over two slots | 1 thread | every counter agrees with the sessions there are; no connection stays unauthenticated |
| `client` | signing in, out and being refused, with a kill in between | 2 tokens, 1 background deletion, 1 restart | nothing of an account stays behind it; nothing waits for ever |

Why the bounds are enough: each is the smallest at which every action and every
race named in `hazards` happens. A second revision lets an outdated update meet a
newer row, and lets a guess made at revision 1 come true, also on a row deleted in
between; three occurrences give a rule something before,
at and after a replaced one; two turns and one session already make a turn wait,
be woken, cancelled and replaced; two responses are a reply and the one that
follows or replaces it; one chunk separates a burst's start from its end; a reply
of one event fills a queue of one (the code's hold 8) and leaves no room for the
end marker; two streams and two finals give a turn a predecessor and a
successor, in its own call and in the next; three utterances put a question, its
answer and a fresh command in a row; one thread and three calls make one wait for
another; three requests are a race and one the limiter turns away; two slots and
three connections fill the limiter; two tokens are a session and the one after it.
`client` was also run once for safety with three tokens and two background
deletions (2 684 434 states).
`MaxRevision`, `Ahead`, `TurnBudget`, `MaxResponses`, `MaxSpeech`, `MaxStreams`,
`MaxWire`, `MaxChunks`, `MaxAudio`, `MaxQueue`, `LastStream`, `MaxFinals`,
`Replies`, `QueueSize`, `MaxTurns`, `MaxRounds`, `MaxCancels`, `Workers`,
`ClientLimit`, `GlobalLimit`, `Window`, `TTLs`, `MaxTime`, `MaxRestarts` and `Limit`
are, with the sizes of the sets, the only bounds (`TurnBudget`, `MaxAudio`,
`MaxQueue`, `QueueSize`, `MaxRounds`, `Workers`, `ClientLimit`, `GlobalLimit`,
`Window`, `TTLs` and `Limit` are settings of the code).

`CHECK_DEADLOCK FALSE` appears where the system may stop: calls that are over, a
closed connection, a schedule at its last revision, requests that are answered.

A property with several parts is a conjunction of named ones; a failing run names
the conjunction, the counterexample shows the part.

### Promises the code does not keep

No run expects a violation. These promises, most of them quoted from a comment or a
docstring, are stated in the modules and not kept. Putting a name in a `.cfg` of the same module shows the behaviour.

| promise | what happens instead |
| --- | --- |
| `TurnsSerialized` (RealtimeSessions, 3 turns, 3 locks) | a lock is dropped from the registry between its release and its waiter's resumption; two turns work on one conversation |
| `SweepSparesTurns` (RealtimeSessions, 2 conversations) | `_close_spent` closes a session taken up since it looked |
| `KeptOnlyAfterSurvival` (RealtimeSessions) | a session stays pooled when settling raises |
| `EverySessionTold` (ConnectionManager) | an exception leaves `send_to_account`'s loop |
| `StartedIsEnded` (ConnectionManager) | a burst cancelled while its start message drains is not ended |
| `SpeechIsAnswered` (ContinuousCall, 3 responses) | the tool call of a cancelled reply asks for a follow-up that uses up the expectation raised by the barge-in; the real answer is refused |
| `RaceIsForgiven` (ContinuousCall) | `_cancel_pending` is dropped at a response started before the vendor took the cancel; its harmless error then hangs up |
| `NothingBleeds` (ContinuousCall, 2 calls) | frames of an abandoned reply reach the next call |
| `FollowUpTaken` (ContinuousCall) | a follow-up can meet a response to new speech |
| `StillListening` (ComposedTurns) | speech before a turn's audio uses up the loop's only wait for it; later speech does not stop the reply |
| `NextFinalTakesOver` (ComposedTurns) | a cancelled turn waits for its producer, and the producer for room in a queue nobody reads any more; barge-in and interruption hang until they are cancelled themselves |
| `ClosedIsDone` (ComposedTurns) | a call cancelled while it waits for its turn leaves the turn behind; it goes on calling tools after the session is closed |
| `CategoryKept` (ScheduleService) | `update_schedule` writes back the category it read; a classification committed in between, which takes no revision, is erased |
| `OnlySuppliedFields` (ScheduleService; `service.py:345`) | a command names a revision past the one it reads; the commit that brings it comes in between; the UPDATE matches and the fields not supplied get their old values back, the other commit's work undone |
| `NothingRevived` (ScheduleService) | the same with a deletion in between: the active row is written over the deleted one. A guessed deletion may also cancel an occurrence chosen from old overrides |
| `LoopAlwaysReturns` (VoiceStream) | a realtime sink reads nothing while it waits for its conversation's lock (`realtime/agent.py:163`), which the turn before may hold at `await pumping` (line 203) for as long as its vendor takes; a composed call behind a stuck producer reads nothing either. A full queue then parks the receive loop, and no disconnect is noticed |
| `DeleteWasAsked` (Dialogue) | a question is pending before it is delivered; if its turn is interrupted there, the next command counts as its answer and may delete |
| `DeletesWereAsked` (ScheduleTools) | the realtime agent authorises a deletion before its question is sent; sending may fail or be cancelled |
| `VagueIsStable` (ScheduleTools) | the realtime agent prepares the search before it looks at the words; when that fails, "home" is answered with unavailable and not with ambiguous |
| `NewSessionKept` (ClientSession) | a late 401 while a login waits for old deletions starts a generation of its own, whose retry erases the new record |
| `SignOutIsHeard` (ClientSession) | a sign-out in the tail of the previous session's clean-up joins that one and is lost |

Met on the way and stated by no property: a late 401 ends the session there is,
whichever token it was sent with (`F/features/auth/data/client.ts:75-79` does not
compare them); a kill between a failed deletion of the record and its retry leaves
the record, and the next start restores it; a composed call that is cancelled while
drained and whose arguments could not be mapped, or whose service raised, ends as an
`AgentToolError` and not as a cancellation; a title that reads as a naive date-time
is rewritten by `normalize_datetime_args`.

### Fairness

* `ScheduleService`: strong fairness of each session's statements. PostgreSQL
  queues the sessions that wait for a row lock, so a waiting one is served though
  others keep coming.
* `RealtimeSessions`: weak fairness of the agent's own steps. Neither the vendor
  nor the user is assumed to end anything.
* `ConnectionManager`: the event loop runs what is ready, and a transport drains
  or fails. Nothing is assumed of producers of audio.
* `VoiceStream`: the receive loop and the tasks run when their queue, a task's end or a
  cancellation wakes them. Nothing is assumed of the client, and nothing of a sink:
  `interrupt()` may hang, `consume()` need neither come back to its queue nor end nor
  clean up. That a sink comes back (`ComesBack`) is a hypothesis written into the
  property, stream by stream; the properties say nothing of a stream that breaks it.
* `ComposedTurns`: as long as some task can go on, one does (weak fairness of
  `Advance`). Every task takes finitely many steps between two inputs, so this is
  what an event loop that only runs what is ready guarantees. An ended stream's
  recognition ends; nothing is assumed of the client, of what is recognised or of
  failures.
* `ScheduleTools`: weak fairness of each call's task and of the thread at work for
  it: the service returns or raises. Nothing cancels a call.
* `Accounts`: weak fairness of each request's thread.
* `SessionEntry`: weak fairness of what returns by itself: the timer fires, and
  accept, sends and closes return or raise. Nothing makes a client say hello, or a
  verification end.
* `ClientSession`: weak fairness of the store's answers, of the access request (aborted
  after 15 s), of the handshake's (5 s) and the clean-up's (2 s) time-outs. Nothing
  makes the server answer a protected request, nor a native module start or stop.

## What is proved

TLAPS proves these for every value of the constants that satisfies the modules'
named assumptions (`ScheduleRowsAssumption`, `ScheduleServiceAssumption`,
`RealtimeSessionsAssumption`, `VoiceStreamAssumption`, `DialogueAssumption`,
`CallsAssumption`, `BoundsAssumption`, `ConnectionManagerAssumption`,
`ComposedTurnsAssumption`, `ContinuousCallAssumption`, and a `ConstantsAssumption` each in `Accounts`,
`SessionEntry` and `ClientSession`), which TLC evaluates on each run.

* `ScheduleServiceProofs`. `TypeCorrect`: types, by induction over the actions.
  `GuardsCorrect`: `RevisionGuards`, with `TypeOK` and `WritersHold` (a session past its
  `UPDATE` holds the lock of its row) the inductive invariant behind the service's
  safety: a row read and about to be written back is an older version or
  the current one but for its category; a locked row's next version is its successor,
  and was made from the row that is still there unless the command guessed. Nothing is
  assumed of the revision a command names. `VersionsCorrect`, the action property
  `VersionsAdvance`, follows from it: without it a late write could start from a row
  that was read before the deletion. The theorems say of guesses what is true of them
  and of everything else what holds though guesses happen around it.
  `InsertCorrect` (`InsertNeverCollides`) and `LedgerRefinement` (`ImplementsLedger`) rest
  on `LedgerInv`, itself proved in `LedgerInductive`: what a transaction still holds of
  a row when it comes to write it: that the row has not moved since, or the writer
  guessed. That a series deletion may spare a replacement a guess has
  revived is in the ledger for the theorem's sake; `schedule_series` does not reach
  it. With `LedgerInv` every action is one step of `ScheduleLedger` or a stutter;
  without it a stale write would be a step the ledger does not have.
* `RealtimeSessionsProofs`. `TypeCorrect`; `LocksCorrect`, that is
  `LocksAreSound` (exclusion under a registered lock, no lost wake-up), from `IInv == TypeOK /\ TurnKnows /\ LockInv`. `TurnKnows` says a
  turn past the acquire knows its lock and holds it, `LockInv` that the waiters of
  a lock are exactly the turns queued in it, each once, and that a free lock has
  woken its first. Neither conclusion is inductive alone: a cancelled waiter hands
  its wake-up on only if the queue is what the turns believe it is. `PoolCorrect`
  (`PoolIsSound`) adds `PoolInv`: no two conversations hold one session, a turn uses no
  other conversation's, and a failed session still held is about to be given up by its
  turn.
* `ConnectionManagerProofs`. `TypeCorrect`, and `BurstsCorrect` (`BurstsAreWhole`). The
  audio lock alone does not keep bursts apart: a cancelled burst leaves it while its
  end message still waits for the write lock. `QueueInv` says that every frame in a
  queue belongs to a task waiting for it and is there once, that a queued end stays
  until it is sent, and (`EndsBeforeStarts`) that no end stands behind a start, so
  the next burst's start cannot overtake the last one's end. `OneBurst` puts
  whoever is past the audio lock at its head. `WireInv` then follows what a client
  was sent: its last start or end is the start of the one burst that may
  still send it something, and an end done with was sent or the client is gone.
* `ComposedAgentProofs`, the conversation. `TypeCorrect` and `DeletesCorrect`. The guard
  reads the conversation's fields, not the turn's, so `DeleteIsAnswered` needs
  `AnswerKnown` (the fields are those the turn at work was given), `Serial` (there is
  one such turn) and `DeletersBegan` (a turn not begun has deleted nothing).
  `HistoryCorrect` (`WellPaired`: a call in the history is followed by its result or is
  the question still open) needs `QuestionIsLast`, `NothingPending` and
  `CallsNumbered` beside it.
* `ComposedAgentProofs`, the turns. `ComposedTypeCorrect`, and `SpeechCorrect`
  (`SpeechIsSound`), from `ComposedInv`. That the session knows its one voice does not
  follow from the step before: a turn left behind by its call may still speak. The
  invariant adds that a call has one turn under way, that of its last final
  (`OneTurn`); that generations are begun once, in the order of the streams
  (`GenerationsRise`), and the microphone's is the newest (`NewestHasMic`); what the
  receive loop has let pass before it waits (`ReceiverKnows`); that a turn whose
  consumer left is stale (`CutIsStale`), so that nothing puts it back into
  `session.audio`; and that while a current turn is without its call, no other call is
  waiting to begin (`NobodyBehind`).
* `RealtimeCallProofs`, the tool calls. `TypeCorrect`; `ReportsCorrect`
  (`AppliedIsReported`) and `PromiseKept` (every step of a call is one step of
  `CommandPromise` or none) from `IInv`, which says for each place a call can be at what
  its thread, its outcome, its reports and its answers may be. The refinement needs it:
  a report step of the code is one of the promise only if nothing was reported before.
* `RealtimeCallProofs`, the continuous call. `CallTypeCorrect`, and `RepliesCorrect`
  (`RepliesInOrder`), from `PumpInv`. The conclusion speaks of an end that is still to
  come, in flight or owed by the vendor, and every event read or cancel sent could
  take that end away. `Ended` says that whatever belongs to a response is followed by
  the end of that response and not only by some end; `Rising` that responses are
  numbered as they start; `CutIsPast` that what was cut was started before what is
  still to start, and that its tail is being passed over; `HeldIsOpen` that what the
  pump holds (a follow-up, a tool call, a call to be ended) belongs to a response
  whose end is the next mark on the wire; `Owed` that whoever expects a reply is owed one or is being given
  it. The bound on requests in flight (`RequestsBounded`) gives each of them a start or
  an end of a response of its own; the types need it.
* `WebsocketSessionProofs`, the entry. `TypeCorrect`; `CountsCorrect` (`CountsMatch`): the
  limiter's count is a cardinality, so each action needs that its connection is on one
  known side of the set; the invariant also ties gauge, registry, occupancy and
  hang-ups to `pc`.
* `WebsocketSessionProofs`, the streams. `StreamTypeCorrect`, and `StreamsCorrect`
  (`StreamsAreRead`) from an invariant that ties the loop's position, the registered
  tasks and the tasks `handle_disconnect` waits for.
* `AccountsProofs`. `TypeCorrect`; `AccountsCorrect` (`AccountsAreSound`) from an
  invariant on what each request has read and hashed by the place it has come to, which
  is what survives the interleaving with the other request's insertion.
  `WindowsCorrect` (`WindowBounds`): what was admitted within one window never exceeds
  the limit. The limiter's queue drops what it thinks has expired, so the invariant is
  `QueuesKnow`, that the queue still holds each admission of a live window; an injection
  of the admissions into the queue then bounds their number by its length.
* `ClientSessionProofs`. `TypeCorrect`; `AccountsAlone` (`AccountIsAlone`) from ten
  conjuncts. `Owning`, `Booting`, `SigningIn` say who may wait for which store operation;
  `Generations`, `Pending`, `Forgetting` that an unwanted record always has a deletion
  or a retry on its way, in this generation or through an older one; `Current`,
  `EngineFollows`, `Chained` that socket and engine belong to the published session or
  are about to be stopped.

Only model-checked: everything about liveness (fairness and ENABLED are out of
TLAPS's reach here) and `MappingsAgree`, a table compared over enumerated inputs. Every
other invariant and action property of the runs is proved. What recursive definitions
compute for every input could not be proved either (induction over data needs theorems
with operator parameters). No module declares a RECURSIVE operator.

## What could follow

1. The client's copy of the schedules: bootstrap, snapshots, local writer, category
   patches and the access gate, against a copy that only moves forward.
2. The reminder runtime with its native alarms and events, against a reminder that is
   presented until it is decided, and a decision that is final.
3. The assistant's conversation services over the client's socket.

## Not modelled

* Backend: searches and other reads of the calendar service, the arithmetic of RRULE
  expansion (a rule is the set of instants it expands to), push-to-talk pumping
  (`_pump_single_turn`, the one-reply case of the same protocol), wording and prompts,
  the segmentation of text for synthesis, coordinate conversion and the providers' wire
  formats, metrics and tracing, settings and wiring.
* The client's copy of the schedules and the access gate in front of it: a cache that
  the next snapshot rebuilds. The hazards it has are listed with that note.
* The reminder runtime, the location guard and the native alarms: triggers over wall
  clocks, places and Android's alarm manager, for which these models have no notion of
  time. What starts and stops them is in `ClientSession`.
* The assistant's conversation services: the server they talk to is modelled with a
  client that may do anything its protocol allows.
* Audio devices, screens and view models.
