--------------------------- MODULE ComposedTurns ---------------------------
(***************************************************************************)
(* The turns of one composed session: the receive loop of the connection,  *)
(* which opens and ends its audio streams one after the other, the call    *)
(* of ComposedVoiceAgent.handle_audio each stream runs in, and the turns   *)
(* those calls run, each one producer of agent events with two consumers   *)
(* (text and speech) behind bounded queues.                                *)
(*                                                                         *)
(* Recognition, model and synthesis are external: they answer, fail or     *)
(* take any time.  A turn is <<stream, final>>; an agent event has no      *)
(* content, its turn says how many are to come.  Names every module has    *)
(* carry a prefix: one proof module extends this one and Dialogue.         *)
(***************************************************************************)
EXTENDS Integers, FiniteSets

CONSTANTS
    Modes,          \* the voice modes a session may have
    LastStream,     \* bound: streams the connection opens
    MaxFinals,      \* bound: finals recognised in all of them
    Replies,        \* numbers of events a reply may have
    QueueSize       \* maxsize of the two event queues

ASSUME ComposedTurnsAssumption ==
    /\ Modes \subseteq {"continuous", "push_to_talk"}
    /\ LastStream \in Nat /\ MaxFinals \in Nat /\ Replies \subseteq Nat
    /\ QueueSize \in Nat \ {0}

VARIABLES
    session,    \* ComposedSession: generation, active_turn, active_audio
    receiver,   \* the receive loop: where it waits, and for which call
    mic,        \* the registered stream, 0 for none
    call,       \* handle_audio of each stream
    asr,        \* what the pump of each stream has passed on
    turn        \* the turns

composedVars == <<session, receiver, mic, call, asr, turn>>

Streams == 1 .. LastStream
Turns == Streams \X (1 .. MaxFinals)
NoTurn == <<0, 0>>
Outputs == {"text", "speech"}
Ended == {"over", "farewell"}

Current(s) == <<s, call[s].final>>
IsCurrent(t) == session.generation = call[t[1]].generation
Running == {s \in Streams : call[s].at \notin {"off", "armed", "queued", "ended"}}

ComposedInit ==
    /\ \E mode \in Modes :
        session = [mode |-> mode, generation |-> 0, turn |-> 0, audio |-> NoTurn]
    /\ receiver = [at |-> "idle", of |-> 0]
    /\ mic = 0
    /\ call = [s \in Streams |-> [at |-> "off", generation |-> 0, final |-> 0, ending |-> FALSE]]
    /\ asr = [s \in Streams |-> [finals |-> 0, over |-> FALSE]]
    /\ turn = [t \in Turns |-> [at |-> "idle", maker |-> "idle", left |-> 0,
                                due |-> {}, queue |-> [c \in Outputs |-> 0],
                                text |-> "reading", speech |-> "quiet", failed |-> FALSE]]

-----------------------------------------------------------------------------
(* One turn                                                                *)

Silence(t) == IF session.audio[1] = t[1] THEN [session EXCEPT !.audio = NoTurn] ELSE session

(* One event, or the end marker, for both queues: a full one keeps the     *)
(* producer waiting for room.                                              *)
Offered(r) ==
    LET full == {c \in Outputs : r.queue[c] = QueueSize}
    IN  [r EXCEPT !.due = full, !.queue = [c \in Outputs |-> IF c \in full THEN @[c] ELSE @[c] + 1]]
(* A plausible bug: an end marker for the text only.                       *)
PartingHalf(r) == [r EXCEPT !.maker = "parting", !.queue["text"] = 1, !.due = {}]

Parting(r) == [Offered(r) EXCEPT !.maker = "parting"]

(* Every cancelled consumer is gone; the producer still has its end marker *)
(* to put, unless that is what it was cancelled in.                        *)
Abandoned(r) ==
    LET reads == {"reading", "quiet", "fed", "playing"}
    IN  [IF r.maker = "busy" THEN Parting(r) ELSE [r EXCEPT !.maker = "done", !.due = {}]
            EXCEPT !.at = "joining",
                   !.text = IF @ \in reads THEN "gone" ELSE @,
                   !.speech = IF @ \in reads THEN "gone" ELSE @]
Cancelled(r) ==
    CASE r.at \in {"called", "heard"} -> [r EXCEPT !.at = "over"]
      [] r.at \in {"running", "joining"} -> Abandoned(r)
      [] OTHER -> r

Step(t, r) ==
    /\ turn' = [turn EXCEPT ![t] = r]
    /\ UNCHANGED <<receiver, mic, call, asr>>
Quietly(t, r) == Step(t, r) /\ UNCHANGED session
Muted(t, r) == Step(t, r) /\ session' = Silence(t)

(* _act_on_transcript: the transcript is delivered, then the agent starts. *)
Hear(t) ==
    /\ turn[t].at = "called"
    /\ Quietly(t, [turn[t] EXCEPT !.at = IF IsCurrent(t) THEN "heard" ELSE "over"])

Think(t) ==
    /\ turn[t].at = "heard"
    /\ IF IsCurrent(t)
       THEN \E n \in Replies :
                Quietly(t, [turn[t] EXCEPT !.at = "running", !.maker = "busy", !.left = n])
       ELSE Quietly(t, [turn[t] EXCEPT !.at = "over"])

(* produce(): each event goes to both queues before the next is asked for; *)
(* a stale, failed or finished turn goes on to put the end markers.        *)
Produce(t) ==
    /\ turn[t].maker = "busy" /\ turn[t].due = {}
    /\ Quietly(t, IF turn[t].left = 0 \/ ~IsCurrent(t)
                  THEN Parting(turn[t])
                  ELSE [Offered(turn[t]) EXCEPT !.left = @ - 1])

AgentFails(t) ==
    /\ turn[t].maker = "busy" /\ turn[t].due = {}
    /\ Quietly(t, [Parting(turn[t]) EXCEPT !.failed = TRUE])

(* A plausible bug: the queue takes more than its size.                    *)
PutAnyway(t, c) ==
    /\ c \in turn[t].due
    /\ Quietly(t, [turn[t] EXCEPT !.queue[c] = @ + 1, !.due = @ \ {c}])

Put(t, c) ==
    /\ c \in turn[t].due /\ turn[t].queue[c] < QueueSize
    /\ Quietly(t, [turn[t] EXCEPT !.queue[c] = @ + 1, !.due = @ \ {c}])

Parted(t) ==
    /\ turn[t].maker = "parting" /\ turn[t].due = {}
    /\ IF turn[t].failed /\ turn[t].at = "running"
       THEN Muted(t, Abandoned([turn[t] EXCEPT !.maker = "done"]))
       ELSE Quietly(t, [turn[t] EXCEPT !.maker = "done"])

(* The end marker is the last item of a queue.                             *)
AtEnd(r, c) == r.maker \in {"parting", "done"} /\ c \notin r.due /\ r.queue[c] = 1

ReadText(t) ==
    /\ turn[t].text = "reading" /\ turn[t].queue["text"] > 0
    /\ Quietly(t, [turn[t] EXCEPT !.queue["text"] = @ - 1,
                                  !.text = IF AtEnd(turn[t], "text") THEN "through"
                                           ELSE IF IsCurrent(t) THEN "reading" ELSE "gone"])

(* The pipeline reads on while synthesis has not answered or is playing.   *)
ReadSpeech(t) ==
    /\ turn[t].speech \in {"quiet", "fed", "playing"} /\ turn[t].queue["speech"] > 0
    /\ ~AtEnd(turn[t], "speech")
    /\ Quietly(t, [turn[t] EXCEPT !.queue["speech"] = @ - 1,
                                  !.speech = IF @ = "quiet" THEN "fed" ELSE @])

NothingToSay(t) ==
    /\ turn[t].speech = "quiet" /\ AtEnd(turn[t], "speech")
    /\ Quietly(t, [turn[t] EXCEPT !.queue["speech"] = 0, !.speech = "through"])

(* A plausible bug: the audio is made the active one without another look  *)
(* at the generation.                                                      *)
StartAudioUnchecked(t) ==
    /\ turn[t].speech = "fed"
    /\ Step(t, [turn[t] EXCEPT !.speech = "playing"])
    /\ session' = [session EXCEPT !.audio = t]

(* Under the session's lock: the audio is made the active one only of the  *)
(* generation that is current.                                             *)
StartAudio(t) ==
    /\ turn[t].speech = "fed"
    /\ IF IsCurrent(t)
       THEN /\ Step(t, [turn[t] EXCEPT !.speech = "playing"])
            /\ session' = [session EXCEPT !.audio = t]
       ELSE Muted(t, [turn[t] EXCEPT !.speech = "gone"])

(* The last chunk was sent, or a chunk arrives for a turn that is stale.   *)
EndAudio(t) ==
    /\ turn[t].speech = "playing" /\ AtEnd(turn[t], "speech")
    /\ Muted(t, [turn[t] EXCEPT !.queue["speech"] = 0,
                                !.speech = IF IsCurrent(t) THEN "through" ELSE "gone"])

LeaveAudio(t) ==
    /\ turn[t].speech = "playing" /\ ~IsCurrent(t)
    /\ Muted(t, [turn[t] EXCEPT !.speech = "gone"])

SpeechFails(t) ==
    /\ turn[t].at = "running" /\ turn[t].speech \in {"fed", "playing"}
    /\ Muted(t, Abandoned([turn[t] EXCEPT !.speech = "gone"]))

(* The queues go with the turn.                                            *)
Finished(r, how) == [r EXCEPT !.at = how, !.queue = [c \in Outputs |-> 0], !.left = 0,
                              !.failed = FALSE]

(* All three tasks are gathered before the session is told of its end, if  *)
(* the agent asked for it.                                                 *)
AllDone(r) == r.maker = "done" /\ {r.text, r.speech} \subseteq {"through", "gone"}
Close(t) ==
    /\ turn[t].at = "running" /\ AllDone(turn[t])
    /\ \E how \in IF session.mode = "continuous" /\ IsCurrent(t) THEN Ended ELSE {"over"} :
            Quietly(t, Finished(turn[t], how))

Join(t) ==
    /\ turn[t].at = "joining" /\ turn[t].maker = "done"
    /\ Quietly(t, Finished(turn[t], "over"))

Speaking(t) == \/ Hear(t) \/ Think(t) \/ Produce(t) \/ Parted(t)
               \/ (\E c \in Outputs : Put(t, c))
               \/ ReadText(t) \/ ReadSpeech(t) \/ NothingToSay(t) \/ StartAudio(t)
               \/ EndAudio(t) \/ LeaveAudio(t) \/ Close(t) \/ Join(t)
Failing(t) == AgentFails(t) \/ SpeechFails(t)

-----------------------------------------------------------------------------
(* One call: handle_audio and, in continuous mode, its loop over the finals *)

(* A final is recognised, and the recognition ends: the client ended the   *)
(* stream, the provider gave up or the pump found the call stale.  Push-   *)
(* to-talk joins its finals into one.                                      *)
Pumping(s) == s \in Running /\ ~asr[s].over
\* The finals recognised so far, each named as its turn is.
Heard == {t \in Turns : t[2] <= asr[t[1]].finals}
NotStale(s) == session.mode = "continuous" => session.generation = call[s].generation
FinalHeard(s) ==
    /\ Pumping(s) /\ NotStale(s)
    /\ Cardinality(Heard) < MaxFinals
    /\ session.mode = "push_to_talk" => asr[s].finals = 0
    /\ asr' = [asr EXCEPT ![s].finals = @ + 1]
    /\ UNCHANGED <<session, receiver, mic, call, turn>>
HearingEnds(s) ==
    /\ Pumping(s)
    /\ asr' = [asr EXCEPT ![s].over = TRUE]
    /\ UNCHANGED <<session, receiver, mic, call, turn>>

CallAt(s, where) == [call EXCEPT ![s].at = where]

(* The pump is cancelled with its call.                                    *)
Unheard(s) == [finals |-> call[s].final, over |-> TRUE]

(* Leaving handle_audio gives the active turn and the turn lock back, and  *)
(* the gateway retires the stream if it is still registered.               *)
Leave(s) ==
    /\ call' = CallAt(s, "ended")
    /\ session' = IF session.turn = s THEN [session EXCEPT !.turn = 0] ELSE session
    /\ mic' = IF mic = s THEN 0 ELSE mic
    /\ asr' = [asr EXCEPT ![s] = Unheard(s)]
    /\ UNCHANGED <<receiver, turn>>

(* The turn lock serves its waiters in order; taking it starts a generation *)
Begin(s) ==
    /\ call[s].at = "queued" /\ Running = {}
    /\ \A other \in 1 .. s - 1 : call[other].at # "queued"
    /\ call' = [call EXCEPT ![s].at = "next", ![s].generation = session.generation + 1]
    /\ session' = [session EXCEPT !.generation = @ + 1, !.turn = s]
    /\ UNCHANGED <<receiver, mic, asr, turn>>

(* A final of blank text is passed over; push-to-talk waits for them all.  *)
TakeFinal(s) ==
    LET t == <<s, call[s].final + 1>>
    IN  /\ call[s].at = "next" /\ call[s].final < asr[s].finals
        /\ session.mode = "push_to_talk" => asr[s].over
        /\ \/ /\ call' = [call EXCEPT ![s].at = "turn", ![s].final = @ + 1]
              /\ turn' = [turn EXCEPT ![t].at = "called"]
           \/ /\ call' = [call EXCEPT ![s].final = @ + 1]
              /\ turn' = [turn EXCEPT ![t].at = "over"]
        /\ UNCHANGED <<session, receiver, mic, asr>>

NoMoreFinals(s) ==
    /\ call[s].at = "next" /\ call[s].final = asr[s].finals /\ asr[s].over
    /\ Leave(s)

(* The pump tells of speech while the loop waits for both; it clears what  *)
(* was told before.  If audio plays, it is cancelled and then the turn; if *)
(* not, the turn is waited for, and for nothing else.                      *)
BargeIn(s) ==
    /\ session.mode = "continuous" /\ call[s].at = "turn" /\ Pumping(s) /\ NotStale(s)
    /\ turn[Current(s)].at \notin Ended
    /\ call' = CallAt(s, IF session.audio = NoTurn THEN "settle" ELSE "barging")
    /\ UNCHANGED <<session, receiver, mic, asr, turn>>

CancelTurn(s) ==
    /\ turn' = [turn EXCEPT ![Current(s)] = Cancelled(@)]
    /\ session' = IF turn[Current(s)].at \in Ended THEN session ELSE Silence(Current(s))

CancelBarged(s) ==
    /\ call[s].at = "barging"
    /\ CancelTurn(s) /\ call' = CallAt(s, "barged")
    /\ UNCHANGED <<receiver, mic, asr>>

(* One turn is over: the loop takes the next final, unless it was being    *)
(* cancelled itself.                                                       *)
TurnDone(s) ==
    /\ call[s].at \in {"turn", "settle", "barged"} /\ turn[Current(s)].at \in Ended
    /\ IF call[s].ending \/ session.mode = "push_to_talk"
       THEN Leave(s)
       ELSE call' = CallAt(s, "next") /\ UNCHANGED <<session, receiver, mic, asr, turn>>

Calling(s) == \/ Begin(s) \/ TakeFinal(s) \/ NoMoreFinals(s) \/ BargeIn(s)
              \/ CancelBarged(s) \/ TurnDone(s)

-----------------------------------------------------------------------------
(* The receive loop                                                        *)

Opened == {s \in Streams : call[s].at # "off"}
Live == {s \in Opened : call[s].at # "ended"}
New == Cardinality(Opened) + 1

(* asyncio.wait does not cancel what it waits for: cancelling a call that  *)
(* waits for a turn with it leaves the turn behind, on its own.            *)
Detaches(s) == \/ call[s].at \in {"armed", "queued", "next"}
               \/ session.mode = "continuous" /\ call[s].at \in {"turn", "barging"}

CancelCalls(S) ==
    LET leaving == {s \in S : Detaches(s)}
        cut == {Current(s) : s \in S \ leaving}
    IN  /\ call' = [s \in Streams |-> CASE s \in leaving -> [call[s] EXCEPT !.at = "ended"]
                                        [] s \in S \ leaving -> [call[s] EXCEPT !.ending = TRUE]
                                        [] OTHER -> call[s]]
        /\ asr' = [s \in Streams |-> IF s \in leaving THEN Unheard(s) ELSE asr[s]]
        /\ turn' = [t \in Turns |-> IF t \in cut THEN Cancelled(turn[t]) ELSE turn[t]]
        /\ session' = [session EXCEPT !.turn = IF @ \in leaving THEN 0 ELSE @,
                                      !.audio = IF @[1] \in {t[1] : t \in cut} THEN NoTurn ELSE @]

Wait(where, s) == receiver' = [at |-> where, of |-> s]

(* voice.stream.start: interrupt() before the new stream is registered.    *)
Interrupt ==
    /\ receiver.at = "idle" /\ mic = 0 /\ New \in Streams
    /\ Wait("interrupting", session.turn)
    /\ session' = IF session.generation = 0 THEN session
                  ELSE [session EXCEPT !.generation = @ + 1, !.turn = 0, !.audio = NoTurn]
    /\ UNCHANGED <<mic, call, asr, turn>>

CancelActive ==
    /\ receiver.at = "interrupting"
    /\ Wait("cancelling", receiver.of) /\ CancelCalls({receiver.of} \cap Running)
    /\ UNCHANGED mic

Register ==
    /\ receiver.at = "cancelling" /\ receiver.of \notin Live
    /\ Wait("idle", 0) /\ mic' = New /\ call' = CallAt(New, "armed")
    /\ UNCHANGED <<session, asr, turn>>

(* The first frame lets the stream's task call handle_audio.               *)
FirstFrame ==
    /\ receiver.at = "idle" /\ mic # 0 /\ call[mic].at = "armed"
    /\ call' = CallAt(mic, "queued")
    /\ UNCHANGED <<session, receiver, mic, asr, turn>>

EndStream ==
    /\ receiver.at = "idle" /\ mic # 0 /\ call[mic].at # "armed"
    /\ mic' = 0
    /\ UNCHANGED <<session, receiver, call, asr, turn>>

(* An empty or an overlong stream is aborted: its task is cancelled, the   *)
(* generation is left as it is.                                            *)
Abort ==
    /\ receiver.at = "idle" /\ mic # 0
    /\ Wait("aborting", mic) /\ mic' = 0 /\ CancelCalls({mic})

Aborted ==
    /\ receiver.at = "aborting" /\ receiver.of \notin Live
    /\ Wait("idle", 0)
    /\ UNCHANGED <<session, mic, call, asr, turn>>

Disconnect ==
    /\ receiver.at = "idle"
    /\ Wait("leaving", 0) /\ mic' = 0 /\ CancelCalls(Live)

CloseSession ==
    /\ receiver.at = "leaving" /\ Live = {}
    /\ Wait("gone", 0)
    /\ session' = [session EXCEPT !.generation = @ + 1, !.turn = 0]
    /\ UNCHANGED <<mic, call, asr, turn>>

Returning == CancelActive \/ Register \/ Aborted \/ CloseSession
Client == Interrupt \/ FirstFrame \/ EndStream \/ Abort \/ Disconnect

ComposedNext ==
    \/ Client \/ Returning
    \/ \E s \in Streams : Calling(s) \/ FinalHeard(s) \/ HearingEnds(s)
    \/ \E t \in Turns : Speaking(t) \/ Failing(t)

ComposedSpec == ComposedInit /\ [][ComposedNext]_composedVars

(* As long as some task can go on, one does: no task runs for ever, so one *)
(* condition is enough for all.  What the client does, what is recognised  *)
(* and what fails is never certain; an ended stream's recognition ends.    *)
Advance ==
    \/ Returning
    \/ \E s \in Streams : Calling(s) \/ (mic # s /\ HearingEnds(s))
    \/ \E t \in Turns : Speaking(t)
ComposedFairSpec == ComposedSpec /\ WF_composedVars(Advance)

-----------------------------------------------------------------------------
(* Properties *)

(* Every variable stays in its domain.                                     *)
ComposedTypeOK ==
    /\ session \in [mode : Modes, generation : Nat, turn : {0} \cup Streams, audio : {NoTurn} \cup Turns]
    /\ receiver \in [at : {"idle", "interrupting", "cancelling", "aborting", "leaving", "gone"},
                     of : {0} \cup Streams]
    /\ mic \in {0} \cup Streams
    /\ call \in [Streams -> [at : {"off", "armed", "queued", "next", "turn", "settle",
                                  "barging", "barged", "ended"},
                            generation : Nat, final : 0 .. MaxFinals, ending : BOOLEAN]]
    /\ asr \in [Streams -> [finals : 0 .. MaxFinals, over : BOOLEAN]]
    /\ turn \in [Turns -> [at : {"idle", "called", "heard", "running", "joining"} \cup Ended,
                           maker : {"idle", "busy", "parting", "done"}, left : Nat,
                           due : SUBSET Outputs,
                           queue : [Outputs -> 0 .. QueueSize],
                           text : {"reading", "through", "gone"},
                           speech : {"quiet", "fed", "playing", "through", "gone"},
                           failed : BOOLEAN]]

(* The audio interrupt() and the barge-in would cancel is one that plays,  *)
(* of the current generation: neither an old turn nor the end of another   *)
(* turn of the call leaves a wrong one there.                              *)
AudioIsPlaying ==
    session.audio # NoTurn =>
        /\ turn[session.audio].speech = "playing"
        /\ receiver.at # "gone" => IsCurrent(session.audio)

(* At most one reply of the current generation is being spoken, and it is  *)
(* the one a barge-in would find.                                          *)
OneVoice ==
    \A t \in Turns : turn[t].speech = "playing" /\ IsCurrent(t) => session.audio = t

(* The voice a session knows of is the one that is speaking.               *)
VoiceIsKnown == AudioIsPlaying /\ OneVoice

(* The client is told to end the session after the farewell was delivered  *)
(* whole, as text and as audio, never after a part of it.                  *)
FarewellFirst ==
    \A t \in Turns : turn[t].at = "farewell" =>
        turn[t].text = "through" /\ turn[t].speech = "through"

(* What the client hears: one voice the session knows of, and a farewell    *)
(* before the end.                                                          *)
SpeechIsSound == VoiceIsKnown /\ FarewellFirst

(* A producer whose consumers are gone waits for room for its end marker.  *)
Stuck(t) == /\ turn[t].at = "joining" /\ turn[t].maker = "parting"
            /\ \E c \in turn[t].due : turn[t].queue[c] = QueueSize
CallStuck(s) == s \in Running /\ call[s].final > 0 /\ Stuck(Current(s))

(* Every final the recogniser gave gets its turn or its call ends, and the *)
(* receive loop comes back from what it waits for (an interruption, an     *)
(* abort, a disconnection): only a producer stuck behind its own queue can *)
(* keep them from it.                                                      *)
FinalWaits(s) == /\ s \in Running /\ call[s].final < asr[s].finals
                 /\ session.mode = "push_to_talk" => asr[s].over
Waiting == receiver.at \notin {"idle", "gone"} \/ \E s \in Streams : FinalWaits(s)
NobodyWaitsForEver == Waiting ~> (~Waiting \/ \E s \in Streams : CallStuck(s))

(* What the comments promise and the code does not keep.                   *)

(* _run_continuous: a barge-in cancels the turn "so the next final takes   *)
(* over immediately".  It does not when the cancelled producer has to put  *)
(* its end marker into a queue that is full and no longer read.            *)
NextFinalTakesOver == \A s \in Streams : call[s].at = "barged" => ~Stuck(Current(s))

(* handle_disconnect: "Cancel any work still running for a closed          *)
(* session".  A turn its call had left behind is still at work, and may    *)
(* still change schedules, when the session is closed.                     *)
ClosedIsDone == receiver.at = "gone" => \A t \in Turns : turn[t].at # "running"

(* _run_continuous: "when speech starts while a turn's TTS is playing,     *)
(* that turn is cancelled".  The loop listens for speech once a turn: if   *)
(* it came before the audio, later speech does not stop the reply.         *)
StillListening == \A s \in Streams : call[s].at = "settle" => session.audio = NoTurn
=============================================================================
