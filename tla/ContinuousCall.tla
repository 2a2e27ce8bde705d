--------------------------- MODULE ContinuousCall ---------------------------
(***************************************************************************)
(* One realtime model session in continuous mode and the calls (streams)   *)
(* it serves one after the other: the vendor, which answers what it hears  *)
(* and what it is asked for over a socket with messages in flight both     *)
(* ways, QwenAudioSession._pump_continuous, which reads it event by event, *)
(* and _Turn, which passes the replies on to the client.                   *)
(*                                                                         *)
(* What is said, sounds or is looked up is not modelled: a response is a   *)
(* number, its words one event, its tool calls one event each, "call" for  *)
(* a tool the model should speak about and "end" for end_conversation.     *)
(* Names every module has carry a prefix, and the pump's place is awaiting: *)
(* one proof module extends this one and ScheduleTools.                    *)
(***************************************************************************)
EXTENDS Integers, Sequences

CONSTANTS
    MaxResponses,   \* bound: responses the vendor starts
    MaxSpeech,      \* bound: times the user starts to speak
    MaxStreams,     \* bound: calls one session serves
    MaxWire,        \* bound: events in flight from the vendor
    Spontaneous     \* whether the vendor may start a response unasked

ASSUME ContinuousCallAssumption ==
    /\ MaxResponses \in Nat /\ MaxSpeech \in Nat /\ MaxStreams \in Nat \ {0} /\ MaxWire \in Nat
    /\ Spontaneous \in BOOLEAN

VARIABLES
    wire, up,   \* events to the session and requests to the vendor, in flight
    vendor,     \* the vendor's side of the session
    stream,     \* number of the call
    mode,       \* "open": a call is on; "idle": the session is kept; "dead"
    awaiting,   \* where the pump awaits: an event, a tool, the reply's audio
    flags,      \* the session's fields
    suppressed, \* _pump_continuous: a cancelled reply's tail is being read
    turn,       \* _Turn's fields
    log         \* history the properties are about

continuousVars == <<wire, up, vendor, stream, mode, awaiting, flags, suppressed, turn, log>>

Responses == 1 .. MaxResponses
Items == {"words", "call", "end"}
Event(kind, r) == [kind |-> kind, response |-> r]
Events == [kind : {"speech", "created", "done", "idle", "error"} \cup Items,
           response : 0 .. MaxResponses]

(* A call starts with nothing expected but a follow-up already asked for.  *)
Fresh(f) == [f EXCEPT !.responding = FALSE, !.expecting = f.followup, !.playing = FALSE,
                      !.bytes = FALSE, !.pending = FALSE]
NewTurn == [spoken |-> FALSE, called |-> FALSE, ends |-> FALSE]
NewLog == [owed |-> IF flags.followup THEN 1 ELSE 0, reading |-> 0, said |-> {}, cut |-> {},
           stray |-> log.stray]

CallInit ==
    /\ wire = <<>> /\ up = <<>>
    /\ vendor = [running |-> 0, started |-> 0, answers |-> {}, given |-> {}, voice |-> "quiet",
                  heard |-> 0]
    /\ stream = 1 /\ mode = "open" /\ awaiting = "read" /\ suppressed = FALSE
    /\ flags = [responding |-> FALSE, followup |-> FALSE, stop |-> FALSE,
                expecting |-> FALSE, pending |-> FALSE, playing |-> FALSE, bytes |-> FALSE]
    /\ turn = NewTurn
    /\ log = [owed |-> 0, reading |-> 0, said |-> {}, cut |-> {}, stray |-> FALSE]

-----------------------------------------------------------------------------
(* The vendor.                                                             *)

Emit(kind, r) == wire' = Append(wire, Event(kind, r))
Room == Len(wire) < MaxWire
Ours == <<stream, mode, awaiting, flags, suppressed, turn, log>>

Respond(origin) ==
    /\ vendor.running = 0 /\ vendor.started < MaxResponses
    /\ LET r == vendor.started + 1 IN
         /\ Emit("created", r)
         /\ vendor' = IF origin = "speech"
                      THEN [vendor EXCEPT !.running = r, !.started = r, !.voice = "quiet",
                                          !.answers = @ \cup {r}]
                      ELSE [vendor EXCEPT !.running = r, !.started = r]

SpeechStarts ==
    /\ Room /\ mode = "open" /\ vendor.voice # "talking" /\ vendor.heard < MaxSpeech
    /\ Emit("speech", 0)
    /\ vendor' = [vendor EXCEPT !.voice = "talking", !.heard = @ + 1]
    /\ UNCHANGED <<up, Ours>>

SpeechStops ==
    /\ vendor.voice = "talking"
    /\ vendor' = [vendor EXCEPT !.voice = "due"]
    /\ UNCHANGED <<wire, up, Ours>>

(* A cancel in flight arrives before the vendor starts another response of *)
(* its own accord: a round trip is short beside the pauses of speech.      *)
NoCancelComing == \A i \in DOMAIN up : up[i] # "cancel"

AnswerSpeech ==
    Room /\ vendor.voice = "due" /\ NoCancelComing /\ Respond("speech") /\ UNCHANGED <<up, Ours>>

(* The extra response comes long after the last exchange ("sometimes       *)
(* minutes after a reply already settled").                                *)
Volunteer ==
    Room /\ Spontaneous /\ wire = <<>> /\ up = <<>> /\ Respond("vendor") /\ UNCHANGED <<up, Ours>>

Say ==
    /\ Room /\ vendor.running # 0
    /\ \E item \in Items \ vendor.given :
         /\ Emit(item, vendor.running)
         /\ vendor' = [vendor EXCEPT !.given = @ \cup {item}]
    /\ UNCHANGED <<up, Ours>>

FinishResponse ==
    /\ Room /\ vendor.running # 0
    /\ Emit("done", vendor.running)
    /\ vendor' = [vendor EXCEPT !.running = 0, !.given = {}]
    /\ UNCHANGED <<up, Ours>>

(* response.create is rejected while a response is open.                   *)
TakeCreate ==
    /\ Room /\ up # <<>> /\ Head(up) = "create"
    /\ up' = Tail(up)
    /\ IF vendor.running = 0 THEN Respond("followup")
       ELSE Emit("error", 0) /\ UNCHANGED vendor
    /\ UNCHANGED Ours

(* response.cancel ends the open response, or is answered that none is.    *)
TakeCancel ==
    /\ Room /\ up # <<>> /\ Head(up) = "cancel"
    /\ up' = Tail(up)
    /\ IF vendor.running = 0 THEN Emit("idle", 0) ELSE Emit("done", vendor.running)
    /\ vendor' = [vendor EXCEPT !.running = 0, !.given = {}]
    /\ UNCHANGED Ours

VendorFails ==
    /\ Room /\ \A i \in DOMAIN wire : wire[i].kind # "error"
    /\ Emit("error", 0)
    /\ UNCHANGED <<up, vendor, Ours, log>>

Vendor == SpeechStarts \/ SpeechStops \/ AnswerSpeech \/ Volunteer \/ Say \/ FinishResponse
          \/ TakeCreate \/ TakeCancel \/ VendorFails

-----------------------------------------------------------------------------
(* The session and the turn.                                               *)

Receive(kind) ==
    /\ mode = "open" /\ awaiting = "read"
    /\ wire # <<>> /\ Head(wire).kind = kind
    /\ wire' = Tail(wire)
Now == Head(wire).response

(* cancel_response: only a reply in progress is cancelled.                 *)
Cancelled(f) ==
    IF f.responding
    THEN [f EXCEPT !.responding = FALSE, !.followup = FALSE, !.stop = FALSE, !.pending = TRUE]
    ELSE f

(* A plausible bug: an idle vendor is told to cancel as well. *)
CancelRequestAnyway(f) == Append(up, "cancel")

CancelRequest(f) == IF f.responding THEN Append(up, "cancel") ELSE up

(* Whether a settled reply ends the conversation: asked for by a tool, or  *)
(* because its words, with no tool called, say goodbye.                    *)
Endings(canceled) ==
    IF turn.spoken /\ ~canceled /\ ~turn.called THEN {turn.ends, TRUE} ELSE {turn.ends}

(* _finish_reply up to the await of the reply's audio.                     *)
Settle(canceled) ==
    /\ awaiting' = "settle"
    /\ \E ends \in Endings(canceled) : turn' = [turn EXCEPT !.ends = ends]

(* The rest of _finish_reply: the client is told if the call is to end.    *)
Settled ==
    /\ mode = "open" /\ awaiting = "settle"
    /\ awaiting' = "read"
    /\ turn' = NewTurn
    /\ UNCHANGED <<wire, up, vendor, stream, mode, flags, suppressed, log>>

ReadSpeech ==
    /\ Receive("speech")
    /\ LET bargeIn == ~suppressed /\ (flags.responding \/ flags.playing)
           f == [flags EXCEPT !.expecting = TRUE]
       IN  /\ suppressed' = (suppressed \/ bargeIn)
           /\ flags' = IF bargeIn THEN Cancelled(f) ELSE f
           /\ up' = IF bargeIn THEN CancelRequest(f) ELSE up
           /\ log' = [log EXCEPT !.owed = @ + 1,
                        !.cut = IF bargeIn /\ log.reading # 0 THEN @ \cup {log.reading} ELSE @]
           /\ IF bargeIn THEN Settle(TRUE) ELSE UNCHANGED <<awaiting, turn>>
    /\ UNCHANGED <<vendor, stream, mode>>

(* A response nothing asked for is cancelled before its content arrives.   *)
ReadCreated ==
    /\ Receive("created")
    /\ LET f == [flags EXCEPT !.pending = FALSE, !.responding = TRUE]
           seen == [log EXCEPT !.reading = Now]
       IN  IF flags.expecting
           THEN /\ flags' = [f EXCEPT !.bytes = FALSE]
                /\ suppressed' = FALSE
                /\ log' = [seen EXCEPT !.owed = @ - 1]
                /\ UNCHANGED up
           ELSE /\ flags' = Cancelled(f)
                /\ suppressed' = TRUE
                /\ log' = [seen EXCEPT !.cut = @ \cup {Now}]
                /\ up' = CancelRequest(f)
    /\ UNCHANGED <<vendor, stream, mode, awaiting, turn>>

(* A plausible bug: the tail of a cancelled reply is passed on. *)
ReadWordsUnfiltered ==
    /\ Receive("words")
    /\ turn' = [turn EXCEPT !.spoken = TRUE]
    /\ flags' = [flags EXCEPT !.bytes = TRUE]
    /\ log' = [log EXCEPT !.said = @ \cup {Now}]
    /\ UNCHANGED <<up, vendor, stream, mode, awaiting, suppressed>>

ReadWords ==
    /\ Receive("words")
    /\ IF suppressed THEN UNCHANGED <<turn, flags, log>>
       ELSE /\ turn' = [turn EXCEPT !.spoken = TRUE]
            /\ flags' = [flags EXCEPT !.bytes = TRUE]
            /\ log' = [log EXCEPT !.said = @ \cup {Now}]
    /\ UNCHANGED <<up, vendor, stream, mode, awaiting, suppressed>>

ReadCall ==
    /\ Receive("call")
    /\ awaiting' = "call"
    /\ turn' = [turn EXCEPT !.called = TRUE]
    /\ UNCHANGED <<up, vendor, stream, mode, flags, suppressed, log>>

ReadEnd ==
    /\ Receive("end")
    /\ awaiting' = "end"
    /\ turn' = [turn EXCEPT !.called = TRUE]
    /\ UNCHANGED <<up, vendor, stream, mode, flags, suppressed, log>>

(* A tool has run and its result is written back (send_tool_result).       *)
CallDone ==
    /\ mode = "open" /\ awaiting = "call"
    /\ awaiting' = "read"
    /\ flags' = [flags EXCEPT !.followup = TRUE, !.expecting = TRUE]
    /\ log' = [log EXCEPT !.owed = @ + 1]
    /\ UNCHANGED <<wire, up, vendor, stream, mode, suppressed, turn>>

EndDone ==
    /\ mode = "open" /\ awaiting = "end"
    /\ awaiting' = "read"
    /\ flags' = [flags EXCEPT !.stop = TRUE]
    /\ turn' = [turn EXCEPT !.ends = TRUE]
    /\ UNCHANGED <<wire, up, vendor, stream, mode, suppressed, log>>

WantsFollowUp == flags.followup /\ ~flags.stop

Consumed == [flags EXCEPT !.followup = FALSE, !.stop = FALSE]

(* What was expected has been answered, unless this is a cancelled tail.   *)
Answered == [Consumed EXCEPT !.responding = FALSE, !.playing = flags.bytes,
                             !.expecting = @ /\ suppressed]

(* The follow-up is asked for at the end of the response that called.      *)
ReadDone ==
    /\ Receive("done")
    /\ log' = [log EXCEPT !.reading = 0]
    /\ IF WantsFollowUp
       THEN flags' = Consumed /\ up' = Append(up, "create") /\ UNCHANGED <<awaiting, turn>>
       ELSE flags' = Answered /\ Settle(FALSE) /\ UNCHANGED up
    /\ UNCHANGED <<vendor, stream, mode, suppressed>>

(* The pump returns after a failure and the agent ends the call: the turn  *)
(* is settled, the client told, the session discarded.                     *)
CallFails ==
    /\ mode' = "dead"
    /\ turn' = NewTurn
    /\ UNCHANGED <<up, vendor, stream, awaiting, flags, suppressed, log>>

ReadIdle ==
    /\ Receive("idle")
    /\ IF flags.pending
       THEN /\ flags' = [flags EXCEPT !.pending = FALSE]
            /\ UNCHANGED <<up, vendor, stream, mode, awaiting, suppressed, turn, log>>
       ELSE CallFails

ReadError == Receive("error") /\ CallFails

(* What was sent has been played (_playable_until has passed).             *)
PlayedOut ==
    /\ flags.playing
    /\ flags' = [flags EXCEPT !.playing = FALSE]
    /\ UNCHANGED <<wire, up, vendor, stream, mode, awaiting, suppressed, turn, log>>

-----------------------------------------------------------------------------
(* The calls.                                                              *)

(* The microphone closes: a reply in progress is cancelled, the pump is    *)
(* cancelled where it is and the turn settled. The session is kept.        *)
HangUp ==
    /\ mode = "open"
    /\ mode' = "idle" /\ awaiting' = "read"
    /\ flags' = Cancelled(flags)
    /\ up' = CancelRequest(flags)
    /\ turn' = NewTurn
    /\ log' = [log EXCEPT !.stray = @ \/ flags'.pending]
    /\ UNCHANGED <<wire, vendor, stream, suppressed>>

(* The client is gone or the stream interrupted: the session is discarded, *)
(* or kept as it is when its reply cannot be settled (RealtimeSessions).   *)
Disconnect ==
    /\ mode = "open"
    /\ mode' \in {"dead", "idle"} /\ awaiting' = "read"
    /\ turn' = NewTurn
    /\ log' = [log EXCEPT !.stray = @ \/ flags.pending]
    /\ UNCHANGED <<wire, up, vendor, stream, flags, suppressed>>

(* The next call of the conversation takes the session up.                 *)
NextCall ==
    /\ mode = "idle" /\ stream < MaxStreams
    /\ mode' = "open" /\ stream' = stream + 1 /\ awaiting' = "read"
    /\ flags' = Fresh(flags)
    /\ suppressed' = FALSE
    /\ log' = NewLog
    /\ UNCHANGED <<wire, up, vendor, turn>>

Pump == ReadSpeech \/ ReadCreated \/ ReadWords \/ ReadCall \/ ReadEnd \/ CallDone \/ EndDone
        \/ ReadDone \/ ReadIdle \/ ReadError \/ Settled
CallNext == Vendor \/ Pump \/ PlayedOut \/ HangUp \/ Disconnect \/ NextCall

CallSpec == CallInit /\ [][CallNext]_continuousVars

-----------------------------------------------------------------------------

(* The types; requests in flight are bounded by the responses they are      *)
(* about: nothing is cancelled that is not taken to be in progress.         *)
CallTypeOK ==
    /\ wire \in Seq(Events) /\ Len(wire) <= MaxWire
    /\ up \in Seq({"create", "cancel"}) /\ Len(up) <= 2 * MaxResponses
    /\ vendor \in [running : 0 .. MaxResponses, started : 0 .. MaxResponses,
                   answers : SUBSET Responses, given : SUBSET Items,
                   voice : {"quiet", "talking", "due"}, heard : 0 .. MaxSpeech]
    /\ stream \in 1 .. MaxStreams /\ mode \in {"open", "idle", "dead"}
    /\ awaiting \in {"read", "call", "end", "settle"} /\ suppressed \in BOOLEAN
    /\ flags \in [responding : BOOLEAN, followup : BOOLEAN, stop : BOOLEAN, expecting : BOOLEAN,
                  pending : BOOLEAN, playing : BOOLEAN, bytes : BOOLEAN]
    /\ turn \in [spoken : BOOLEAN, called : BOOLEAN, ends : BOOLEAN]
    /\ log \in [owed : Int, reading : 0 .. MaxResponses, said : SUBSET Responses,
                cut : SUBSET Responses, stray : BOOLEAN]

(* "A response.created it sees while this is false" is cancelled            *)
(* (_expecting_response): a call is never given more replies than its user  *)
(* and its tools have asked for, however stale the vendor's extra ones are. *)
RepliesAskedFor == log.owed >= 0

(* Of a reply that was talked over or refused nothing more reaches the      *)
(* client, though its frames still arrive and other replies come and go     *)
(* (suppressed).                                                            *)
CancelledStaysSilent ==
    [][\A r \in log.cut : stream' = stream /\ r \in log'.said => r \in log.said]_continuousVars

(* A cancel that crossed the end of its reply does not hang up the call     *)
(* ("over a no-op", _cancel_pending); one left over from an earlier call    *)
(* is another matter.                                                       *)
RaceIsForgiven ==
    [][wire # <<>> /\ Head(wire).kind = "idle" /\ wire' = Tail(wire) /\ mode' = "dead"
       => log.stray]_continuousVars

(* The end of a response is still to be read.                              *)
DoneComing == vendor.running # 0 \/ \E i \in DOMAIN wire : wire[i].kind = "done"

(* Once a call is to be ended, a reply is being settled or the end of the   *)
(* one that will be is on its way: end_conversation never waits for a       *)
(* response nobody has asked for, and the client's call is not left open.   *)
EndIsComing == mode = "open" /\ turn.ends => awaiting \in {"settle", "end"} \/ DoneComing

(* "Consumed at that response's own response.done" (_followup_requested):   *)
(* a follow-up that is owed, in this call or from the one before, always    *)
(* has an end of a response ahead at which it is sent.                      *)
FollowUpComes == mode # "dead" /\ flags.followup => DoneComing

(* Both: what the session owes the client or the vendor has an end of a     *)
(* response ahead at which it is settled or sent.                           *)
OwedIsDue == EndIsComing /\ FollowUpComes

(* The session takes the vendor to be answering (_responding) only while an *)
(* end of the answer is ahead or a follow-up was asked for: otherwise every *)
(* later word of the user would be taken for a barge-in.                    *)
RespondingIsReal ==
    mode = "open" /\ flags.responding =>
        DoneComing \/ \E i \in DOMAIN up : up[i] = "create"

(* The session's books agree with what is under way: nobody waits for a      *)
(* reply that is not coming, and none comes that nobody asked for.          *)
RepliesAreDue == RepliesAskedFor /\ OwedIsDue /\ RespondingIsReal

(* What reaches the client is due to it, and nothing of what it refused.    *)
RepliesInOrder == []RepliesAreDue /\ CancelledStaysSilent

(* cancel_response's docstring: without it frames of an abandoned reply     *)
(* "would otherwise bleed into the next turn's pump instead of being        *)
(* discarded": only a reply whose start this call has read is passed on.    *)
NothingBleeds ==
    [][stream' = stream => log'.said \ log.said \subseteq {log.reading}]_continuousVars

(* A reply the vendor starts for what the user said is not taken for one    *)
(* nobody asked for.                                                        *)
SpeechIsAnswered ==
    [][wire # <<>> /\ wire' = Tail(wire) /\ Head(wire).kind = "created"
       /\ Head(wire).response \in vendor.answers => ~suppressed']_continuousVars

(* A follow-up asked for after a tool never finds another response open.    *)
FollowUpTaken ==
    [][up # <<>> /\ Head(up) = "create" /\ up' = Tail(up) => vendor.running = 0]_continuousVars
=============================================================================
