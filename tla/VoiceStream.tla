----------------------------- MODULE VoiceStream -----------------------------
(***************************************************************************)
(* The inbound audio of one authenticated connection                       *)
(* (gateway/websocket/handlers/voice_stream.py): the receive loop opens    *)
(* streams, queues their frames and parks on a full queue, while a task    *)
(* per stream feeds the audio sink.  Streams are aborted, retired by a     *)
(* sink that gives up, ended, and cancelled when the connection closes.    *)
(*                                                                         *)
(* One event loop: an action is the code between two awaits that suspend.  *)
(* A frame the loop refuses changes nothing and is no action.  The audio   *)
(* budget is counted in frames.                                            *)
(*                                                                         *)
(* The names SessionEntry has too begin with Stream here, for              *)
(* WebsocketSessionProofs extends both modules.                            *)
(***************************************************************************)
EXTENDS Naturals, Sequences, FiniteSets

CONSTANTS
    Streams,       \* stream identifiers, minted fresh
    MaxQueue,      \* queue_max_chunks
    MaxAudio,      \* max_audio_bytes, in frames
    None

ASSUME VoiceStreamAssumption ==
    MaxQueue \in Nat \ {0} /\ MaxAudio \in Nat \ {0} /\ None \notin Streams

VARIABLES
    loop,          \* where the receive loop is
    on,            \* the stream it is busy with
    item,          \* what it waits to put
    active,        \* _active_streams
    tracked,       \* _tasks
    closing,       \* the tasks handle_disconnect waits for
    queue,
    audio,         \* total_audio_bytes
    task,          \* the stream's _drain_to_sink
    cancelled,     \* tasks with a cancellation on its way
    heard          \* whether the sink has read the end of input

streamVars == <<loop, on, item, active, tracked, closing, queue, audio, task, cancelled, heard>>

Loops == {"ready", "starting", "putting", "aborting", "closing", "closed"}
(* consume() is "busy" while it does anything but read: before its first    *)
(* read, and with a frame in hand.  It may wait there for what other calls  *)
(* hold, a conversation's lock or a vendor's session.  "stopping" is the    *)
(* clean-up of a cancelled one.                                             *)
TaskStates == {"none", "waiting", "busy", "consuming", "stopping", "done"}
Reading(s) == task[s] \in {"waiting", "busy", "consuming"}

StreamInit ==
    /\ loop = "ready" /\ on = None /\ item = "chunk" /\ active = None
    /\ tracked = {} /\ closing = {} /\ cancelled = {}
    /\ queue = [s \in Streams |-> <<>>]
    /\ audio = [s \in Streams |-> 0]
    /\ task = [s \in Streams |-> "none"]
    /\ heard = [s \in Streams |-> "no"]

------------------------------------------------------------------------------
(* The receive loop. *)

(* handle_start: the sink's interrupt is awaited, then the stream opened.   *)
HandleStart(s) ==
    /\ loop = "ready" /\ active = None /\ task[s] = "none"
    /\ loop' = "starting" /\ on' = s
    /\ UNCHANGED <<item, active, tracked, closing, queue, audio, task, cancelled, heard>>

Started ==
    /\ loop = "starting"
    /\ loop' = "ready"
    /\ active' = on
    /\ task' = [task EXCEPT ![on] = "waiting"]
    /\ tracked' = tracked \cup {on}
    /\ UNCHANGED <<on, item, closing, queue, audio, cancelled, heard>>

(* A plausible bug: a queue without a maximum. *)
PutUnbounded(s, x) ==
    /\ queue' = [queue EXCEPT ![s] = Append(@, x)]
    /\ UNCHANGED <<loop, on, item>>

(* queue.put: at once where there is room, parked otherwise.                *)
Put(s, x) ==
    IF Len(queue[s]) < MaxQueue
    THEN queue' = [queue EXCEPT ![s] = Append(@, x)] /\ UNCHANGED <<loop, on, item>>
    ELSE loop' = "putting" /\ on' = s /\ item' = x /\ UNCHANGED queue

(* _abort: the task is cancelled and waited for.                            *)
Abort(s) ==
    /\ active' = None
    /\ IF task[s] = "done" THEN UNCHANGED <<loop, on, cancelled>>
       ELSE loop' = "aborting" /\ on' = s /\ cancelled' = cancelled \cup {s}
    /\ UNCHANGED <<item, tracked, closing, queue, audio, task, heard>>

HandleBinary ==
    /\ loop = "ready" /\ active # None
    /\ IF audio[active] = MaxAudio
       THEN Abort(active)
       ELSE /\ audio' = [audio EXCEPT ![active] = @ + 1]
            /\ Put(active, "chunk")
            /\ UNCHANGED <<active, tracked, closing, task, cancelled, heard>>

(* A plausible bug: the end of input is dropped when the queue is full. *)
HandleEndNowait ==
    /\ loop = "ready" /\ active # None
    /\ IF audio[active] = 0
       THEN Abort(active)
       ELSE /\ active' = None
            /\ queue' = IF Len(queue[active]) < MaxQueue
                        THEN [queue EXCEPT ![active] = Append(@, "end")] ELSE queue
            /\ UNCHANGED <<loop, on, item, tracked, closing, audio, task, cancelled, heard>>

HandleEnd ==
    /\ loop = "ready" /\ active # None
    /\ IF audio[active] = 0
       THEN Abort(active)
       ELSE /\ active' = None
            /\ Put(active, "end")
            /\ UNCHANGED <<tracked, closing, audio, task, cancelled, heard>>

PutResumes ==
    /\ loop = "putting" /\ Len(queue[on]) < MaxQueue
    /\ queue' = [queue EXCEPT ![on] = Append(@, item)]
    /\ loop' = "ready"
    /\ UNCHANGED <<on, item, active, tracked, closing, audio, task, cancelled, heard>>

Aborted ==
    /\ loop = "aborting" /\ task[on] = "done"
    /\ loop' = "ready"
    /\ UNCHANGED <<on, item, active, tracked, closing, queue, audio, task, cancelled, heard>>

(* The loop receives the disconnect, or a handler raises; handle_disconnect. *)
HandleDisconnect ==
    /\ loop \in {"ready", "starting"}
    /\ loop' = "closing"
    /\ active' = None
    /\ tracked' = {}
    /\ closing' = tracked
    /\ cancelled' = cancelled \cup tracked
    /\ UNCHANGED <<on, item, queue, audio, task, heard>>

Closed ==
    /\ loop = "closing"
    /\ \A s \in closing : task[s] = "done"
    /\ loop' = "closed"
    /\ UNCHANGED <<on, item, active, tracked, closing, queue, audio, task, cancelled, heard>>

------------------------------------------------------------------------------
(* A stream's task and the sink it feeds. *)

(* input_started is set by the first frame, and the sink is called.         *)
Consume(s) ==
    /\ task[s] = "waiting" /\ s \notin cancelled /\ audio[s] > 0
    /\ task' = [task EXCEPT ![s] = "busy"]
    /\ UNCHANGED <<loop, on, item, active, tracked, closing, queue, audio, cancelled, heard>>

(* The sink asks for a frame, the first one or the next.                    *)
SinkReturns(s) ==
    /\ task[s] = "busy" /\ s \notin cancelled
    /\ task' = [task EXCEPT ![s] = "consuming"]
    /\ UNCHANGED <<loop, on, item, active, tracked, closing, queue, audio, cancelled, heard>>

(* _chunks_of: a frame for the sink to work on, or the end of its input.    *)
Take(s) ==
    /\ task[s] = "consuming" /\ s \notin cancelled
    /\ queue[s] # <<>> /\ heard[s] = "no"
    /\ queue' = [queue EXCEPT ![s] = Tail(@)]
    /\ \/ /\ Head(queue[s]) = "end"
          /\ heard' = [heard EXCEPT ![s] = "yes"]
          /\ UNCHANGED task
       \/ /\ Head(queue[s]) = "chunk"
          /\ task' = [task EXCEPT ![s] = "busy"]
          /\ UNCHANGED heard
    /\ UNCHANGED <<loop, on, item, active, tracked, closing, audio, cancelled>>

(* _retire_stream *)
Retire(s) ==
    /\ active' = IF active = s THEN None ELSE active
    /\ queue' = [queue EXCEPT ![s] = <<>>]

Finish(s) ==
    /\ task' = [task EXCEPT ![s] = "done"]
    /\ tracked' = tracked \ {s}
    /\ cancelled' = cancelled \ {s}

(* A plausible bug: only a sink that raises has its stream retired. *)
SinkEndsQuietly(s) ==
    /\ task[s] \in {"busy", "consuming"} /\ s \notin cancelled
    /\ \/ Retire(s)
       \/ UNCHANGED <<active, queue>>
    /\ Finish(s)
    /\ UNCHANGED <<loop, on, item, closing, audio, heard>>

(* consume() returns or raises, whether or not it has read everything.      *)
SinkEnds(s) ==
    /\ task[s] \in {"busy", "consuming"} /\ s \notin cancelled
    /\ Retire(s)
    /\ Finish(s)
    /\ UNCHANGED <<loop, on, item, closing, audio, heard>>

(* A cancellation arrives: before the sink was called, or inside it, where   *)
(* it may await while cleaning up.                                          *)
CancelWaiting(s) ==
    /\ task[s] = "waiting" /\ s \in cancelled
    /\ Finish(s)
    /\ UNCHANGED <<loop, on, item, active, closing, queue, audio, heard>>

CancelConsuming(s) ==
    /\ task[s] \in {"busy", "consuming"} /\ s \in cancelled
    /\ task' = [task EXCEPT ![s] = "stopping"]
    /\ UNCHANGED <<loop, on, item, active, tracked, closing, queue, audio, cancelled, heard>>

SinkStopped(s) ==
    /\ task[s] = "stopping"
    /\ Retire(s)
    /\ Finish(s)
    /\ UNCHANGED <<loop, on, item, closing, audio, heard>>

ReceiveFrame == (\E s \in Streams : HandleStart(s)) \/ HandleBinary \/ HandleEnd \/ HandleDisconnect
Resume == Started \/ PutResumes \/ Aborted \/ Closed
RunTask(s) == Consume(s) \/ SinkReturns(s) \/ Take(s) \/ SinkEnds(s)
CancelTask(s) == CancelWaiting(s) \/ CancelConsuming(s) \/ SinkStopped(s)

StreamNext == ReceiveFrame \/ Resume \/ \E s \in Streams : RunTask(s) \/ CancelTask(s)

StreamSpec == StreamInit /\ [][StreamNext]_streamVars

(* The event loop runs what is ready: the receive loop and a task woken by   *)
(* their queue, by a task that ended or by a cancellation.  Nothing is       *)
(* assumed of the client, nor of the sink's own steps: interrupt() may not   *)
(* return, consume() may never come back to its queue and never end.        *)
LoopFairness ==
    /\ WF_streamVars(PutResumes \/ Aborted \/ Closed)
    /\ \A s \in Streams :
        WF_streamVars(Consume(s)) /\ WF_streamVars(Take(s)) /\ WF_streamVars(CancelWaiting(s) \/ CancelConsuming(s))
StreamFairSpec == StreamSpec /\ LoopFairness

------------------------------------------------------------------------------

(* The types, and the queue's capacity.                                     *)
StreamTypeOK ==
    /\ loop \in Loops /\ on \in Streams \cup {None} /\ item \in {"chunk", "end"}
    /\ active \in Streams \cup {None}
    /\ tracked \in SUBSET Streams /\ closing \in SUBSET Streams /\ cancelled \in SUBSET Streams
    /\ queue \in [Streams -> Seq({"chunk", "end"})]
    /\ \A s \in Streams : Len(queue[s]) <= MaxQueue
    /\ audio \in [Streams -> 0 .. MaxAudio]
    /\ task \in [Streams -> TaskStates]
    /\ heard \in [Streams -> {"yes", "no"}]

(* Frames are accepted only for a stream whose task is there to read them:   *)
(* "leaving the stream registered wedges the whole connection"              *)
(* (_drain_to_sink), whichever way and whenever the sink ended.             *)
ActiveIsRead == active # None =>
    Reading(active) /\ active \notin cancelled

(* The receive loop is never parked on the full queue of a stream nobody     *)
(* reads any more (_retire_stream empties it).                              *)
ParkedIsRead == loop = "putting" /\ Len(queue[on]) = MaxQueue =>
    Reading(on) /\ on \notin cancelled

(* When the connection is closed no task of any of its streams is left,      *)
(* earlier streams that still answered included (handle_disconnect).        *)
ClosedIsQuiet == loop = "closed" => \A s \in Streams : task[s] \in {"none", "done"}

(* Whoever sends frames to a stream has somebody reading them, to the end of *)
(* the connection and not beyond it.                                        *)
StreamsAreRead == ActiveIsRead /\ ParkedIsRead /\ ClosedIsQuiet

(* The sink of a stream comes back whenever it left its queue: it reads on,   *)
(* or it ends.  An assumption of the two properties below, each about the    *)
(* streams that keep it, for the program does not see to it.                *)
ComesBack(s) == []<>(task[s] \notin {"busy", "stopping"})

(* The receive loop gets back to its client: neither a full queue, nor an    *)
(* abort, nor a sink that gives up while the loop waits holds it for ever,   *)
(* if the sink of the stream it waits for comes back; a disconnect waits for *)
(* the sinks of all of them.  It takes no part in what other streams do.    *)
LoopReturns ==
    /\ \A s \in Streams : ComesBack(s) =>
        (loop \in {"putting", "aborting"} /\ on = s ~> loop \in {"ready", "closed"})
    /\ (\A s \in Streams : ComesBack(s)) => (loop = "closing" ~> loop = "closed")

(* A stream the client has ended is one whose sink learns it or is over, if  *)
(* it comes back: it never waits for audio that will not come, whatever the  *)
(* streams before and after it do.                                          *)
EndIsHeard == \A s \in Streams : ComesBack(s) =>
    (Reading(s) /\ active # s /\ loop = "ready" ~> heard[s] = "yes" \/ task[s] = "done")

(* What the client sends, its end included, gets to the sink in the end.     *)
InputGetsThrough == LoopReturns /\ EndIsHeard

(* Not kept: the receive loop returns whatever the sinks do.  A realtime      *)
(* sink reads nothing while it waits for its conversation's lock, which an   *)
(* earlier turn holds until its vendor has answered.                        *)
LoopAlwaysReturns == loop \in {"putting", "aborting", "closing"} ~> loop \in {"ready", "closed"}
=============================================================================
