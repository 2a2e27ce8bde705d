------------------------- MODULE ConnectionManager -------------------------
(***************************************************************************)
(* The registry of connections and its serialized writes                   *)
(* (gateway/websocket/connection_manager.py): single messages, account     *)
(* fan-outs and bursts of synthesized audio share a session's socket.      *)
(*                                                                         *)
(* Everything runs on one event loop.  An asyncio.Lock is a queue whose    *)
(* head has the lock: a release wakes the first waiter and a newcomer      *)
(* never passes it.  A frame reaches the transport when its writer has the *)
(* lock; the writer then may still wait for the transport to drain.        *)
(* Session identifiers are minted per connection (handlers/session.py), so *)
(* a session that was unregistered never comes back.                       *)
(***************************************************************************)
EXTENDS Naturals, Sequences, FiniteSets, SequencesExt

CONSTANTS
    Sessions,      \* the live sessions of one account
    Bursts,        \* callers of stream_audio, one spoken reply each
    Senders,       \* callers of send, one message each
    Fanouts,       \* callers of send_to_account
    MaxChunks,     \* bound: chunks a producer yields
    None

ASSUME ConnectionManagerAssumption ==
    /\ MaxChunks \in Nat
    /\ Bursts \cap (Senders \cup Fanouts) = {} /\ Senders \cap Fanouts = {}
    /\ None \notin Sessions

Tasks == Bursts \cup Senders \cup Fanouts
Frame == [of : Tasks, kind : {"start", "chunk", "end", "message"}]

VARIABLES
    socket,        \* whether the client is still at the other end
    registered,    \* _connections
    audio,         \* _audio_locks
    write,         \* _locks: the frames whose writers wait; the head's has the lock
    sending,       \* whether the head is on the wire and its writer draining
    wire,          \* what the client receives, in order
    pc,
    goal,          \* the session a task writes to
    left,          \* a fan-out's list, the sessions not yet tried
    ender          \* the shielded task that sends a burst's end

vars == <<socket, registered, audio, write, sending, wire, pc, goal, left, ender>>
network == <<socket, registered>>

PCs == {"idle", "queued", "starting", "feeding", "chunk", "ending", "fanning", "sending", "done"}

Live(s) == registered[s] = "yes" /\ socket[s] = "open"
F(t, k) == [of |-> t, kind |-> k]
Sent(t, k) == \E s \in Sessions : \E i \in DOMAIN wire[s] : wire[s][i] = F(t, k)
Chunks(b) == Cardinality({i \in DOMAIN wire[goal[b]] : wire[goal[b]][i] = F(b, "chunk")})

(* x is in q once, if at all. *)
Drop(q, x) ==
    IF \E i \in DOMAIN q : q[i] = x THEN RemoveAt(q, CHOOSE i \in DOMAIN q : q[i] = x) ELSE q

Init ==
    /\ socket = [s \in Sessions |-> "open"]
    /\ registered = [s \in Sessions |-> "yes"]
    /\ audio = [s \in Sessions |-> <<>>]
    /\ write = [s \in Sessions |-> <<>>]
    /\ sending = [s \in Sessions |-> "no"]
    /\ wire = [s \in Sessions |-> <<>>]
    /\ pc = [t \in Tasks |-> "idle"]
    /\ goal = [t \in Tasks |-> None]
    /\ left = [t \in Fanouts |-> {}]
    /\ ender = [b \in Bursts |-> "none"]

------------------------------------------------------------------------------
(* What a writer does once its frame was sent, was refused because the      *)
(* session is gone, or its send raised; the code up to the writer's next    *)
(* await.                                                                   *)
Outcomes == {"sent", "gone", "raised"}

NextPc(f, how) ==
    CASE f.kind = "start" /\ how = "sent" -> "feeding"
      [] f.kind = "chunk" /\ how = "sent" -> "feeding"
      [] f.kind = "chunk" /\ how # "sent" -> "ending"
      [] f.kind = "message" /\ f.of \in Fanouts /\ how # "raised" -> "fanning"
      [] f.kind = "end" -> pc[f.of]
      [] OTHER -> "done"

After(f, s, how) ==
    LET next == NextPc(f, how)
    IN /\ pc' = [pc EXCEPT ![f.of] = next]
       /\ audio' = IF f.kind = "start" /\ next = "done"
                   THEN [audio EXCEPT ![s] = Drop(@, f.of)] ELSE audio
       /\ ender' = CASE f.kind = "end" -> [ender EXCEPT ![f.of] = "done"]
                     [] next = "ending" /\ f.kind = "chunk" -> [ender EXCEPT ![f.of] = "new"]
                     [] OTHER -> ender

(* _send_frame and send up to the write lock.  A session no longer          *)
(* registered has a lock of its own, free, and refuses at once.             *)
Write(t, s, k, waiting) ==
    IF registered[s] = "yes"
    THEN /\ write' = [write EXCEPT ![s] = Append(@, F(t, k))]
         /\ pc' = [pc EXCEPT ![t] = waiting]
         /\ UNCHANGED <<audio, ender>>
    ELSE After(F(t, k), s, "gone") /\ UNCHANGED write

(* The head of the queue has the lock and runs.                             *)
Transmit(s) ==
    /\ write[s] # <<>> /\ sending[s] = "no"
    /\ IF Live(s)
       THEN /\ wire' = [wire EXCEPT ![s] = Append(@, Head(write[s]))]
            /\ sending' = [sending EXCEPT ![s] = "yes"]
            /\ UNCHANGED <<write, pc, audio, ender>>
       ELSE /\ write' = [write EXCEPT ![s] = Tail(@)]
            /\ After(Head(write[s]), s, IF registered[s] = "no" THEN "gone" ELSE "raised")
            /\ UNCHANGED <<wire, sending>>
    /\ UNCHANGED <<network, goal, left>>

(* The transport has taken the frame, or the client went away meanwhile.    *)
Drain(s) ==
    /\ sending[s] = "yes"
    /\ sending' = [sending EXCEPT ![s] = "no"]
    /\ write' = [write EXCEPT ![s] = Tail(@)]
    /\ After(Head(write[s]), s, IF socket[s] = "open" THEN "sent" ELSE "raised")
    /\ UNCHANGED <<network, wire, goal, left>>

------------------------------------------------------------------------------
(* send, also used for replies of the receive loop.                         *)
Send(t, s) ==
    /\ pc[t] = "idle"
    /\ goal' = [goal EXCEPT ![t] = s]
    /\ Write(t, s, "message", "sending")
    /\ UNCHANGED <<network, sending, wire, left>>

(* send_to_account, and its next send.                                      *)
Publish(t) ==
    /\ pc[t] = "idle"
    /\ left' = [left EXCEPT ![t] = {s \in Sessions : registered[s] = "yes"}]
    /\ pc' = [pc EXCEPT ![t] = "fanning"]
    /\ UNCHANGED <<network, audio, write, sending, wire, goal, ender>>

FanOn(t) ==
    /\ pc[t] = "fanning"
    /\ \E s \in left[t] :
        /\ left' = [left EXCEPT ![t] = @ \ {s}]
        /\ goal' = [goal EXCEPT ![t] = s]
        /\ Write(t, s, "message", "sending")
    /\ UNCHANGED <<network, sending, wire>>

FanOut(t) ==
    /\ pc[t] = "fanning" /\ left[t] = {}
    /\ pc' = [pc EXCEPT ![t] = "done"]
    /\ UNCHANGED <<network, audio, write, sending, wire, goal, left, ender>>

(* A plausible bug: bursts are not admitted one at a time. *)
AdmitAny(b) ==
    /\ pc[b] = "queued"
    /\ Write(b, goal[b], "start", "starting")
    /\ UNCHANGED <<network, sending, wire, goal, left>>

(* stream_audio: a burst queues for the audio lock, has it, and sends its   *)
(* start message.                                                           *)
StreamAudio(b, s) ==
    /\ pc[b] = "idle"
    /\ goal' = [goal EXCEPT ![b] = s]
    /\ IF registered[s] = "yes"
       THEN audio' = [audio EXCEPT ![s] = Append(@, b)] /\ pc' = [pc EXCEPT ![b] = "queued"]
       ELSE pc' = [pc EXCEPT ![b] = "done"] /\ UNCHANGED audio
    /\ UNCHANGED <<network, write, sending, wire, left, ender>>

Admit(b) ==
    /\ pc[b] = "queued" /\ Head(audio[goal[b]]) = b
    /\ Write(b, goal[b], "start", "starting")
    /\ UNCHANGED <<network, sending, wire, goal, left>>

(* The producer yields a chunk, or has no more or raises.                   *)
NextChunk(b) ==
    /\ pc[b] = "feeding" /\ Chunks(b) < MaxChunks
    /\ Write(b, goal[b], "chunk", "chunk")
    /\ UNCHANGED <<network, sending, wire, goal, left>>

ProducerEnds(b) ==
    /\ pc[b] = "feeding"
    /\ pc' = [pc EXCEPT ![b] = "ending"]
    /\ ender' = [ender EXCEPT ![b] = "new"]
    /\ UNCHANGED <<network, audio, write, sending, wire, goal, left>>

(* The shielded task of _send_end_frame starts.                             *)
SendEnd(b) ==
    /\ ender[b] = "new"
    /\ IF registered[goal[b]] = "yes"
       THEN /\ write' = [write EXCEPT ![goal[b]] = Append(@, F(b, "end"))]
            /\ ender' = [ender EXCEPT ![b] = "queued"]
       ELSE ender' = [ender EXCEPT ![b] = "done"] /\ UNCHANGED write
    /\ UNCHANGED <<network, audio, sending, wire, pc, goal, left>>

Leave(b) ==
    /\ audio' = [audio EXCEPT ![goal[b]] = Drop(@, b)]
    /\ pc' = [pc EXCEPT ![b] = "done"]

(* The awaited end task is done: the burst releases the audio lock.         *)
Ended(b) ==
    /\ pc[b] = "ending" /\ ender[b] = "done"
    /\ Leave(b)
    /\ UNCHANGED <<network, write, sending, wire, goal, left, ender>>

------------------------------------------------------------------------------
(* A burst's task is cancelled where it waits.                              *)

CancelQueued(b) ==
    /\ pc[b] = "queued"
    /\ Leave(b)
    /\ UNCHANGED <<network, write, sending, wire, goal, left, ender>>

(* A plausible bug: the draining writer's lock is released, not its state.  *)
WithdrawHalf(f, s) ==
    /\ write' = [write EXCEPT ![s] = Drop(@, f)]
    /\ UNCHANGED sending

(* The writer of f gives up its place, or the lock with the frame already    *)
(* on the wire.                                                             *)
Withdraw(f, s) ==
    /\ write' = [write EXCEPT ![s] = Drop(@, f)]
    /\ sending' = IF Head(write[s]) = f THEN [sending EXCEPT ![s] = "no"] ELSE sending

CancelStarting(b) ==
    /\ pc[b] = "starting"
    /\ Withdraw(F(b, "start"), goal[b])
    /\ Leave(b)
    /\ UNCHANGED <<network, wire, goal, left, ender>>

(* A plausible bug: the end message is for bursts that end by themselves.    *)
CancelStreamingQuietly(b) ==
    /\ pc[b] \in {"feeding", "chunk"}
    /\ IF pc[b] = "chunk" THEN Withdraw(F(b, "chunk"), goal[b]) ELSE UNCHANGED <<write, sending>>
    /\ pc' = [pc EXCEPT ![b] = "ending"]
    /\ UNCHANGED ender
    /\ UNCHANGED <<network, audio, wire, goal, left>>

(* Inside the try block: the end message is sent on the way out.            *)
CancelStreaming(b) ==
    /\ pc[b] \in {"feeding", "chunk"}
    /\ IF pc[b] = "chunk" THEN Withdraw(F(b, "chunk"), goal[b]) ELSE UNCHANGED <<write, sending>>
    /\ pc' = [pc EXCEPT ![b] = "ending"]
    /\ ender' = [ender EXCEPT ![b] = "new"]
    /\ UNCHANGED <<network, audio, wire, goal, left>>

(* The shielded task goes on by itself.  It was scheduled before the burst  *)
(* waited for it, so it has queued its frame before a cancellation arrives. *)
CancelEnding(b) ==
    /\ pc[b] = "ending" /\ ender[b] # "new"
    /\ Leave(b)
    /\ UNCHANGED <<network, write, sending, wire, goal, left, ender>>

(* The client is lost; the endpoint notices and unregisters the session, or  *)
(* it does so because a handler raised.                                     *)
Lose(s) ==
    /\ socket[s] = "open"
    /\ socket' = [socket EXCEPT ![s] = "lost"]
    /\ UNCHANGED <<registered, audio, write, sending, wire, pc, goal, left, ender>>

Unregister(s) ==
    /\ registered[s] = "yes"
    /\ registered' = [registered EXCEPT ![s] = "no"]
    /\ UNCHANGED <<socket, audio, write, sending, wire, pc, goal, left, ender>>

Loop ==
    \/ \E s \in Sessions : Transmit(s) \/ Drain(s)
    \/ \E t \in Fanouts : FanOn(t) \/ FanOut(t)
    \/ \E b \in Bursts : Admit(b) \/ SendEnd(b) \/ Ended(b)

Cancel(b) == CancelQueued(b) \/ CancelStarting(b) \/ CancelStreaming(b) \/ CancelEnding(b)

Next ==
    \/ Loop
    \/ \E t \in Senders, s \in Sessions : Send(t, s)
    \/ \E t \in Fanouts : Publish(t)
    \/ \E b \in Bursts :
        \/ \E s \in Sessions : StreamAudio(b, s)
        \/ NextChunk(b) \/ ProducerEnds(b) \/ Cancel(b)
    \/ \E s \in Sessions : Lose(s) \/ Unregister(s)

Spec == Init /\ [][Next]_vars

(* The event loop runs every task that is ready, and a transport drains or   *)
(* fails.  Nothing is assumed of producers.                                 *)
LoopFairness ==
    /\ \A s \in Sessions : WF_vars(Transmit(s)) /\ WF_vars(Drain(s))
    /\ \A t \in Fanouts : WF_vars(FanOn(t) \/ FanOut(t))
    /\ \A b \in Bursts : WF_vars(Admit(b)) /\ WF_vars(SendEnd(b)) /\ WF_vars(Ended(b))
FairSpec == Spec /\ LoopFairness

------------------------------------------------------------------------------

(* The types; a frame being sent is the head of its queue.                  *)
TypeOK ==
    /\ socket \in [Sessions -> {"open", "lost"}]
    /\ registered \in [Sessions -> {"yes", "no"}]
    /\ audio \in [Sessions -> Seq(Bursts)]
    /\ write \in [Sessions -> Seq(Frame)]
    /\ sending \in [Sessions -> {"yes", "no"}]
    /\ wire \in [Sessions -> Seq(Frame)]
    /\ pc \in [Tasks -> PCs]
    /\ goal \in [Tasks -> Sessions \cup {None}]
    /\ left \in [Fanouts -> SUBSET Sessions]
    /\ ender \in [Bursts -> {"none", "new", "queued", "done"}]
    /\ \A s \in Sessions : sending[s] = "yes" => write[s] # <<>>

Marks(s, j) == {i \in 1 .. j - 1 : wire[s][i].kind \in {"start", "end"}}

(* A client that plays what lies between a start and the next mark never    *)
(* hears one reply in another (stream_audio "Holds the audio lock for the   *)
(* burst so no second burst overlaps"), though the audio lock may be free   *)
(* while a cancelled burst's end is still on its way.                       *)
BurstsDoNotOverlap == \A s \in Sessions : \A j \in DOMAIN wire[s] :
    wire[s][j].kind \in {"chunk", "end"} =>
        \E i \in Marks(s, j) : /\ \A k \in Marks(s, j) : k <= i
                               /\ wire[s][i] = F(wire[s][j].of, "start")

(* A burst the client has heard part of is ended or about to be, however     *)
(* often it was cancelled (_send_end_frame), unless the client is gone.     *)
HeardIsEnded == \A b \in Bursts :
    pc[b] = "done" /\ Sent(b, "chunk") /\ Live(goal[b]) =>
        Sent(b, "end") \/ ender[b] \in {"new", "queued"}

(* What a client hears of bursts: one at a time, each to its end.            *)
BurstsAreWhole == BurstsDoNotOverlap /\ HeardIsEnded

(* connection_manager.py:125 "Cancelling the caller stops the burst at once  *)
(* and still sends the end message, so a client is never left waiting for   *)
(* the end of a burst that will never continue."                            *)
StartedIsEnded == \A b \in Bursts :
    pc[b] = "done" /\ Sent(b, "start") /\ Live(goal[b]) =>
        Sent(b, "end") \/ ender[b] \in {"new", "queued"}

(* connection_manager.py:66 "Send one message to every live session         *)
(* belonging to an account."                                                *)
EverySessionTold == \A t \in Fanouts : pc[t] = "done" =>
    \A s \in Sessions : Live(s) => \E i \in DOMAIN wire[s] : wire[s][i] = F(t, "message")

(* A message waits for frames, never for a burst: whatever the producers do, *)
(* other writes get through ("takes the write lock one frame at a time").   *)
MessagesPass == \A t \in Senders : pc[t] = "sending" ~> pc[t] = "done"

(* A burst that is ending gives the next one its turn, though its client     *)
(* may be gone and its own task cancelled again.                            *)
EndingEnds == \A b \in Bursts : pc[b] = "ending" ~> pc[b] = "done" /\ ender[b] = "done"

(* Nobody is held up for good by a burst.                                    *)
BurstsGiveWay == MessagesPass /\ EndingEnds
=============================================================================
