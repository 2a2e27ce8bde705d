---------------------------- MODULE SessionEntry ----------------------------
(***************************************************************************)
(* run_websocket_session: every connection to /ws from the limiter of       *)
(* unauthenticated connections, through session.hello and its timeout, to   *)
(* the serve loop and the clean-up, with the counters each of them keeps.   *)
(* A connection is a task of the event loop: what it does between two       *)
(* awaits is one action.  SessionHandshake.perform runs in a pool thread    *)
(* that goes on when the handshake has timed out.                           *)
(***************************************************************************)
EXTENDS Integers, FiniteSets

CONSTANTS
    Conns,    \* connections, each of them opened once
    Limit,    \* UnauthenticatedConnectionLimiter._limit
    Workers   \* threads of the event loop's default executor

ASSUME ConstantsAssumption == IsFiniteSet(Conns) /\ Limit \in Nat \ {0} /\ Workers \in Nat \ {0}

VARIABLES
    pc,       \* where the connection's task is
    count,    \* the limiter's _count
    thread,   \* the verification of the connection's hello
    there,    \* connections whose client still listens
    open,     \* the gauge of accepted connections
    live,     \* sessions in ConnectionManager._connections
    sample,   \* the session's entry in VoiceSessionOccupancy
    ends,     \* how many hang-ups VOICE_SESSION_ENDS has counted for the session
    served    \* history: the connections that have had a session

vars == <<pc, count, thread, there, open, live, sample, ends, served>>
counters == <<count, open, live, sample, ends, served>>

\* Between try_acquire and the release in the finally clause; unaccepted is not in the gauge.
Timed == {"hello", "verifying", "refusing", "closing"}
Holding == {"accepting", "replying", "rejecting", "timing_out"} \cup Timed
Serving == {"serving", "dispatching", "handling", "leaving"}
Ended == {"rejected", "ended"}
Results == {"session", "rejection", "error"}

Init ==
    /\ pc = [c \in Conns |-> "new"]
    /\ count = 0
    /\ thread = [c \in Conns |-> "none"]
    /\ there = Conns
    /\ open = 0
    /\ live = {}
    /\ sample = [c \in Conns |-> "none"]
    /\ ends = [c \in Conns |-> 0]
    /\ served = {}

Goto(c, l) == pc' = [pc EXCEPT ![c] = l]

\* An await within the handshake is followed by another one.
Proceed(c, l) == Goto(c, l) /\ UNCHANGED counters

\* The handshake is over without a session: the finally clause gives the slot back and
\* takes an accepted connection off the gauge.
EndHandshake(c) ==
    /\ Goto(c, "ended")
    /\ count' = IF count > 0 THEN count - 1 ELSE 0
    /\ open' = IF pc[c] = "accepting" THEN open ELSE open - 1
    /\ UNCHANGED <<live, sample, ends, served>>

-----------------------------------------------------------------------------
(* The handshake. *)

(* A plausible bug: the limit itself is let in once more. *)
EnterOneMore(c) ==
    /\ pc[c] = "new"
    /\ IF count <= Limit THEN Goto(c, "accepting") /\ count' = count + 1
                         ELSE Goto(c, "rejected") /\ UNCHANGED count
    /\ UNCHANGED <<thread, there, open, live, sample, ends, served>>

\* try_acquire, or close 1013 before accepting.
Enter(c) ==
    /\ pc[c] = "new"
    /\ IF count < Limit THEN Goto(c, "accepting") /\ count' = count + 1
                        ELSE Goto(c, "rejected") /\ UNCHANGED count
    /\ UNCHANGED <<thread, there, open, live, sample, ends, served>>

\* accept() returns, or raises because the client has gone.
Accept(c) ==
    /\ pc[c] = "accepting"
    /\ \/ /\ Goto(c, "hello")
          /\ open' = open + 1
          /\ UNCHANGED <<count, live, sample, ends, served>>
       \/ c \notin there /\ EndHandshake(c)
    /\ UNCHANGED <<thread, there>>

\* The first frame: a JSON object is verified in a thread, anything else is refused.  A client
\* that has gone raises, and so does a text json.loads fails on in another way than JSON's own.
Hello(c) ==
    /\ pc[c] = "hello"
    /\ \/ /\ Proceed(c, "verifying")
          /\ thread' = [thread EXCEPT ![c] = "queued"]
       \/ Proceed(c, "refusing") /\ UNCHANGED thread
       \/ EndHandshake(c) /\ UNCHANGED thread
    /\ UNCHANGED there

\* SessionHandshake.perform: the frame opens a session, is rejected, or the verifier raises.
ThreadStarts(c) ==
    /\ thread[c] = "queued"
    /\ Cardinality({o \in Conns : thread[o] = "running"}) < Workers
    /\ thread' = [thread EXCEPT ![c] = "running"]
    /\ UNCHANGED <<pc, there, counters>>

Perform(c) ==
    /\ thread[c] = "running"
    /\ \E result \in Results : thread' = [thread EXCEPT ![c] = result]
    /\ UNCHANGED <<pc, there, counters>>

\* The task takes the result up: an error is refused within the timeout, a reply is not.
Verified(c) ==
    /\ pc[c] = "verifying"
    /\ thread[c] \in Results
    /\ Proceed(c, IF thread[c] = "error" THEN "refusing" ELSE "replying")
    /\ UNCHANGED <<thread, there>>

\* session.error is sent; a send to a client that has gone raises WebSocketDisconnect.
Refuse(c) ==
    /\ pc[c] = "refusing"
    /\ IF c \in there THEN Proceed(c, "closing") ELSE EndHandshake(c)
    /\ UNCHANGED <<thread, there>>

\* close() returns: within the timeout, after it, or after a rejection's reply.
Close(c) ==
    /\ pc[c] \in {"closing", "timing_out", "rejecting"}
    /\ EndHandshake(c)
    /\ UNCHANGED <<thread, there>>

(* A plausible bug: the second close raises past the release. *)
TimeoutKeeping(c) ==
    /\ pc[c] \in Timed
    /\ Proceed(c, IF pc[c] = "closing" THEN "ended" ELSE "timing_out")
    /\ thread' = IF thread[c] = "queued" THEN [thread EXCEPT ![c] = "none"] ELSE thread
    /\ UNCHANGED there

(* A plausible bug: only the first frame is awaited under the timeout. *)
TimeoutOfHello(c) ==
    /\ pc[c] = "hello"
    /\ Proceed(c, "timing_out")
    /\ UNCHANGED <<thread, there>>

\* asyncio.timeout fires: it beats a result not yet taken up, and drops a verification not
\* yet started.  A close already sent cannot be sent again: that raises.
Timeout(c) ==
    /\ pc[c] \in Timed
    /\ IF pc[c] = "closing" THEN EndHandshake(c) ELSE Proceed(c, "timing_out")
    /\ thread' = IF thread[c] = "queued" THEN [thread EXCEPT ![c] = "none"] ELSE thread
    /\ UNCHANGED there

\* session.ready has been sent: the slot is given back, the session counted and registered.
\* A rejection is closed after its reply; a send to nobody raises.
Reply(c) ==
    /\ pc[c] = "replying"
    /\ \/ c \notin there /\ EndHandshake(c)
       \/ c \in there /\ thread[c] = "rejection" /\ Proceed(c, "rejecting")
       \/ /\ c \in there /\ thread[c] = "session"
          /\ Goto(c, "serving")
          /\ count' = IF count > 0 THEN count - 1 ELSE 0
          /\ sample' = [sample EXCEPT ![c] = "talking"]
          /\ live' = live \cup {c}
          /\ served' = served \cup {c}
          /\ UNCHANGED <<open, ends>>
    /\ UNCHANGED <<thread, there>>

-----------------------------------------------------------------------------
(* The serve loop. *)

\* A binary frame goes to the voice handler, a message to the router; a malformed frame
\* and a second hello are answered at once; a text json.loads cannot take ends the session.
Receive(c) ==
    /\ pc[c] = "serving" /\ c \in there
    /\ \E l \in {"dispatching", "handling", "serving", "leaving"} : Proceed(c, l)
    /\ UNCHANGED <<thread, there>>

\* MessageRouter.dispatch turns a handler's failure into an error envelope; the reply is sent
\* to whoever is there.
Dispatched(c) ==
    /\ pc[c] = "dispatching"
    /\ Proceed(c, "serving")
    /\ UNCHANGED <<thread, there>>

\* The binary handler is not guarded: its failure ends the session.
Handled(c) ==
    /\ pc[c] = "handling"
    /\ \E l \in {"serving", "leaving"} : Proceed(c, l)
    /\ UNCHANGED <<thread, there>>

\* mark_tool_end: voice.session.end was delivered, and the hang-up counted with it.
ToolEnds(c) ==
    /\ pc[c] \in Serving
    /\ sample[c] = "talking"
    /\ sample' = [sample EXCEPT ![c] = "tool_ended"]
    /\ ends' = [ends EXCEPT ![c] = @ + 1]
    /\ UNCHANGED <<pc, count, thread, there, open, live, served>>

\* receive() or a send raises WebSocketDisconnect: the disconnect handler is awaited.
Disconnected(c) ==
    /\ pc[c] = "serving" /\ c \notin there
    /\ Proceed(c, "leaving")
    /\ UNCHANGED <<thread, there>>

\* The disconnect handler has returned or raised: unregister, finish, and the gauge.
Leave(c) ==
    /\ pc[c] = "leaving"
    /\ Goto(c, "ended")
    /\ live' = live \ {c}
    /\ ends' = [ends EXCEPT ![c] = IF sample[c] = "talking" THEN @ + 1 ELSE @]
    /\ sample' = [sample EXCEPT ![c] = "none"]
    /\ open' = open - 1
    /\ UNCHANGED <<count, thread, there, served>>

-----------------------------------------------------------------------------
(* The environment. *)

ClientLeaves(c) ==
    /\ c \in there
    /\ there' = there \ {c}
    /\ UNCHANGED <<pc, thread, counters>>

\* The server shuts down and cancels the task at its await; finally clauses run, and the
\* clean-up of a session still awaits the disconnect handler.
Cancel(c) ==
    /\ \/ pc[c] \in Holding /\ EndHandshake(c)
       \/ pc[c] \in Serving \ {"leaving"} /\ Proceed(c, "leaving")
    /\ thread' = IF thread[c] = "queued" THEN [thread EXCEPT ![c] = "none"] ELSE thread
    /\ UNCHANGED there

Handshake(c) ==
    Enter(c) \/ Accept(c) \/ Hello(c) \/ Verified(c) \/ Refuse(c) \/ Close(c) \/ Reply(c)

Session(c) == Receive(c) \/ Dispatched(c) \/ Handled(c) \/ Disconnected(c) \/ Leave(c)

Next ==
    \E c \in Conns :
        \/ Handshake(c) \/ Timeout(c) \/ Session(c) \/ ToolEnds(c)
        \/ ThreadStarts(c) \/ Perform(c) \/ ClientLeaves(c) \/ Cancel(c)

\* The timer fires, and accept, sends and closes return or raise.  Nothing makes a client say
\* hello, and nothing makes a verification end.
Returns(c) == Accept(c) \/ Refuse(c) \/ Close(c) \/ Reply(c) \/ Timeout(c)

Fairness == \A c \in Conns : WF_vars(Returns(c))

Spec == Init /\ [][Next]_vars /\ Fairness

-----------------------------------------------------------------------------
(* Properties. *)

\* The type of the state.
TypeOK ==
    /\ pc \in [Conns -> {"new"} \cup Holding \cup Serving \cup Ended]
    /\ count \in 0..Limit
    /\ thread \in [Conns -> {"none", "queued", "running"} \cup Results]
    /\ there \subseteq Conns
    /\ open \in Nat
    /\ live \subseteq Conns
    /\ sample \in [Conns -> {"none", "talking", "tool_ended"}]
    /\ ends \in [Conns -> Nat]
    /\ served \subseteq Conns

\* Whatever ends a handshake - a refusal, a timeout at any of its awaits, a lost client, a
\* verifier that raises or never returns, a shutdown - gives back the one slot it took: the
\* limiter counts the connections that are still unauthenticated, and no others.
SlotsMatch == count = Cardinality({c \in Conns : pc[c] \in Holding})

\* The gauge counts the accepted connections, the registry and the occupancy hold the
\* sessions a verification has opened, and every session that is over has been counted as
\* hung up once, by the tool that ended it or by the clean-up.
SessionsMatch ==
    /\ open = Cardinality({c \in Conns : pc[c] \in (Holding \cup Serving) \ {"accepting"}})
    /\ live = {c \in Conns : pc[c] \in Serving}
    /\ \A c \in live : thread[c] = "session" /\ sample[c] # "none"
    /\ \A c \in Conns : ends[c] = IF sample[c] = "tool_ended" \/ c \in served \ live THEN 1 ELSE 0

\* Everything that is counted is counted once, whichever way a connection goes.
CountsMatch == SlotsMatch /\ SessionsMatch

\* No connection stays unauthenticated: not the silent client's, nor one whose verification
\* hangs or waits for a thread for ever.
HandshakeEnds == \A c \in Conns : (pc[c] \in Holding) ~> (pc[c] \notin Holding)

=============================================================================
