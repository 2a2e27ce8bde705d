--------------------------- MODULE ClientSession ---------------------------
(***************************************************************************)
(* The client's session: AuthController, the retrier of its deletions, the  *)
(* AuthInvalidationCoordinator, the authenticated socket, the protected     *)
(* requests, and AppRuntime, which the published state starts and stops.    *)
(* The program is one JavaScript thread: what it does between two awaits is *)
(* one action.  The secure store's operations run in the platform, return   *)
(* in any order and may fail; their effect is taken when they return.       *)
(***************************************************************************)
EXTENDS Integers, Sequences, FiniteSets

CONSTANTS
    Sessions,    \* the tokens the server may still issue
    Retries,     \* the retrier's background deletions in flight at once
    MaxRestarts  \* how often the process is killed

Waiting == {"loading", "failed", "unauthenticated"}  \* AuthState without a session
Owners == {"boot", "login", "inv"} \cup Retries      \* who waits for a store operation
Requests == {"route", "reminder"}                    \* the two senders of protected requests

ASSUME ConstantsAssumption ==
    /\ IsFiniteSet(Sessions)
    /\ MaxRestarts \in Nat
    /\ Sessions \cap (Waiting \cup {"none", "held"}) = {}
    /\ Retries \cap {"boot", "login", "inv"} = {}

VARIABLES
    state,     \* AuthController.state
    stored,    \* the session record in the secure store
    minted,    \* tokens issued
    lapsed,    \* tokens the client takes to have expired
    refused,   \* tokens the server answers with 401
    native,    \* each owner's operation on the secure store
    live,      \* deletions of the retrier's present generation
    timer,     \* AuthSessionDeletionRetrier.timer is set
    login,     \* where authenticate() is
    fresh,     \* the session it has been answered
    awaiting,  \* deletions its cancel() still waits for
    inv,       \* AuthInvalidationCoordinator.invalidation
    socket,    \* AuthenticatedWebSocketClient: its state and the token of its hello
    requests,  \* protected requests: the token sent, or held by an invalidation
    lifecycle, \* AppRuntime.lifecycle: the calls chained and not finished
    started,   \* AppRuntime.started
    restarts   \* bounded by MaxRestarts

vars == <<state, stored, minted, lapsed, refused, native, live, timer, login, fresh, awaiting,
          inv, socket, requests, lifecycle, started, restarts>>
server == <<minted, lapsed, refused>>
store == <<stored, native, live, timer>>
signIn == <<login, fresh, awaiting>>
runtime == <<lifecycle, started>>

Closed == [at |-> "closed", token |-> "none"]
Open(s) == [at |-> "authenticating", token |-> s]

Reading == [o \in Owners |-> IF o = "boot" THEN "read" ELSE "none"]

Init ==
    /\ state = "loading"
    /\ native = Reading
    /\ live = {} /\ timer = FALSE
    /\ login = "idle" /\ fresh = "none" /\ awaiting = {}
    /\ inv = "idle" /\ socket = Closed
    /\ requests = [q \in Requests |-> "none"]
    /\ lifecycle = <<>> /\ started = FALSE
    /\ stored \in Sessions \cup {"none"}
    /\ minted = {stored} \cap Sessions
    /\ lapsed \in SUBSET minted
    /\ refused \in SUBSET minted
    /\ restarts = 0

-----------------------------------------------------------------------------
(* The retrier, and what publishing a state sets off. *)

Clears == {o \in Owners : native[o] = "clear"}

\* clearOrRetry: a new generation, so no older deletion is retried.
ClearOrRetry(o) ==
    /\ native' = [native EXCEPT ![o] = "clear"]
    /\ live' = {o}
    /\ timer' = FALSE

\* AuthenticatedRuntime starts and stops the runtime when the view state changes ...
Effect(s) ==
    CASE s \in Sessions /\ state \notin Sessions -> <<"start">>
      [] s \notin Sessions /\ state \in Sessions -> <<"stop">>
      [] OTHER -> <<>>

\* ... and the schedule route, when it goes, aborts the request it has sent.
Publish(s) ==
    /\ state' = s
    /\ requests' = IF s \notin Sessions /\ requests["route"] \in Sessions
                   THEN [requests EXCEPT !["route"] = "none"] ELSE requests

\* invalidate() with none under way: the socket is closed, then the record is deleted.
Invalidate ==
    /\ inv = "idle"
    /\ inv' = "clearing"
    /\ socket' = Closed
    /\ ClearOrRetry("inv")
    /\ UNCHANGED stored

\* The invalidation is over; whoever awaited it goes on, with an error.
Release ==
    /\ inv' = "idle"
    /\ requests' = [q \in Requests |-> IF requests[q] = "held" THEN "none" ELSE requests[q]]

-----------------------------------------------------------------------------
(* Restoring the session. *)

\* store.read(): an expired record is purged, at once or, if it expires just now, by a deletion.
ReadReturns ==
    /\ native["boot"] = "read"
    /\ \/ /\ state' = "failed"
          /\ native' = [native EXCEPT !["boot"] = "none"]
          /\ UNCHANGED <<live, timer, requests, lifecycle>>
       \/ /\ stored \notin lapsed
          /\ LET s == IF stored = "none" THEN "unauthenticated" ELSE stored
             IN Publish(s) /\ lifecycle' = lifecycle \o Effect(s)
          /\ native' = [native EXCEPT !["boot"] = "none"]
          /\ UNCHANGED <<live, timer>>
       \/ /\ stored \in lapsed
          /\ \/ native' = [native EXCEPT !["boot"] = "purge"] /\ UNCHANGED <<live, timer>>
             \/ ClearOrRetry("boot")
          /\ UNCHANGED <<state, requests, lifecycle>>
    /\ UNCHANGED <<stored, server, signIn, inv, socket, started, restarts>>

\* A purge that fails is AuthSessionCleanupRequiredError.
PurgeReturns ==
    /\ native["boot"] = "purge"
    /\ \/ /\ stored' = "none"
          /\ Publish("unauthenticated")
          /\ native' = [native EXCEPT !["boot"] = "none"]
          /\ UNCHANGED <<live, timer>>
       \/ ClearOrRetry("boot") /\ UNCHANGED <<state, requests, stored>>
    /\ UNCHANGED <<server, signIn, inv, socket, runtime, restarts>>

RetryInitialization ==
    /\ state = "failed"
    /\ state' = "loading"
    /\ native' = [native EXCEPT !["boot"] = "read"]
    /\ UNCHANGED <<stored, live, timer, server, signIn, inv, socket, requests, runtime, restarts>>

-----------------------------------------------------------------------------
(* Signing in. *)

Authenticate ==
    /\ state = "unauthenticated" /\ login = "idle"
    /\ login' = "asking"
    /\ UNCHANGED <<state, store, server, fresh, awaiting, inv, socket, requests, runtime, restarts>>

\* The server refuses, does not answer within its 15 s, or issues a token; then cancel().
AccessAnswered ==
    /\ login = "asking"
    /\ \/ login' = "idle" /\ UNCHANGED <<minted, fresh, awaiting, native, live, timer>>
       \/ \E s \in Sessions \ minted :
            /\ minted' = minted \cup {s}
            /\ fresh' = s
            /\ live' = {} /\ timer' = FALSE
            /\ awaiting' = Clears
            /\ IF Clears = {}
               THEN login' = "writing" /\ native' = [native EXCEPT !["login"] = "write"]
               ELSE login' = "cancelling" /\ UNCHANGED native
    /\ UNCHANGED <<state, stored, lapsed, refused, inv, socket, requests, runtime, restarts>>

\* The session is published when its record is stored; one that could not be is deleted again.
WriteReturns ==
    /\ native["login"] = "write"
    /\ login' = "idle"
    /\ \/ /\ stored' = fresh
          /\ Publish(fresh)
          /\ lifecycle' = lifecycle \o Effect(fresh)
          /\ native' = [native EXCEPT !["login"] = "none"]
          /\ UNCHANGED <<live, timer>>
       \/ /\ stored' \in {stored, fresh}
          /\ ClearOrRetry("login")
          /\ UNCHANGED <<state, requests, lifecycle>>
    /\ fresh' = "none"
    /\ UNCHANGED <<server, awaiting, inv, socket, started, restarts>>

-----------------------------------------------------------------------------
(* Deletions. *)

\* store.clear() returns: a failure is retried unless a newer generation has begun.
Deleted(o) ==
    /\ \/ stored' = "none" /\ UNCHANGED timer
       \/ stored' \in {stored, "none"} /\ timer' = (timer \/ o \in live)
    /\ live' = live \ {o}

\* The last deletion cancel() waited for lets authenticate() write.
Waited(o) ==
    /\ awaiting' = awaiting \ {o}
    /\ IF awaiting = {o}
       THEN login' = "writing" /\ native' = [native EXCEPT ![o] = "none", !["login"] = "write"]
       ELSE login' = login /\ native' = [native EXCEPT ![o] = "none"]

\* What the deletion was for goes on, whether it failed or not: after an invalidation's the
\* accounts' memory is cleaned, which ends with runtime.stop().
ClearReturns(o) ==
    /\ native[o] = "clear"
    /\ Deleted(o)
    /\ Waited(o)
    /\ CASE o = "boot" -> Publish("unauthenticated") /\ UNCHANGED <<lifecycle, inv>>
         [] o = "inv" -> /\ Publish("unauthenticated")
                         /\ lifecycle' = lifecycle \o Effect("unauthenticated") \o <<"clean">>
                         /\ inv' = "cleaning"
         [] OTHER -> UNCHANGED <<state, requests, lifecycle, inv>>
    /\ UNCHANGED <<server, fresh, socket, started, restarts>>

TimerFires ==
    /\ timer
    /\ \E r \in Retries :
         /\ native[r] = "none"
         /\ native' = [native EXCEPT ![r] = "clear"]
         /\ live' = {r}
    /\ timer' = FALSE
    /\ UNCHANGED <<state, stored, server, signIn, inv, socket, requests, runtime, restarts>>

-----------------------------------------------------------------------------
(* Invalidation.  One that is under way is joined, which changes nothing. *)

SignOut ==
    /\ state \in Sessions
    /\ Invalidate
    /\ UNCHANGED <<state, server, signIn, requests, runtime, restarts>>

(* A plausible bug: the clean-up is waited for without a limit. *)
CleanupTimesOutNever == FALSE

\* Two seconds are over: the coordinator goes on, the clean-up stays in the chain.
CleanupTimesOut ==
    /\ inv = "cleaning"
    /\ Release
    /\ lifecycle' = [i \in DOMAIN lifecycle |-> IF lifecycle[i] = "clean" THEN "stop"
                                                                          ELSE lifecycle[i]]
    /\ UNCHANGED <<state, store, server, signIn, socket, started, restarts>>

-----------------------------------------------------------------------------
(* The socket. *)

(* A plausible bug: connect() does not ask whether an invalidation is under way. *)
ConnectAnyTime ==
    /\ state \in Sessions
    /\ IF state \in lapsed
       THEN Invalidate
       ELSE socket' = Open(state) /\ UNCHANGED <<inv, store>>
    /\ UNCHANGED <<state, server, signIn, requests, runtime, restarts>>

\* connect(), also to change the voice mode.  Without a session, or during an invalidation,
\* it is rejected and nothing is open that it could close.
Connect ==
    /\ state \in Sessions /\ inv = "idle"
    /\ IF state \in lapsed
       THEN Invalidate
       ELSE socket' = Open(state) /\ UNCHANGED <<inv, store>>
    /\ UNCHANGED <<state, server, signIn, requests, runtime, restarts>>

SocketAnswers ==
    /\ socket.at = "authenticating"
    /\ \/ /\ socket.token \notin refused
          /\ socket' = [socket EXCEPT !.at = "ready"]
          /\ UNCHANGED <<inv, store>>
       \/ socket.token \in refused /\ Invalidate
    /\ UNCHANGED <<state, server, signIn, requests, runtime, restarts>>

\* An error, a frame that cannot be read, the network.
SocketCloses ==
    /\ socket # Closed
    /\ socket' = Closed
    /\ UNCHANGED <<state, store, server, signIn, inv, requests, runtime, restarts>>

HandshakeTimesOut == socket.at = "authenticating" /\ SocketCloses

-----------------------------------------------------------------------------
(* Protected requests. *)

\* The schedule route while it is shown; the reminder engine while it runs or starts.
Sends(q) ==
    \/ q = "route" /\ state \in Sessions
    \/ q = "reminder" /\ (started \/ (lifecycle # <<>> /\ Head(lifecycle) = "start"))

(* A plausible bug: the request is sent whatever the controller's state. *)
SendWithoutSession(q) ==
    /\ Sends(q)
    /\ requests[q] = "none" /\ inv = "idle"
    /\ requests' = [requests EXCEPT ![q] = state]
    /\ UNCHANGED <<state, store, server, signIn, inv, socket, runtime, restarts>>

\* getProtectedToken: refused without a session or during an invalidation; an expired
\* session is invalidated first.
Send(q) ==
    /\ Sends(q)
    /\ requests[q] = "none" /\ inv = "idle" /\ state \in Sessions
    /\ IF state \in lapsed
       THEN Invalidate /\ requests' = [requests EXCEPT ![q] = "held"]
       ELSE requests' = [requests EXCEPT ![q] = state] /\ UNCHANGED <<inv, socket, store>>
    /\ UNCHANGED <<state, server, signIn, runtime, restarts>>

\* A 401 starts or joins an invalidation, whatever session is there by now, and awaits it.
Answered(q) ==
    /\ requests[q] \in Sessions
    /\ \/ requests' = [requests EXCEPT ![q] = "none"] /\ UNCHANGED <<inv, socket, store>>
       \/ /\ requests[q] \in refused
          /\ requests' = [requests EXCEPT ![q] = "held"]
          /\ Invalidate \/ (inv # "idle" /\ UNCHANGED <<inv, socket, store>>)
    /\ UNCHANGED <<state, server, signIn, runtime, restarts>>

-----------------------------------------------------------------------------
(* AppRuntime: the head of the chain is the call that runs. *)

\* startInternal may fail, and stops the modules it has started; it awaits what they send.
StartRuns ==
    /\ lifecycle # <<>> /\ Head(lifecycle) = "start"
    /\ started \/ requests["reminder"] = "none"
    /\ started' \in {TRUE, started}
    /\ lifecycle' = Tail(lifecycle)
    /\ UNCHANGED <<state, store, server, signIn, inv, socket, requests, restarts>>

\* stopInternal awaits the reminder's work, a request among it; it counts as stopped anyway.
StopRuns ==
    /\ lifecycle # <<>> /\ Head(lifecycle) # "start"
    /\ started => requests["reminder"] = "none"
    /\ started' = FALSE
    /\ lifecycle' = Tail(lifecycle)
    /\ IF Head(lifecycle) = "clean" THEN Release ELSE UNCHANGED <<inv, requests>>
    /\ UNCHANGED <<state, store, server, signIn, socket, restarts>>

-----------------------------------------------------------------------------
(* The environment. *)

Lapse(s) ==
    /\ s \in minted \ lapsed
    /\ lapsed' = lapsed \cup {s}
    /\ UNCHANGED <<state, store, minted, refused, signIn, inv, socket, requests, runtime, restarts>>

Refuse(s) ==
    /\ s \in minted \ refused
    /\ refused' = refused \cup {s}
    /\ UNCHANGED <<state, store, minted, lapsed, signIn, inv, socket, requests, runtime, restarts>>

\* The process is killed and starts again; operations in flight may have reached the store.
Restart ==
    /\ restarts < MaxRestarts
    /\ restarts' = restarts + 1
    /\ stored' \in {stored}
           \cup (IF native["login"] = "write" THEN {fresh} ELSE {})
           \cup (IF Clears # {} \/ native["boot"] = "purge" THEN {"none"} ELSE {})
    /\ state' = "loading"
    /\ native' = Reading
    /\ live' = {} /\ timer' = FALSE
    /\ login' = "idle" /\ fresh' = "none" /\ awaiting' = {}
    /\ inv' = "idle" /\ socket' = Closed
    /\ requests' = [q \in Requests |-> "none"]
    /\ lifecycle' = <<>> /\ started' = FALSE
    /\ UNCHANGED server

Next ==
    \/ ReadReturns \/ PurgeReturns \/ RetryInitialization
    \/ Authenticate \/ AccessAnswered \/ WriteReturns
    \/ \E o \in Owners : ClearReturns(o)
    \/ TimerFires
    \/ SignOut \/ CleanupTimesOut
    \/ Connect \/ SocketAnswers \/ SocketCloses
    \/ \E q \in Requests : Send(q) \/ Answered(q)
    \/ StartRuns \/ StopRuns
    \/ \E s \in Sessions : Lapse(s) \/ Refuse(s)
    \/ Restart

\* The store's operations return, the request for a token and the handshake are given up
\* after their time, and so is the clean-up.  Nothing makes a server answer a protected
\* request, or a native module stop.
Fairness ==
    /\ WF_vars(ReadReturns) /\ WF_vars(PurgeReturns) /\ WF_vars(WriteReturns)
    /\ \A o \in Owners : WF_vars(ClearReturns(o))
    /\ WF_vars(AccessAnswered)
    /\ WF_vars(HandshakeTimesOut)
    /\ WF_vars(CleanupTimesOut)

Spec == Init /\ [][Next]_vars /\ Fairness

-----------------------------------------------------------------------------
(* Properties. *)

TypeOK ==
    /\ state \in Waiting \cup Sessions
    /\ stored \in Sessions \cup {"none"}
    /\ minted \in SUBSET Sessions /\ lapsed \in SUBSET minted /\ refused \in SUBSET minted
    /\ native \in [Owners -> {"none", "read", "purge", "write", "clear"}]
    /\ live \in SUBSET Owners /\ timer \in BOOLEAN
    /\ login \in {"idle", "asking", "cancelling", "writing"}
    /\ fresh \in Sessions \cup {"none"}
    /\ awaiting \in SUBSET Owners
    /\ inv \in {"idle", "clearing", "cleaning"}
    /\ socket \in [at : {"closed", "authenticating", "ready"}, token : Sessions \cup {"none"}]
    /\ requests \in [Requests -> Sessions \cup {"none", "held"}]
    /\ lifecycle \in Seq({"start", "stop", "clean"})
    /\ started \in BOOLEAN
    /\ restarts \in 0 .. MaxRestarts

\* A socket is open only for the session that is signed in, and none is during an
\* invalidation: connect() and close() see to it together with the coordinator's flag.
SocketIsCurrent == socket # Closed => inv = "idle" /\ socket.token = state

\* On the login page, with no operation of the store under way, no record is left that
\* nobody will delete, unless the process ends first.
SignedOutIsForgotten ==
    state = "unauthenticated" /\ login \in {"idle", "asking"} /\ stored # "none"
        => timer \/ \E o \in Owners : native[o] # "none"

\* When the calls chained in AppRuntime are done, the reminder engine runs only for a session.
NoEngineWithoutAccount == lifecycle = <<>> /\ started => state \in Sessions

\* The session's three holders agree: what a signed-out account leaves behind is neither a
\* connection, nor a record, nor a running engine.
AccountIsAlone == SocketIsCurrent /\ SignedOutIsForgotten /\ NoEngineWithoutAccount

\* Restoring, signing in, an invalidation and a handshake come to an end, also when a 401
\* is awaited by the very engine whose stop the invalidation awaits.
ClientGoesOn ==
    /\ state = "loading" ~> state # "loading"
    /\ login # "idle" ~> login = "idle"
    /\ inv # "idle" ~> inv = "idle"
    /\ socket.at = "authenticating" ~> socket.at # "authenticating"

(* Not kept by the code; see the README. *)

\* AuthSessionDeletionRetrier: generations keep an old deletion from a newer session's record.
NewSessionKept ==
    state \in Sessions /\ inv = "idle" /\ login = "idle"
        => stored = state \/ \E o \in Owners : native[o] # "none"

\* A sign-out joins an invalidation of the session it is meant for.
SignOutIsHeard == state \in Sessions => inv # "cleaning"
=============================================================================
