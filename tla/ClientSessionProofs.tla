------------------------ MODULE ClientSessionProofs ------------------------
(***************************************************************************)
(* What a signed-out account leaves behind, for any number of tokens,       *)
(* background deletions and restarts.  The argument is about who still       *)
(* answers for the record: the generation's deletion, the retrier's timer,  *)
(* or a sign-in that will write the record again.                           *)
(***************************************************************************)
EXTENDS ClientSession, TLAPS

(* An operation of the store is under way only where its caller waits for it. *)
Owning ==
    /\ native["boot"] # "none" => state = "loading"
    /\ native["login"] = "write" => login = "writing"
    /\ native["inv"] = "clear" <=> inv = "clearing"

(* Nothing is invalidated or asked before a session has been there. *)
Booting ==
    state \in {"loading", "failed"} => inv = "idle" /\ \A q \in Requests : requests[q] = "none"

(* A sign-in happens on the login page; when it writes, every deletion it waited for is back. *)
SigningIn ==
    /\ login # "idle" => state = "unauthenticated"
    /\ login \in {"cancelling", "writing"} => fresh \in Sessions
    /\ login # "cancelling" => awaiting = {}

(* A generation is one deletion or the timer of its retry. *)
Generations ==
    /\ live \subseteq Clears
    /\ \A o, p \in live : o = p
    /\ timer => live = {}
    /\ "login" \in live => login \in {"idle", "asking"}

(* An invalidation's deletion is of the present generation, or a sign-in has yet to write. *)
Pending == inv = "clearing" => "inv" \in live \cup awaiting \/ login \in {"idle", "asking"}

(* A record that is to be forgotten has a deletion or a retry that answers for it. *)
Forgetting ==
    /\ state = "unauthenticated" \/ inv = "clearing" \/ native["boot"] = "clear"
    /\ login \in {"idle", "asking"} /\ stored # "none"
    => timer \/ live # {}

Current == socket # Closed => state \in Sessions /\ SocketIsCurrent

(* Without a session, the last call of the chain stops the engine. *)
EngineFollows ==
    state \notin Sessions =>
        IF lifecycle = <<>> THEN ~started ELSE lifecycle[Len(lifecycle)] \in {"stop", "clean"}

(* The chain holds one clean-up at most, that of the invalidation which waits for it. *)
Chained ==
    /\ \A i \in DOMAIN lifecycle : lifecycle[i] = "clean" => inv = "cleaning"
    /\ \A i, j \in DOMAIN lifecycle : lifecycle[i] = "clean" /\ lifecycle[j] = "clean" => i = j

IInv ==
    /\ TypeOK /\ Owning /\ Booting /\ SigningIn /\ Generations /\ Pending
    /\ Forgetting /\ Current /\ EngineFollows /\ Chained

Calls == {"start", "stop", "clean"}
Operations == {"none", "read", "purge", "write", "clear"}

LEMMA InitHolds == Init => IInv
<1> SUFFICES ASSUME Init PROVE IInv
  OBVIOUS
<1> USE DEF Init
<1>1. TypeOK
  <2>1. native \in [Owners -> Operations]
    BY DEF Reading, Operations
  <2>2. stored \in Sessions \cup {"none"} /\ minted \in SUBSET Sessions
    OBVIOUS
  <2>3. restarts \in 0 .. MaxRestarts
    BY ConstantsAssumption
  <2>4. <<>> \in Seq(Calls) /\ Closed \in [at : {"closed", "authenticating", "ready"}, token : Sessions \cup {"none"}]
    BY DEF Closed
  <2>5. requests \in [Requests -> Sessions \cup {"none", "held"}]
    OBVIOUS
  <2> QED
    BY <2>1, <2>2, <2>3, <2>4, <2>5 DEF TypeOK, Operations, Waiting, Calls
<1>2. Owning /\ Booting /\ Generations /\ Forgetting
  BY DEF Owning, Booting, Generations, Forgetting, Reading, Owners
<1>3. SigningIn /\ Pending /\ Current /\ EngineFollows /\ Chained
  BY DEF SigningIn, Pending, Current, EngineFollows, Chained
<1> QED
  BY <1>1, <1>2, <1>3 DEF IInv

-----------------------------------------------------------------------------
(* What the helpers do to the types of the variables they write.            *)

LEMMA ClearOrRetryType ==
    ASSUME TypeOK, NEW o \in Owners, ClearOrRetry(o)
    PROVE  native' \in [Owners -> Operations] /\ live' \in SUBSET Owners /\ timer' \in BOOLEAN
  BY DEF TypeOK, ClearOrRetry, Operations

LEMMA InvalidateType ==
    ASSUME TypeOK, Invalidate
    PROVE  /\ native' \in [Owners -> Operations] /\ live' \in SUBSET Owners /\ timer' \in BOOLEAN
           /\ stored' = stored /\ inv' = "clearing" /\ socket' = Closed
           /\ Closed \in [at : {"closed", "authenticating", "ready"}, token : Sessions \cup {"none"}]
<1>1. "inv" \in Owners
  BY DEF Owners
<1> QED
  BY <1>1, ClearOrRetryType DEF Invalidate, Closed

LEMMA PublishType ==
    ASSUME TypeOK, NEW s \in Waiting \cup Sessions, Publish(s)
    PROVE  /\ state' = s
           /\ requests' \in [Requests -> Sessions \cup {"none", "held"}]
           /\ Effect(s) \in Seq(Calls) /\ lifecycle \o Effect(s) \in Seq(Calls)
<1>1. requests' \in [Requests -> Sessions \cup {"none", "held"}]
  BY DEF TypeOK, Publish
<1>2. Effect(s) \in Seq(Calls)
  <2>1. <<"start">> \in Seq(Calls) /\ <<"stop">> \in Seq(Calls) /\ <<>> \in Seq(Calls)
    BY DEF Calls
  <2>2. Effect(s) \in {<<"start">>, <<"stop">>, <<>>}
    BY DEF Effect
  <2> QED
    BY <2>1, <2>2
<1>3. lifecycle \o Effect(s) \in Seq(Calls)
  BY <1>2 DEF TypeOK, Calls
<1> QED
  BY <1>1, <1>2, <1>3 DEF Publish

(* A chain that grows by one call, and what is left of one. *)
LEMMA LongerChain ==
    ASSUME NEW l \in Seq(Calls), NEW c \in Calls
    PROVE  /\ l \o <<>> = l
           /\ l \o <<c>> \in Seq(Calls) /\ Len(l \o <<c>>) = Len(l) + 1
           /\ (l \o <<c>>)[Len(l) + 1] = c
           /\ \A i \in DOMAIN (l \o <<c>>) : i = Len(l) + 1 \/ (i \in DOMAIN l /\ (l \o <<c>>)[i] = l[i])
  OBVIOUS

LEMMA RestOfChain ==
    ASSUME NEW l \in Seq(Calls), l # <<>>
    PROVE  /\ Tail(l) \in Seq(Calls)
           /\ Tail(l) = <<>> => l[Len(l)] = Head(l)
           /\ Tail(l) # <<>> => Tail(l)[Len(Tail(l))] = l[Len(l)]
  OBVIOUS

-----------------------------------------------------------------------------
LEMMA TypeStep == ASSUME TypeOK, Owning, SigningIn, Next PROVE TypeOK'
<1> USE DEF server, store, signIn, runtime
<1>1. CASE ReadReturns
  <2>0. UNCHANGED <<stored, server, signIn, inv, socket, started, restarts>>
    BY <1>1 DEF ReadReturns
  <2>1. CASE /\ state' = "failed" /\ native' = [native EXCEPT !["boot"] = "none"]
             /\ UNCHANGED <<live, timer, requests, lifecycle>>
    BY <2>0, <2>1 DEF TypeOK, Waiting
  <2> DEFINE s == IF stored = "none" THEN "unauthenticated" ELSE stored
  <2>2. CASE /\ Publish(s) /\ lifecycle' = lifecycle \o Effect(s)
             /\ native' = [native EXCEPT !["boot"] = "none"] /\ UNCHANGED <<live, timer>>
    <3>1. s \in Waiting \cup Sessions
      BY DEF TypeOK, Waiting
    <3> HIDE DEF s
    <3>2. state' \in Waiting \cup Sessions /\ lifecycle' \in Seq(Calls)
          /\ requests' \in [Requests -> Sessions \cup {"none", "held"}]
      BY <2>2, <3>1, PublishType
    <3> QED
      BY <2>0, <2>2, <3>2 DEF TypeOK, Calls
  <2>3. CASE ClearOrRetry("boot") /\ UNCHANGED <<state, requests, lifecycle>>
    BY <2>0, <2>3, ClearOrRetryType DEF TypeOK, Owners, Operations
  <2>4. CASE native' = [native EXCEPT !["boot"] = "purge"] /\ UNCHANGED <<live, timer, state, requests, lifecycle>>
    BY <2>0, <2>4 DEF TypeOK
  <2> QED
    BY <1>1, <2>1, <2>2, <2>3, <2>4 DEF ReadReturns
<1>2. CASE PurgeReturns
  <2>0. UNCHANGED <<server, signIn, inv, socket, runtime, restarts>>
    BY <1>2 DEF PurgeReturns
  <2>1. CASE /\ Publish("unauthenticated") /\ stored' = "none"
             /\ native' = [native EXCEPT !["boot"] = "none"] /\ UNCHANGED <<live, timer>>
    <3>1. state' \in Waiting \cup Sessions /\ requests' \in [Requests -> Sessions \cup {"none", "held"}]
      BY <2>1, PublishType DEF Waiting
    <3> QED
      BY <2>0, <2>1, <3>1 DEF TypeOK
  <2>2. CASE ClearOrRetry("boot") /\ UNCHANGED <<state, requests, stored>>
    BY <2>0, <2>2, ClearOrRetryType DEF TypeOK, Owners, Operations
  <2> QED
    BY <1>2, <2>1, <2>2 DEF PurgeReturns
<1>3. CASE RetryInitialization
  BY <1>3 DEF RetryInitialization, TypeOK, Waiting
<1>4. CASE Authenticate
  BY <1>4 DEF Authenticate, TypeOK
<1>5. CASE AccessAnswered
  BY <1>5 DEF AccessAnswered, TypeOK, Clears
<1>6. CASE WriteReturns
  <2>0. login' = "idle" /\ fresh' = "none" /\ UNCHANGED <<server, awaiting, inv, socket, started, restarts>>
    BY <1>6 DEF WriteReturns
  <2>1. fresh \in Sessions
    BY <1>6 DEF WriteReturns, Owning, SigningIn
  <2>2. CASE /\ Publish(fresh) /\ lifecycle' = lifecycle \o Effect(fresh) /\ stored' = fresh
             /\ native' = [native EXCEPT !["login"] = "none"] /\ UNCHANGED <<live, timer>>
    <3>1. state' \in Waiting \cup Sessions /\ lifecycle' \in Seq(Calls)
          /\ requests' \in [Requests -> Sessions \cup {"none", "held"}]
      BY <2>1, <2>2, PublishType
    <3> QED
      BY <2>0, <2>1, <2>2, <3>1 DEF TypeOK, Calls
  <2>3. CASE ClearOrRetry("login") /\ stored' \in {stored, fresh}
             /\ UNCHANGED <<state, requests, lifecycle>>
    BY <2>0, <2>1, <2>3, ClearOrRetryType DEF TypeOK, Owners, Operations
  <2> QED
    BY <1>6, <2>2, <2>3 DEF WriteReturns
<1>7. ASSUME NEW o \in Owners, ClearReturns(o) PROVE TypeOK'
  <2>1. stored' \in Sessions \cup {"none"} /\ timer' \in BOOLEAN /\ live' \in SUBSET Owners
    BY <1>7 DEF ClearReturns, Deleted, TypeOK
  <2>2. /\ native' \in [Owners -> Operations] /\ awaiting' \in SUBSET Owners
        /\ login' \in {"idle", "asking", "cancelling", "writing"}
    BY <1>7 DEF ClearReturns, Waited, TypeOK, Operations
  <2>3. /\ state' \in Waiting \cup Sessions /\ requests' \in [Requests -> Sessions \cup {"none", "held"}]
        /\ lifecycle' \in Seq(Calls) /\ inv' \in {"idle", "clearing", "cleaning"}
    <3>1. CASE o = "boot" \/ o = "inv"
      <4>1. Publish("unauthenticated") /\ "unauthenticated" \in Waiting
        BY <1>7, <3>1 DEF ClearReturns, Waiting
      <4>2. /\ state' = "unauthenticated" /\ requests' \in [Requests -> Sessions \cup {"none", "held"}]
            /\ lifecycle \o Effect("unauthenticated") \in Seq(Calls)
        BY <4>1, PublishType
      <4>3. lifecycle \o Effect("unauthenticated") \o <<"clean">> \in Seq(Calls)
        BY <4>2 DEF Calls
      <4> QED
        BY <1>7, <3>1, <4>1, <4>2, <4>3 DEF ClearReturns, TypeOK, Calls
    <3>2. CASE o # "boot" /\ o # "inv"
      BY <1>7, <3>2 DEF ClearReturns, TypeOK, Calls
    <3> QED
      BY <3>1, <3>2
  <2> QED
    BY <1>7, <2>1, <2>2, <2>3 DEF ClearReturns, TypeOK, Operations, Calls
<1>8. CASE TimerFires
  BY <1>8 DEF TimerFires, TypeOK, Owners
<1>9. CASE SignOut
  BY <1>9, InvalidateType DEF SignOut, TypeOK, Operations
<1>10. CASE CleanupTimesOut
  BY <1>10 DEF CleanupTimesOut, Release, TypeOK
<1>11. CASE Connect
  <2>1. CASE Invalidate
    BY <1>11, <2>1, InvalidateType DEF Connect, TypeOK, Operations
  <2>2. CASE socket' = Open(state) /\ UNCHANGED <<inv, store>>
    BY <1>11, <2>2 DEF Connect, TypeOK, Open
  <2> QED
    BY <1>11, <2>1, <2>2 DEF Connect
<1>12. CASE SocketAnswers
  <2>1. CASE Invalidate
    BY <1>12, <2>1, InvalidateType DEF SocketAnswers, TypeOK, Operations
  <2>2. CASE socket' = [socket EXCEPT !.at = "ready"] /\ UNCHANGED <<inv, store>>
    BY <1>12, <2>2 DEF SocketAnswers, TypeOK
  <2> QED
    BY <1>12, <2>1, <2>2 DEF SocketAnswers
<1>13. CASE SocketCloses
  BY <1>13 DEF SocketCloses, Closed, TypeOK
<1>14. ASSUME NEW q \in Requests, Send(q) \/ Answered(q) PROVE TypeOK'
  <2>1. requests' \in [Requests -> Sessions \cup {"none", "held"}]
    BY <1>14 DEF Send, Answered, TypeOK
  <2>2. CASE Invalidate
    BY <1>14, <2>1, <2>2, InvalidateType DEF Send, Answered, TypeOK, Operations
  <2>3. CASE UNCHANGED <<inv, socket, store>>
    BY <1>14, <2>1, <2>3 DEF Send, Answered, TypeOK
  <2> QED
    BY <1>14, <2>2, <2>3 DEF Send, Answered
<1>15. CASE StartRuns
  <2>1. Tail(lifecycle) \in Seq(Calls)
    BY <1>15, RestOfChain DEF StartRuns, TypeOK, Calls
  <2>2. started' \in BOOLEAN
    BY <1>15 DEF StartRuns, TypeOK
  <2>3. lifecycle' = Tail(lifecycle) /\ UNCHANGED <<state, store, server, signIn, inv, socket, requests, restarts>>
    BY <1>15 DEF StartRuns
  <2> QED
    BY <2>1, <2>2, <2>3 DEF TypeOK, Calls
<1>16. CASE StopRuns
  <2>1. Tail(lifecycle) \in Seq(Calls)
    BY <1>16, RestOfChain DEF StopRuns, TypeOK, Calls
  <2>2. inv' \in {"idle", "clearing", "cleaning"} /\ requests' \in [Requests -> Sessions \cup {"none", "held"}]
    BY <1>16 DEF StopRuns, Release, TypeOK
  <2> QED
    BY <1>16, <2>1, <2>2 DEF StopRuns, TypeOK, Calls
<1>17. ASSUME NEW s \in Sessions, Lapse(s) \/ Refuse(s) PROVE TypeOK'
  BY <1>17 DEF Lapse, Refuse, TypeOK
<1>18. CASE Restart
  <2>1. stored' \in Sessions \cup {"none"}
    BY <1>18 DEF Restart, TypeOK
  <2>2. native' \in [Owners -> Operations]
    BY <1>18 DEF Restart, Reading, Operations
  <2>3. restarts' \in 0 .. MaxRestarts
    BY <1>18, ConstantsAssumption DEF Restart, TypeOK
  <2>4. <<>> \in Seq(Calls) /\ Closed \in [at : {"closed", "authenticating", "ready"}, token : Sessions \cup {"none"}]
    BY DEF Closed
  <2>5. /\ state' = "loading" /\ live' = {} /\ timer' = FALSE /\ login' = "idle" /\ fresh' = "none"
        /\ awaiting' = {} /\ inv' = "idle" /\ socket' = Closed /\ lifecycle' = <<>> /\ started' = FALSE
        /\ requests' = [q \in Requests |-> "none"] /\ UNCHANGED server
    BY <1>18 DEF Restart
  <2> QED
    BY <2>1, <2>2, <2>3, <2>4, <2>5 DEF TypeOK, Waiting, Operations, Calls
<1> QED
  BY <1>1, <1>2, <1>3, <1>4, <1>5, <1>6, <1>7, <1>8, <1>9, <1>10, <1>11, <1>12, <1>13, <1>14,
     <1>15, <1>16, <1>17, <1>18 DEF Next

LEMMA OwningStep == ASSUME IInv, Next PROVE Owning'
<1> USE DEF IInv, TypeOK, Owning, store, signIn
<1>1. CASE ReadReturns
  BY <1>1, ConstantsAssumption DEF ReadReturns, Publish, ClearOrRetry, Owners
<1>2. CASE PurgeReturns
  BY <1>2 DEF PurgeReturns, Publish, ClearOrRetry, Owners
<1>3. CASE RetryInitialization
  BY <1>3 DEF RetryInitialization, Owners
<1>4. CASE Authenticate
  BY <1>4 DEF Authenticate
<1>5. CASE AccessAnswered
  BY <1>5 DEF AccessAnswered, Owners
<1>6. CASE WriteReturns
  BY <1>6 DEF WriteReturns, Publish, ClearOrRetry, Owners, SigningIn
<1>7. ASSUME NEW o \in Owners, ClearReturns(o) PROVE Owning'
  <2>1. native'[o] # "clear" /\ (o # "login" => native'[o] = "none")
    BY <1>7 DEF ClearReturns, Waited, Owners
  <2>2. \A x \in Owners \ {o, "login"} : native'[x] = native[x]
    BY <1>7 DEF ClearReturns, Waited
  <2>3. native'["login"] = "write" => login' = "writing"
    BY <1>7 DEF ClearReturns, Waited, Owners, SigningIn
  <2>4. native'["inv"] = "clear" <=> inv' = "clearing"
    BY <1>7, <2>1, <2>2 DEF ClearReturns, Owners
  <2>5. native'["boot"] # "none" => state' = "loading"
    <3>1. CASE o = "boot"
      BY <2>1, <3>1
    <3>2. CASE o = "inv"
      <4>1. native["boot"] = "none"
        BY <1>7, <3>2 DEF ClearReturns, Booting
      <4> QED
        BY <2>2, <3>2, <4>1 DEF Owners
    <3>3. CASE o # "boot" /\ o # "inv"
      BY <1>7, <2>2, <3>3 DEF ClearReturns, Owners
    <3> QED
      BY <3>1, <3>2, <3>3
  <2> QED
    BY <2>3, <2>4, <2>5
<1>8. CASE TimerFires
  BY <1>8, ConstantsAssumption DEF TimerFires, Owners
<1>9. CASE SignOut
  BY <1>9 DEF SignOut, Invalidate, ClearOrRetry, Owners
<1>10. CASE CleanupTimesOut
  BY <1>10 DEF CleanupTimesOut, Release
<1>11. CASE Connect
  BY <1>11 DEF Connect, Invalidate, ClearOrRetry, Owners
<1>12. CASE SocketAnswers
  BY <1>12 DEF SocketAnswers, Invalidate, ClearOrRetry, Owners
<1>13. CASE SocketCloses
  BY <1>13 DEF SocketCloses
<1>14. ASSUME NEW q \in Requests, Send(q) \/ Answered(q) PROVE Owning'
  BY <1>14 DEF Send, Answered, Invalidate, ClearOrRetry, Owners
<1>15. CASE StartRuns
  BY <1>15 DEF StartRuns
<1>16. CASE StopRuns
  BY <1>16 DEF StopRuns, Release, Chained
<1>17. ASSUME NEW s \in Sessions, Lapse(s) \/ Refuse(s) PROVE Owning'
  BY <1>17 DEF Lapse, Refuse
<1>18. CASE Restart
  BY <1>18 DEF Restart, Reading, Owners
<1> QED
  BY <1>1, <1>2, <1>3, <1>4, <1>5, <1>6, <1>7, <1>8, <1>9, <1>10, <1>11, <1>12, <1>13, <1>14,
     <1>15, <1>16, <1>17, <1>18 DEF Next

LEMMA BootingStep == ASSUME IInv, Next PROVE Booting'
<1> USE DEF IInv, TypeOK, Owning, Booting
<1>1. CASE ReadReturns
  <2>1. state = "loading" /\ UNCHANGED inv /\ \A q \in Requests : requests[q] = "none"
    BY <1>1 DEF ReadReturns
  <2>2. requests' = requests
    BY <1>1, <2>1, ConstantsAssumption DEF ReadReturns, Publish, Requests
  <2> QED
    BY <2>1, <2>2
<1>2. CASE PurgeReturns
  BY <1>2, ConstantsAssumption DEF PurgeReturns, Publish, Requests
<1>3. CASE RetryInitialization
  BY <1>3 DEF RetryInitialization
<1>4. CASE WriteReturns
  <2>1. state' \notin {"loading", "failed"}
    BY <1>4, ConstantsAssumption DEF WriteReturns, Publish, SigningIn, Waiting
  <2> QED
    BY <2>1
<1>5. ASSUME NEW o \in Owners, ClearReturns(o) PROVE Booting'
  <2>1. CASE o = "boot" \/ o = "inv"
    BY <1>5, <2>1 DEF ClearReturns, Publish
  <2>2. CASE o # "boot" /\ o # "inv"
    BY <1>5, <2>2 DEF ClearReturns
  <2> QED
    BY <2>1, <2>2
<1>6. CASE SignOut \/ Connect
  BY <1>6, ConstantsAssumption DEF SignOut, Connect, Waiting
<1>7. CASE SocketAnswers
  BY <1>7, ConstantsAssumption DEF SocketAnswers, Current, Closed, Waiting
<1>8. CASE CleanupTimesOut \/ StopRuns
  BY <1>8 DEF CleanupTimesOut, StopRuns, Release
<1>9. ASSUME NEW q \in Requests, Send(q) \/ Answered(q) PROVE Booting'
  BY <1>9, ConstantsAssumption DEF Send, Answered, Waiting
<1>10. CASE Restart
  BY <1>10 DEF Restart
<1>11. CASE Authenticate \/ AccessAnswered \/ TimerFires \/ SocketCloses \/ StartRuns
  BY <1>11 DEF Authenticate, AccessAnswered, TimerFires, SocketCloses, StartRuns
<1>12. ASSUME NEW s \in Sessions, Lapse(s) \/ Refuse(s) PROVE Booting'
  BY <1>12 DEF Lapse, Refuse
<1> QED
  BY <1>1, <1>2, <1>3, <1>4, <1>5, <1>6, <1>7, <1>8, <1>9, <1>10, <1>11, <1>12 DEF Next

LEMMA SigningInStep == ASSUME IInv, Next PROVE SigningIn'
<1> USE DEF IInv, TypeOK, SigningIn
<1>1. CASE ReadReturns \/ PurgeReturns
  <2>1. login = "idle"
    BY <1>1 DEF ReadReturns, PurgeReturns, Owning
  <2> QED
    BY <1>1, <2>1 DEF ReadReturns, PurgeReturns, signIn
<1>2. CASE RetryInitialization
  BY <1>2 DEF RetryInitialization, signIn
<1>3. CASE Authenticate
  BY <1>3 DEF Authenticate
<1>4. CASE AccessAnswered
  BY <1>4 DEF AccessAnswered
<1>5. CASE WriteReturns
  BY <1>5 DEF WriteReturns, Owning
<1>6. ASSUME NEW o \in Owners, ClearReturns(o) PROVE SigningIn'
  <2>1. state' \in {state, "unauthenticated"} /\ fresh' = fresh
    BY <1>6 DEF ClearReturns, Publish
  <2>2. /\ login' = "idle" <=> login = "idle"
        /\ login' \in {"cancelling", "writing"} <=> login \in {"cancelling", "writing"}
        /\ login' # "cancelling" => awaiting' = {}
    BY <1>6 DEF ClearReturns, Waited
  <2> QED
    BY <2>1, <2>2
<1>7. CASE SignOut \/ Connect \/ SocketAnswers \/ SocketCloses \/ CleanupTimesOut \/ TimerFires
           \/ StartRuns \/ StopRuns
  BY <1>7 DEF SignOut, Connect, SocketAnswers, SocketCloses, CleanupTimesOut, TimerFires,
              StartRuns, StopRuns, signIn
<1>8. ASSUME NEW q \in Requests, Send(q) \/ Answered(q) PROVE SigningIn'
  BY <1>8 DEF Send, Answered, signIn
<1>9. ASSUME NEW s \in Sessions, Lapse(s) \/ Refuse(s) PROVE SigningIn'
  BY <1>9 DEF Lapse, Refuse, signIn
<1>10. CASE Restart
  BY <1>10 DEF Restart
<1> QED
  BY <1>1, <1>2, <1>3, <1>4, <1>5, <1>6, <1>7, <1>8, <1>9, <1>10 DEF Next

LEMMA ChainedStep == ASSUME IInv, Next PROVE Chained'
<1> USE DEF IInv, Chained
<1> DEFINE l == lifecycle
<1>0. l \in Seq(Calls)
  BY DEF TypeOK, Calls
<1>1. ASSUME NEW s, lifecycle' = l \o Effect(s), UNCHANGED inv PROVE Chained'
  <2>1. Effect(s) \in {<<"start">>, <<"stop">>, <<>>}
    BY DEF Effect
  <2>2. \A i \in DOMAIN lifecycle' :
           lifecycle'[i] = "clean" => i \in DOMAIN l /\ l[i] = "clean"
    BY <1>0, <1>1, <2>1, LongerChain DEF Calls
  <2> QED
    BY <1>1, <2>2
<1>2. CASE UNCHANGED <<lifecycle, inv>>
  BY <1>2
<1>3. CASE inv = "idle" /\ inv' = "clearing" /\ UNCHANGED lifecycle
  BY <1>3
<1>4. ASSUME ClearReturns("inv") PROVE Chained'
  <2>1. lifecycle' = l \o Effect("unauthenticated") \o <<"clean">> /\ inv' = "cleaning"
    BY <1>4, ConstantsAssumption DEF ClearReturns
  <2>2. \A i \in DOMAIN l : l[i] # "clean"
    BY <1>4 DEF ClearReturns, Owning
  <2>3. Effect("unauthenticated") \in {<<"start">>, <<"stop">>, <<>>}
    BY DEF Effect
  <2> DEFINE k == l \o Effect("unauthenticated")
  <2>4. k \in Seq(Calls) /\ \A i \in DOMAIN k : k[i] # "clean"
    <3>1. CASE Effect("unauthenticated") = <<>>
      <4>1. k = l \o <<>>
        BY <3>1
      <4> HIDE DEF k
      <4>2. k = l
        BY <1>0, <4>1
      <4> QED
        BY <1>0, <2>2, <4>2
    <3>2. ASSUME NEW c \in Calls \ {"clean"}, Effect("unauthenticated") = <<c>>
          PROVE  k \in Seq(Calls) /\ \A i \in DOMAIN k : k[i] # "clean"
      <4>1. k = l \o <<c>>
        BY <3>2
      <4> HIDE DEF k
      <4>2. \A i \in DOMAIN k : i = Len(l) + 1 \/ (i \in DOMAIN l /\ k[i] = l[i])
        BY <1>0, <4>1, LongerChain
      <4>3. k \in Seq(Calls) /\ k[Len(l) + 1] = c
        BY <1>0, <4>1, LongerChain
      <4> QED
        BY <2>2, <4>2, <4>3
    <3> QED
      BY <2>3, <3>1, <3>2 DEF Calls
  <2>5. \A i \in DOMAIN lifecycle' : lifecycle'[i] = "clean" => i = Len(k) + 1
    <3> HIDE DEF k
    <3>1. lifecycle' = k \o <<"clean">>
      BY <2>1 DEF k
    <3> QED
      BY <2>4, <3>1, LongerChain DEF Calls
  <2> QED
    BY <2>1, <2>5
<1>5. CASE CleanupTimesOut
  BY <1>5 DEF CleanupTimesOut
<1>6. CASE StartRuns \/ StopRuns
  <2>1. l # <<>> /\ lifecycle' = Tail(l)
    BY <1>6 DEF StartRuns, StopRuns
  <2>2. \A i \in DOMAIN lifecycle' : i + 1 \in DOMAIN l /\ lifecycle'[i] = l[i + 1]
    BY <1>0, <2>1
  <2>3. Head(l) = l[1] /\ 1 \in DOMAIN l /\ \A i \in DOMAIN lifecycle' : i \in Nat \ {0}
    BY <1>0, <2>1
  <2>4. \A i \in DOMAIN lifecycle' : lifecycle'[i] = "clean" => inv' = "cleaning"
    <3>1. CASE Head(l) = "clean"
      BY <2>2, <2>3, <3>1
    <3>2. CASE Head(l) # "clean"
      BY <1>6, <2>2, <3>2 DEF StartRuns, StopRuns
    <3> QED
      BY <3>1, <3>2
  <2>5. \A i, j \in DOMAIN lifecycle' : lifecycle'[i] = "clean" /\ lifecycle'[j] = "clean" => i = j
    BY <2>2, <2>3
  <2> QED
    BY <2>4, <2>5
<1>7. CASE Restart
  BY <1>7 DEF Restart
<1>8. CASE ReadReturns \/ WriteReturns \/ PurgeReturns \/ RetryInitialization
  BY <1>1, <1>2, <1>8 DEF ReadReturns, WriteReturns, PurgeReturns, RetryInitialization, runtime
<1>9. ASSUME NEW o \in Owners \ {"inv"}, ClearReturns(o) PROVE Chained'
  BY <1>2, <1>9 DEF ClearReturns
<1>10. CASE SignOut \/ Connect \/ SocketAnswers
  BY <1>2, <1>3, <1>10 DEF SignOut, Connect, SocketAnswers, Invalidate, runtime
<1>11. ASSUME NEW q \in Requests, Send(q) \/ Answered(q) PROVE Chained'
  BY <1>2, <1>3, <1>11 DEF Send, Answered, Invalidate, runtime
<1>12. CASE Authenticate \/ AccessAnswered \/ TimerFires \/ SocketCloses
  BY <1>2, <1>12 DEF Authenticate, AccessAnswered, TimerFires, SocketCloses, runtime
<1>13. ASSUME NEW s \in Sessions, Lapse(s) \/ Refuse(s) PROVE Chained'
  BY <1>2, <1>13 DEF Lapse, Refuse, runtime
<1> QED
  BY <1>4, <1>5, <1>6, <1>7, <1>8, <1>9, <1>10, <1>11, <1>12, <1>13 DEF Next

LEMMA GenerationsStep == ASSUME IInv, Next PROVE Generations'
<1> USE DEF IInv, TypeOK, Generations, Clears
<1>0. ASSUME NEW o \in Owners, ClearOrRetry(o), login' \in {"idle", "asking"} \/ o # "login"
      PROVE  Generations'
  <2>1. live' = {o} /\ native'[o] = "clear" /\ timer' = FALSE
    BY <1>0 DEF ClearOrRetry
  <2> QED
    BY <1>0, <2>1
<1>1. CASE ReadReturns \/ PurgeReturns
  <2>1. CASE ClearOrRetry("boot")
    BY <1>0, <2>1 DEF Owners
  <2>2. CASE UNCHANGED <<live, timer>>
    <3>1. "boot" \notin live /\ login' = login /\ \A o \in Owners \ {"boot"} : native'[o] = native[o]
      BY <1>1, <2>2 DEF ReadReturns, PurgeReturns, signIn, ClearOrRetry
    <3> QED
      BY <2>2, <3>1
  <2> QED
    BY <1>1, <2>1, <2>2 DEF ReadReturns, PurgeReturns
<1>2. CASE RetryInitialization
  <2>1. "boot" \notin live /\ \A o \in Owners \ {"boot"} : native'[o] = native[o]
    BY <1>2 DEF RetryInitialization, Owning
  <2> QED
    BY <1>2, <2>1 DEF RetryInitialization, signIn
<1>3. CASE Authenticate
  BY <1>3 DEF Authenticate, store
<1>4. CASE AccessAnswered
  BY <1>4 DEF AccessAnswered
<1>5. CASE WriteReturns
  <2>1. CASE ClearOrRetry("login")
    BY <1>0, <1>5, <2>1 DEF WriteReturns, Owners
  <2>2. CASE native' = [native EXCEPT !["login"] = "none"] /\ UNCHANGED <<live, timer>>
    <3>1. "login" \notin live /\ \A o \in Owners \ {"login"} : native'[o] = native[o]
      BY <1>5, <2>2 DEF WriteReturns
    <3> QED
      BY <2>2, <3>1
  <2> QED
    BY <1>5, <2>1, <2>2 DEF WriteReturns
<1>6. ASSUME NEW o \in Owners, ClearReturns(o) PROVE Generations'
  <2>1. live' = live \ {o} /\ (timer' => timer \/ o \in live)
    BY <1>6 DEF ClearReturns, Deleted
  <2>2. /\ login = "cancelling" => "login" \notin live
        /\ login' \in {"cancelling", "writing"} => login \in {"cancelling", "writing"}
        /\ \A x \in Owners \ {o, "login"} : native'[x] = native[x]
        /\ login # "cancelling" /\ o # "login" => native'["login"] = native["login"]
    <3>1. Waited(o)
      BY <1>6 DEF ClearReturns
    <3>2. login # "cancelling" => awaiting # {o} /\ login' = login
      BY <3>1 DEF Waited, SigningIn
    <3>3. login' \in {"cancelling", "writing"} => login \in {"cancelling", "writing"}
      BY <3>2
    <3>4. \A x \in Owners \ {o, "login"} : native'[x] = native[x]
      BY <3>1 DEF Waited
    <3>5. login # "cancelling" /\ o # "login" => native'["login"] = native["login"]
      BY <3>1, <3>2 DEF Waited, Owners
    <3> QED
      BY <3>3, <3>4, <3>5
  <2>3. live' \subseteq {x \in Owners : native'[x] = "clear"}
    <3>1. ASSUME NEW x \in live' PROVE native'[x] = "clear"
      <4>1. x \in live /\ x # o /\ native[x] = "clear"
        BY <2>1, <3>1
      <4>2. x = "login" => login # "cancelling"
        BY <2>2, <4>1
      <4>3. native'[x] = native[x]
        BY <2>2, <4>1, <4>2
      <4> QED
        BY <4>1, <4>3
    <3> QED
      BY <2>1, <3>1
  <2>4. timer' => live' = {}
    BY <2>1
  <2>5. "login" \in live' => login' \in {"idle", "asking"}
    <3>1. login' \in {"idle", "asking", "cancelling", "writing"}
      BY <1>6 DEF ClearReturns, Waited
    <3> QED
      BY <2>1, <2>2, <3>1
  <2> QED
    BY <2>1, <2>3, <2>4, <2>5
<1>7. CASE TimerFires
  <2>1. PICK r \in Retries : native' = [native EXCEPT ![r] = "clear"] /\ live' = {r}
    BY <1>7 DEF TimerFires
  <2> QED
    BY <1>7, <2>1, ConstantsAssumption DEF TimerFires, Owners
<1>8. ASSUME Invalidate, UNCHANGED signIn PROVE Generations'
  BY <1>0, <1>8 DEF Invalidate, Owners
<1>9. CASE UNCHANGED <<native, live, timer, login>>
  BY <1>9
<1>10. CASE SignOut \/ Connect \/ SocketAnswers
  BY <1>8, <1>9, <1>10 DEF SignOut, Connect, SocketAnswers, store, signIn
<1>11. ASSUME NEW q \in Requests, Send(q) \/ Answered(q) PROVE Generations'
  BY <1>8, <1>9, <1>11 DEF Send, Answered, store, signIn
<1>12. CASE CleanupTimesOut \/ SocketCloses \/ StartRuns \/ StopRuns
  BY <1>9, <1>12 DEF CleanupTimesOut, SocketCloses, StartRuns, StopRuns, store, signIn
<1>13. ASSUME NEW s \in Sessions, Lapse(s) \/ Refuse(s) PROVE Generations'
  BY <1>9, <1>13 DEF Lapse, Refuse, store, signIn
<1>14. CASE Restart
  BY <1>14 DEF Restart
<1> QED
  BY <1>1, <1>2, <1>3, <1>4, <1>5, <1>6, <1>7, <1>10, <1>11, <1>12, <1>13, <1>14 DEF Next

LEMMA PendingStep == ASSUME IInv, Next PROVE Pending'
<1> USE DEF IInv, Pending
<1>1. CASE ReadReturns \/ PurgeReturns
  BY <1>1 DEF ReadReturns, PurgeReturns, Owning, SigningIn, signIn
<1>2. CASE AccessAnswered
  <2>1. inv = "clearing" => "inv" \in Clears
    BY DEF Owning, Clears, Owners
  <2> QED
    BY <1>2, <2>1 DEF AccessAnswered
<1>3. CASE Authenticate \/ WriteReturns
  BY <1>3 DEF Authenticate, WriteReturns
<1>4. ASSUME NEW o \in Owners, ClearReturns(o) PROVE Pending'
  <2>1. live' = live \ {o} /\ awaiting' = awaiting \ {o}
    BY <1>4 DEF ClearReturns, Deleted, Waited
  <2>2. login \in {"idle", "asking"} => login' = login
    BY <1>4 DEF ClearReturns, Waited, SigningIn
  <2>3. inv' = "clearing" => inv = "clearing" /\ o # "inv"
    BY <1>4 DEF ClearReturns, TypeOK
  <2> QED
    BY <2>1, <2>2, <2>3
<1>5. CASE TimerFires
  BY <1>5 DEF TimerFires, Generations, signIn
<1>6. ASSUME Invalidate PROVE Pending'
  BY <1>6 DEF Invalidate, ClearOrRetry
<1>7. CASE UNCHANGED <<inv, live, awaiting, login>>
  BY <1>7
<1>8. CASE SignOut \/ Connect \/ SocketAnswers
  BY <1>6, <1>7, <1>8 DEF SignOut, Connect, SocketAnswers, store, signIn
<1>9. ASSUME NEW q \in Requests, Send(q) \/ Answered(q) PROVE Pending'
  BY <1>6, <1>7, <1>9 DEF Send, Answered, store, signIn
<1>10. CASE CleanupTimesOut \/ StopRuns \/ Restart
  BY <1>10 DEF CleanupTimesOut, StopRuns, Restart, Release, store, signIn
<1>11. CASE RetryInitialization \/ SocketCloses \/ StartRuns
  BY <1>7, <1>11 DEF RetryInitialization, SocketCloses, StartRuns, store, signIn
<1>12. ASSUME NEW s \in Sessions, Lapse(s) \/ Refuse(s) PROVE Pending'
  BY <1>7, <1>12 DEF Lapse, Refuse, store, signIn
<1> QED
  BY <1>1, <1>2, <1>3, <1>4, <1>5, <1>8, <1>9, <1>10, <1>11, <1>12 DEF Next

LEMMA ForgettingStep == ASSUME IInv, Next PROVE Forgetting'
<1> USE DEF IInv, Forgetting
<1>1. CASE ReadReturns
  <2>1. CASE ClearOrRetry("boot")
    BY <2>1 DEF ClearOrRetry
  <2>2. CASE state' = "failed" /\ native'["boot"] # "clear"
    BY <1>1, <2>2 DEF ReadReturns, Booting, Owning
  <2>3. CASE state' = "unauthenticated" /\ stored = "none"
    BY <1>1, <2>3 DEF ReadReturns
  <2>4. CASE state' \in Sessions \cup {"loading"} /\ native'["boot"] # "clear"
    BY <1>1, <2>4, ConstantsAssumption DEF ReadReturns, Booting, Owning, Waiting
  <2> QED
    BY <1>1, <2>1, <2>2, <2>3, <2>4 DEF ReadReturns, Publish, TypeOK, Owning, Owners
<1>2. CASE PurgeReturns
  BY <1>2 DEF PurgeReturns, ClearOrRetry
<1>3. CASE RetryInitialization
  BY <1>3 DEF RetryInitialization, Booting, TypeOK, Owners
<1>4. CASE Authenticate
  BY <1>4 DEF Authenticate, store
<1>5. CASE AccessAnswered
  BY <1>5 DEF AccessAnswered
<1>6. CASE WriteReturns
  <2>1. CASE ClearOrRetry("login")
    BY <2>1 DEF ClearOrRetry
  <2>2. CASE Publish(fresh) /\ native' = [native EXCEPT !["login"] = "none"] /\ UNCHANGED <<live, timer>>
    <3>1. state' \in Sessions /\ state' # "unauthenticated"
      BY <1>6, <2>2, ConstantsAssumption DEF WriteReturns, Publish, Owning, SigningIn, Waiting
    <3>2. native'["boot"] # "clear"
      BY <1>6, <2>2 DEF WriteReturns, Owning, SigningIn, TypeOK, Owners
    <3>3. inv' = "clearing" => "inv" \in live'
      BY <1>6, <2>2 DEF WriteReturns, Owning, SigningIn, Pending
    <3> QED
      BY <3>1, <3>2, <3>3
  <2> QED
    BY <1>6, <2>1, <2>2 DEF WriteReturns
<1>7. ASSUME NEW o \in Owners, ClearReturns(o) PROVE Forgetting'
  <2>1. login' \in {"idle", "asking"} => login \in {"idle", "asking"}
    BY <1>7 DEF ClearReturns, Waited, TypeOK
  <2>2. state' = "unauthenticated" \/ inv' = "clearing" \/ native'["boot"] = "clear"
           => state = "unauthenticated" \/ inv = "clearing" \/ native["boot"] = "clear"
    <3>1. CASE o = "boot" \/ o = "inv"
      BY <1>7, <3>1 DEF ClearReturns, Owning
    <3>2. CASE o # "boot" /\ o # "inv"
      <4>1. state' = state /\ inv' = inv
        BY <1>7, <3>2 DEF ClearReturns
      <4>2. native'["boot"] = native["boot"]
        BY <1>7, <3>2 DEF ClearReturns, Waited, TypeOK, Owners
      <4> QED
        BY <4>1, <4>2
    <3> QED
      BY <3>1, <3>2
  <2>3. stored' # "none" => stored # "none" /\ live' = live \ {o} /\ timer' = (timer \/ o \in live)
    BY <1>7 DEF ClearReturns, Deleted
  <2>4. stored' # "none" /\ (timer \/ live # {}) => timer' \/ live' # {}
    BY <1>7, <2>3 DEF ClearReturns, Deleted
  <2> QED
    BY <2>1, <2>2, <2>3, <2>4
<1>8. CASE TimerFires
  BY <1>8 DEF TimerFires
<1>9. ASSUME Invalidate PROVE Forgetting'
  BY <1>9 DEF Invalidate, ClearOrRetry
<1>10. CASE UNCHANGED <<state, store, login>> /\ (inv' = "clearing" => inv = "clearing")
  BY <1>10 DEF store
<1>11. CASE SignOut \/ Connect \/ SocketAnswers
  BY <1>9, <1>10, <1>11 DEF SignOut, Connect, SocketAnswers, signIn
<1>12. ASSUME NEW q \in Requests, Send(q) \/ Answered(q) PROVE Forgetting'
  BY <1>9, <1>10, <1>12 DEF Send, Answered, signIn
<1>13. CASE CleanupTimesOut \/ SocketCloses \/ StartRuns \/ StopRuns
  BY <1>10, <1>13 DEF CleanupTimesOut, SocketCloses, StartRuns, StopRuns, Release, signIn
<1>14. ASSUME NEW s \in Sessions, Lapse(s) \/ Refuse(s) PROVE Forgetting'
  BY <1>10, <1>14 DEF Lapse, Refuse, signIn
<1>15. CASE Restart
  BY <1>15 DEF Restart, Reading, Owners
<1> QED
  BY <1>1, <1>2, <1>3, <1>4, <1>5, <1>6, <1>7, <1>8, <1>11, <1>12, <1>13, <1>14, <1>15 DEF Next

LEMMA CurrentStep == ASSUME IInv, Next PROVE Current'
<1> USE DEF IInv, Current, SocketIsCurrent
<1>1. CASE ReadReturns \/ PurgeReturns \/ RetryInitialization
  <2>1. state \notin Sessions /\ socket' = socket
    BY <1>1, ConstantsAssumption DEF ReadReturns, PurgeReturns, RetryInitialization, Owning, Waiting
  <2> QED
    BY <2>1
<1>2. CASE WriteReturns
  <2>1. state \notin Sessions /\ socket' = socket
    BY <1>2, ConstantsAssumption DEF WriteReturns, Owning, SigningIn, Waiting
  <2> QED
    BY <2>1
<1>3. ASSUME NEW o \in Owners, ClearReturns(o) PROVE Current'
  <2>1. CASE o = "boot" \/ o = "inv"
    <3>1. socket = Closed /\ socket' = socket
      BY <1>3, <2>1, ConstantsAssumption DEF ClearReturns, Owning, Waiting
    <3> QED
      BY <3>1
  <2>2. CASE o # "boot" /\ o # "inv"
    BY <1>3, <2>2 DEF ClearReturns
  <2> QED
    BY <2>1, <2>2
<1>4. ASSUME Invalidate PROVE Current'
  BY <1>4 DEF Invalidate, Closed
<1>5. CASE UNCHANGED <<state, socket, inv>>
  BY <1>5 DEF Closed
<1>6. CASE SignOut
  BY <1>4, <1>6 DEF SignOut
<1>7. CASE Connect
  <2>1. CASE socket' = Open(state) /\ UNCHANGED <<inv, store>>
    BY <1>7, <2>1 DEF Connect, Open
  <2> QED
    BY <1>4, <1>7, <2>1 DEF Connect
<1>8. CASE SocketAnswers
  <2>1. CASE socket' = [socket EXCEPT !.at = "ready"] /\ UNCHANGED <<inv, store>>
    BY <1>8, <2>1 DEF SocketAnswers, TypeOK, Closed
  <2> QED
    BY <1>4, <1>8, <2>1 DEF SocketAnswers
<1>9. ASSUME NEW q \in Requests, Send(q) \/ Answered(q) PROVE Current'
  BY <1>4, <1>5, <1>9 DEF Send, Answered
<1>10. CASE SocketCloses \/ Restart
  BY <1>10 DEF SocketCloses, Restart, Closed
<1>11. CASE CleanupTimesOut \/ StopRuns
  BY <1>11 DEF CleanupTimesOut, StopRuns, Release, Closed
<1>12. CASE Authenticate \/ AccessAnswered \/ TimerFires \/ StartRuns
  BY <1>5, <1>12 DEF Authenticate, AccessAnswered, TimerFires, StartRuns
<1>13. ASSUME NEW s \in Sessions, Lapse(s) \/ Refuse(s) PROVE Current'
  BY <1>5, <1>13 DEF Lapse, Refuse
<1> QED
  BY <1>1, <1>2, <1>3, <1>6, <1>7, <1>8, <1>9, <1>10, <1>11, <1>12, <1>13 DEF Next

LEMMA EngineFollowsStep == ASSUME IInv, Next PROVE EngineFollows'
<1> USE DEF IInv, EngineFollows
<1>0. lifecycle \in Seq(Calls)
  BY DEF TypeOK, Calls
<1>1. CASE state' \in Sessions
  BY <1>1
<1>2. CASE UNCHANGED <<state, lifecycle, started>>
  BY <1>2
<1>3. CASE ReadReturns \/ PurgeReturns
  <2>1. state \notin Sessions
    BY <1>3, ConstantsAssumption DEF ReadReturns, PurgeReturns, Owning, Waiting
  <2>2. started' = started /\ (state' \notin Sessions => lifecycle' = lifecycle)
    BY <1>0, <1>3, <2>1, LongerChain, ConstantsAssumption
    DEF ReadReturns, PurgeReturns, Publish, Effect, Waiting, runtime
  <2> QED
    BY <2>1, <2>2
<1>4. CASE WriteReturns
  BY <1>1, <1>2, <1>4 DEF WriteReturns, Publish, Owning, SigningIn
<1>5. ASSUME ClearReturns("inv") PROVE EngineFollows'
  <2>1. lifecycle' = (lifecycle \o Effect("unauthenticated")) \o <<"clean">>
    BY <1>5, ConstantsAssumption DEF ClearReturns
  <2>2. lifecycle \o Effect("unauthenticated") \in Seq(Calls)
    BY <1>5, PublishType, ConstantsAssumption DEF ClearReturns, Waiting
  <2>3. lifecycle' \in Seq(Calls) /\ lifecycle'[Len(lifecycle')] = "clean" /\ lifecycle' # <<>>
    BY <2>1, <2>2, LongerChain DEF Calls
  <2> QED
    BY <2>3
<1>6. ASSUME NEW o \in Owners \ {"inv"}, ClearReturns(o) PROVE EngineFollows'
  BY <1>2, <1>6, ConstantsAssumption DEF ClearReturns, Publish, Owning, Waiting
<1>7. CASE CleanupTimesOut
  <2>1. state' = state /\ started' = started
    BY <1>7 DEF CleanupTimesOut
  <2>2. /\ lifecycle' \in Seq(Calls) /\ Len(lifecycle') = Len(lifecycle)
        /\ \A i \in DOMAIN lifecycle : lifecycle'[i] = IF lifecycle[i] = "clean" THEN "stop" ELSE lifecycle[i]
    BY <1>0, <1>7 DEF CleanupTimesOut, Calls
  <2>3. lifecycle # <<>> => lifecycle' # <<>> /\ Len(lifecycle) \in DOMAIN lifecycle
    BY <1>0, <2>2
  <2>4. lifecycle = <<>> => lifecycle' = <<>>
    BY <1>0, <2>2
  <2> QED
    BY <2>1, <2>2, <2>3, <2>4
<1>8. CASE StartRuns
  BY <1>0, <1>8, RestOfChain DEF StartRuns
<1>9. CASE StopRuns
  BY <1>0, <1>9, RestOfChain DEF StopRuns
<1>10. CASE SignOut \/ Connect \/ SocketAnswers \/ SocketCloses \/ TimerFires \/ Authenticate
            \/ AccessAnswered
  BY <1>2, <1>10 DEF SignOut, Connect, SocketAnswers, SocketCloses, TimerFires, Authenticate,
                     AccessAnswered, runtime
<1>11. ASSUME NEW q \in Requests, Send(q) \/ Answered(q) PROVE EngineFollows'
  BY <1>2, <1>11 DEF Send, Answered, runtime
<1>12. CASE RetryInitialization
  BY <1>12, ConstantsAssumption DEF RetryInitialization, Waiting, runtime
<1>13. ASSUME NEW s \in Sessions, Lapse(s) \/ Refuse(s) PROVE EngineFollows'
  BY <1>2, <1>13 DEF Lapse, Refuse, runtime
<1>14. CASE Restart
  BY <1>14 DEF Restart
<1> QED
  BY <1>3, <1>4, <1>5, <1>6, <1>7, <1>8, <1>9, <1>10, <1>11, <1>12, <1>13, <1>14 DEF Next

-----------------------------------------------------------------------------
LEMMA Stutter == ASSUME IInv, UNCHANGED vars PROVE IInv'
<1> USE DEF vars, IInv
<1>1. TypeOK'
  BY DEF TypeOK
<1>2. Owning' /\ Booting' /\ SigningIn' /\ Generations' /\ Pending' /\ Chained'
  BY DEF Owning, Booting, SigningIn, Generations, Pending, Chained, Clears
<1>3. Forgetting' /\ Current' /\ EngineFollows'
  BY DEF Forgetting, Current, SocketIsCurrent, EngineFollows, Closed
<1> QED
  BY <1>1, <1>2, <1>3

THEOREM Inductive == Spec => []IInv
<1>1. IInv /\ [Next]_vars => IInv'
  <2> SUFFICES ASSUME IInv, [Next]_vars PROVE IInv'
    OBVIOUS
  <2>1. CASE Next
    <3>1. TypeOK' /\ Owning' /\ Booting' /\ SigningIn' /\ Generations'
      BY <2>1, TypeStep, OwningStep, BootingStep, SigningInStep, GenerationsStep DEF IInv
    <3>2. Pending' /\ Forgetting' /\ Current' /\ EngineFollows' /\ Chained'
      BY <2>1, PendingStep, ForgettingStep, CurrentStep, EngineFollowsStep, ChainedStep DEF IInv
    <3> QED
      BY <3>1, <3>2 DEF IInv
  <2>2. CASE UNCHANGED vars
    BY <2>2, Stutter
  <2> QED
    BY <2>1, <2>2
<1> QED
  BY <1>1, InitHolds, PTL DEF Spec

(* Every variable keeps its type. *)
THEOREM TypeCorrect == Spec => []TypeOK
<1>1. IInv => TypeOK
  BY DEF IInv
<1> QED
  BY <1>1, Inductive, PTL

(* The socket, the record and the reminder engine of an account that is signed out are gone,  *)
(* or on their way, whatever the order in which the store, the server and the modules answer. *)
THEOREM AccountsAlone == Spec => []AccountIsAlone
<1>1. IInv => AccountIsAlone
  <2> SUFFICES ASSUME IInv PROVE AccountIsAlone
    OBVIOUS
  <2>1. SocketIsCurrent
    BY DEF IInv, Current, SocketIsCurrent
  <2>2. SignedOutIsForgotten
    <3> SUFFICES ASSUME state = "unauthenticated", login \in {"idle", "asking"}, stored # "none", ~timer
                 PROVE  \E o \in Owners : native[o] # "none"
      BY DEF SignedOutIsForgotten
    <3>1. PICK o \in live : TRUE
      BY DEF IInv, Forgetting
    <3> QED
      BY <3>1 DEF IInv, Generations, Clears
  <2>3. NoEngineWithoutAccount
    BY DEF IInv, EngineFollows, NoEngineWithoutAccount
  <2> QED
    BY <2>1, <2>2, <2>3 DEF AccountIsAlone
<1> QED
  BY <1>1, Inductive, PTL
=============================================================================
