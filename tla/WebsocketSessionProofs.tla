----------------------- MODULE WebsocketSessionProofs -----------------------
(***************************************************************************)
(* The counters of the connections, for any number of connections, slots   *)
(* and threads.  A counter and the set it counts move together: each step  *)
(* moves one connection, and Recount says what that does to the set.       *)
(*                                                                         *)
(* The second half is about the streams of a connection that got through   *)
(* (VoiceStream): its invariant relates the registry of active streams,    *)
(* the set of tracked tasks, the pending cancellations and the place the   *)
(* receive loop is parked at.                                              *)
(***************************************************************************)
EXTENDS SessionEntry, VoiceStream, FiniteSetTheorems, TLAPS

Labels == {"new"} \cup Holding \cup Serving \cup Ended
InGauge == (Holding \cup Serving) \ {"accepting"}

(* What a connection's place says of its verification and its session.     *)
Placed ==
    /\ \A c \in Conns : pc[c] = "replying" => thread[c] \in {"session", "rejection"}
    /\ \A c \in Conns : sample[c] # "none" => c \in live
    /\ \A c \in served : pc[c] \in Serving \cup Ended
    /\ live \subseteq served

IInv == TypeOK /\ Placed /\ SlotsMatch /\ SessionsMatch

At(S) == {c \in Conns : pc[c] \in S}

LEMMA Recount ==
    ASSUME pc \in [Conns -> Labels], NEW c \in Conns, NEW l \in Labels, Goto(c, l), NEW S
    PROVE  /\ Cardinality(At(S)) \in Nat
           /\ pc' \in [Conns -> Labels] /\ pc'[c] = l
           /\ \A o \in Conns \ {c} : pc'[o] = pc[o]
           /\ (pc[c] \in S <=> l \in S) => At(S)' = At(S)
           /\ pc[c] \notin S /\ l \in S => Cardinality(At(S)') = Cardinality(At(S)) + 1
           /\ pc[c] \in S /\ l \notin S => Cardinality(At(S)') = Cardinality(At(S)) - 1
<1>1. IsFiniteSet(At(S))
  <2>1. At(S) \in SUBSET Conns
    BY DEF At
  <2> QED
    BY <2>1, ConstantsAssumption, FS_Subset
<1>2. Cardinality(At(S)) \in Nat
  BY <1>1, FS_CardinalityType
<1>3. pc' \in [Conns -> Labels] /\ pc'[c] = l /\ \A o \in Conns \ {c} : pc'[o] = pc[o]
  BY DEF Goto
<1>4. (pc[c] \in S <=> l \in S) => At(S)' = At(S)
  BY <1>3 DEF At
<1>5. ASSUME pc[c] \notin S, l \in S PROVE Cardinality(At(S)') = Cardinality(At(S)) + 1
  <2>1. At(S)' = At(S) \cup {c} /\ c \notin At(S)
    BY <1>3, <1>5 DEF At
  <2> QED
    BY <1>1, <2>1, FS_AddElement
<1>6. ASSUME pc[c] \in S, l \notin S PROVE Cardinality(At(S)') = Cardinality(At(S)) - 1
  <2>1. At(S)' = At(S) \ {c} /\ c \in At(S)
    BY <1>3, <1>6 DEF At
  <2> QED
    BY <1>1, <2>1, FS_RemoveElement
<1> QED
  BY <1>2, <1>3, <1>4, <1>5, <1>6

LEMMA Matches ==
    /\ SlotsMatch <=> count = Cardinality(At(Holding))
    /\ SessionsMatch <=>
          /\ open = Cardinality(At(InGauge)) /\ live = At(Serving)
          /\ \A c \in live : thread[c] = "session" /\ sample[c] # "none"
          /\ \A c \in Conns :
                ends[c] = IF sample[c] = "tool_ended" \/ c \in served \ live THEN 1 ELSE 0
BY DEF SlotsMatch, SessionsMatch, At, InGauge

LEMMA InitIInv == Init => IInv
<1> SUFFICES ASSUME Init PROVE IInv
  OBVIOUS
<1>1. At(Holding) = {} /\ At(InGauge) = {} /\ At(Serving) = {}
  BY DEF Init, At, Holding, InGauge, Serving, Timed
<1>2. SlotsMatch /\ SessionsMatch
  BY <1>1, Matches, FS_EmptySet DEF Init
<1> QED
  BY <1>2, ConstantsAssumption DEF IInv, TypeOK, Placed, Init

(* An await followed by another one: no counter is concerned.              *)
LEMMA ProceedIInv ==
    ASSUME IInv, NEW c \in Conns, NEW l \in Labels, Proceed(c, l),
           l \in Serving <=> pc[c] \in Serving, l \in Holding <=> pc[c] \in Holding,
           l \in InGauge <=> pc[c] \in InGauge, l # "new",
           thread' \in [Conns -> {"none", "queued", "running"} \cup Results], there' \subseteq Conns,
           \A o \in Conns : thread[o] \in {"session", "rejection"} /\ pc[o] # "hello"
                             => thread'[o] = thread[o],
           l = "replying" => thread'[c] \in {"session", "rejection"}
    PROVE  IInv'
<1>1. pc \in [Conns -> Labels] /\ Goto(c, l) /\ UNCHANGED counters
  BY DEF IInv, TypeOK, Labels, Proceed
<1>2. /\ At(Holding)' = At(Holding) /\ At(InGauge)' = At(InGauge) /\ At(Serving)' = At(Serving)
      /\ pc' \in [Conns -> Labels] /\ pc'[c] = l /\ \A o \in Conns \ {c} : pc'[o] = pc[o]
  BY <1>1, Recount
<1>3. SlotsMatch' /\ SessionsMatch'
  <2>1. SlotsMatch'
    BY <1>1, <1>2, Matches DEF IInv, counters, SlotsMatch, At
  <2>2. open' = Cardinality({o \in Conns : pc'[o] \in InGauge}) /\ live' = {o \in Conns : pc'[o] \in Serving}
    BY <1>1, <1>2, Matches DEF IInv, counters, At
  <2>3. \A o \in live' : thread'[o] = "session" /\ sample'[o] # "none"
    <3>1. live' = At(Serving) /\ "hello" \notin Serving
      BY <1>1, Matches DEF IInv, counters, Serving
    <3> QED
      BY <1>1, <3>1 DEF IInv, SessionsMatch, counters, At
  <2> QED
    BY <1>1, <2>1, <2>2, <2>3 DEF IInv, SessionsMatch, counters, InGauge
<1>4. Placed'
  <2>1. \A o \in Conns : pc'[o] = "replying" => thread'[o] \in {"session", "rejection"}
    BY <1>2 DEF IInv, Placed
  <2>2. \A o \in Conns : sample'[o] # "none" => o \in live'
    BY <1>1 DEF IInv, Placed, counters
  <2>3. pc[c] \in Serving \cup Ended => l \in Serving \cup Ended
    <3>1. Holding \cap Ended = {} /\ "new" \notin Ended
      BY DEF Holding, Ended, Timed
    <3> QED
      BY <3>1 DEF Labels
  <2>4. served' \subseteq Conns /\ live' \subseteq served'
        /\ \A o \in served' : pc'[o] \in Serving \cup Ended
    BY <1>1, <1>2, <2>3 DEF IInv, TypeOK, Placed, counters
  <2> QED
    BY <2>1, <2>2, <2>4 DEF Placed
<1> QED
  BY <1>1, <1>2, <1>3, <1>4 DEF IInv, TypeOK, counters, Labels

(* A handshake ends: the slot is given back, and the gauge when accepted.  *)
LEMMA EndIInv ==
    ASSUME IInv, NEW c \in Conns, EndHandshake(c), pc[c] \in Holding,
           thread' \in [Conns -> {"none", "queued", "running"} \cup Results], there' \subseteq Conns,
           \A o \in Conns : thread[o] \in {"session", "rejection"} => thread'[o] = thread[o]
    PROVE  IInv'
<1>0. /\ pc \in [Conns -> Labels] /\ Goto(c, "ended") /\ "ended" \in Labels
      /\ "ended" \notin Holding /\ "ended" \notin InGauge /\ "ended" \notin Serving
      /\ pc[c] \notin Serving /\ (pc[c] \in InGauge <=> pc[c] # "accepting")
      /\ UNCHANGED <<live, sample, ends, served>>
  BY DEF IInv, TypeOK, Labels, EndHandshake, Holding, InGauge, Serving, Ended, Timed
<1>1. /\ Cardinality(At(Holding)) \in Nat /\ Cardinality(At(InGauge)) \in Nat
      /\ Cardinality(At(Holding)') = Cardinality(At(Holding)) - 1
      /\ pc[c] # "accepting" => Cardinality(At(InGauge)') = Cardinality(At(InGauge)) - 1
      /\ pc[c] = "accepting" => At(InGauge)' = At(InGauge)
      /\ At(Serving)' = At(Serving)
      /\ pc' \in [Conns -> Labels] /\ pc'[c] = "ended"
      /\ \A o \in Conns \ {c} : pc'[o] = pc[o]
  BY <1>0, Recount
<1>2. count = Cardinality(At(Holding)) /\ open = Cardinality(At(InGauge)) /\ live = At(Serving)
  BY Matches DEF IInv
<1>3. IsFiniteSet(At(Holding)') /\ IsFiniteSet(At(InGauge)')
  <2>1. At(Holding)' \in SUBSET Conns /\ At(InGauge)' \in SUBSET Conns
    BY DEF At
  <2> QED
    BY <2>1, ConstantsAssumption, FS_Subset
<1>4. Cardinality(At(Holding)') \in Nat /\ Cardinality(At(InGauge)') \in Nat
  BY <1>3, FS_CardinalityType
<1>5. count' = Cardinality(At(Holding)') /\ open' = Cardinality(At(InGauge)')
  <2>1. count > 0 /\ count' = count - 1
    BY <1>1, <1>2, <1>4 DEF EndHandshake
  <2> QED
    BY <1>1, <1>2, <2>1 DEF EndHandshake
<1>6. TypeOK'
  <2>1. count' \in 0..Limit
    BY <1>1, <1>2, <1>4, <1>5, ConstantsAssumption DEF IInv, TypeOK
  <2>2. open' \in Nat
    BY <1>4, <1>5
  <2> QED
    BY <1>0, <1>1, <2>1, <2>2 DEF IInv, TypeOK, Labels
<1>7. SlotsMatch' /\ SessionsMatch'
  <2>1. live' = {o \in Conns : pc'[o] \in Serving}
    BY <1>0, <1>1, <1>2 DEF At
  <2>2. \A o \in live' : thread'[o] = "session" /\ sample'[o] # "none"
    BY <1>0 DEF IInv, TypeOK, SessionsMatch
  <2>3. \A o \in Conns :
          ends'[o] = IF sample'[o] = "tool_ended" \/ o \in served' \ live' THEN 1 ELSE 0
    BY <1>0 DEF IInv, SessionsMatch
  <2> QED
    BY <1>5, <2>1, <2>2, <2>3 DEF SlotsMatch, SessionsMatch, At, InGauge
<1>8. Placed'
  BY <1>0, <1>1 DEF IInv, TypeOK, Placed, Ended
<1> QED
  BY <1>6, <1>7, <1>8 DEF IInv

(* A step that moves c changes each counter by what it does to c's membership. *)
LEMMA Counted ==
    ASSUME IInv, NEW c \in Conns, NEW l \in Labels, Goto(c, l),
           count' = IF l \in Holding THEN IF pc[c] \in Holding THEN count ELSE count + 1
                                     ELSE IF pc[c] \in Holding THEN count - 1 ELSE count,
           open' = IF l \in InGauge THEN IF pc[c] \in InGauge THEN open ELSE open + 1
                                    ELSE IF pc[c] \in InGauge THEN open - 1 ELSE open
    PROVE  /\ SlotsMatch' /\ open' = Cardinality(At(InGauge)')
           /\ count' \in Nat /\ open' \in Nat
<1>1. pc \in [Conns -> Labels]
  BY DEF IInv, TypeOK, Labels
<1>2. count = Cardinality(At(Holding)) /\ open = Cardinality(At(InGauge))
  BY Matches DEF IInv
<1>3. count' = Cardinality(At(Holding)') /\ open' = Cardinality(At(InGauge)')
  BY <1>1, <1>2, Recount
<1>4. IsFiniteSet(At(Holding)') /\ IsFiniteSet(At(InGauge)')
  <2>1. At(Holding)' \in SUBSET Conns /\ At(InGauge)' \in SUBSET Conns
    BY DEF At
  <2> QED
    BY <2>1, ConstantsAssumption, FS_Subset
<1> QED
  BY <1>3, <1>4, FS_CardinalityType DEF SlotsMatch, At

LEMMA EnterIInv == ASSUME IInv, NEW c \in Conns, Enter(c) PROVE IInv'
<1> DEFINE l == IF count < Limit THEN "accepting" ELSE "rejected"
<1>1. /\ pc \in [Conns -> Labels] /\ Goto(c, l) /\ l \in Labels /\ l \in {"accepting", "rejected"}
      /\ pc[c] \notin Holding /\ l \notin InGauge /\ pc[c] \notin InGauge
      /\ pc[c] \notin Serving \cup Ended /\ l \notin Serving
      /\ (l \in Holding <=> count < Limit)
      /\ UNCHANGED <<thread, there, open, live, sample, ends, served>>
  BY DEF IInv, TypeOK, Labels, Enter, Holding, InGauge, Serving, Ended, Timed
<1>2. /\ At(Serving)' = At(Serving)
      /\ pc' \in [Conns -> Labels] /\ pc'[c] = l /\ \A o \in Conns \ {c} : pc'[o] = pc[o]
  BY <1>1, Recount
<1>3. count' = IF l \in Holding THEN count + 1 ELSE count
  BY <1>1 DEF Enter
<1>4. SlotsMatch' /\ open' = Cardinality(At(InGauge)') /\ count' \in Nat /\ open' \in Nat
  BY <1>1, <1>3, Counted
<1>5. TypeOK'
  <2>1. count' \in 0..Limit
    BY <1>1, <1>3, ConstantsAssumption DEF IInv, TypeOK
  <2> QED
    BY <1>1, <1>2, <1>4, <2>1 DEF IInv, TypeOK, Labels
<1>6. SessionsMatch'
  <2>1. live' = {o \in Conns : pc'[o] \in Serving}
    BY <1>1, <1>2, Matches DEF IInv, At
  <2> QED
    BY <1>1, <1>4, <2>1 DEF IInv, SessionsMatch, At, InGauge
<1>7. Placed'
  <2>1. c \notin served
    BY <1>1 DEF IInv, Placed
  <2> QED
    BY <1>1, <1>2, <2>1 DEF IInv, TypeOK, Placed
<1> QED
  BY <1>4, <1>5, <1>6, <1>7 DEF IInv

LEMMA AcceptedIInv ==
    ASSUME IInv, NEW c \in Conns, pc[c] = "accepting", Goto(c, "hello"), open' = open + 1,
           UNCHANGED <<count, thread, there, live, sample, ends, served>>
    PROVE  IInv'
<1>1. /\ pc \in [Conns -> Labels] /\ "hello" \in Labels /\ "hello" \in Holding
      /\ pc[c] \in Holding /\ "hello" \in InGauge /\ pc[c] \notin InGauge
      /\ pc[c] \notin Serving \cup Ended /\ "hello" \notin Serving
  BY DEF IInv, TypeOK, Labels, Holding, InGauge, Serving, Ended, Timed
<1>2. /\ At(Serving)' = At(Serving)
      /\ pc' \in [Conns -> Labels] /\ pc'[c] = "hello" /\ \A o \in Conns \ {c} : pc'[o] = pc[o]
  BY <1>1, Recount
<1>3. SlotsMatch' /\ open' = Cardinality(At(InGauge)') /\ open' \in Nat
  BY <1>1, Counted
<1>4. SessionsMatch'
  <2>1. live' = {o \in Conns : pc'[o] \in Serving}
    BY <1>1, <1>2, Matches DEF IInv, At
  <2> QED
    BY <1>1, <1>3, <2>1 DEF IInv, SessionsMatch, At, InGauge
<1>5. Placed'
  <2>1. c \notin served
    BY <1>1 DEF IInv, Placed
  <2> QED
    BY <1>1, <1>2, <2>1 DEF IInv, TypeOK, Placed
<1> QED
  BY <1>2, <1>3, <1>4, <1>5 DEF IInv, TypeOK, Labels

LEMMA ReadyIInv ==
    ASSUME IInv, NEW c \in Conns, pc[c] = "replying", thread[c] = "session", Reply(c), c \in there
    PROVE  IInv'
<1>1. /\ Goto(c, "serving") /\ count' = IF count > 0 THEN count - 1 ELSE 0
      /\ sample' = [sample EXCEPT ![c] = "talking"] /\ live' = live \cup {c}
      /\ served' = served \cup {c} /\ UNCHANGED <<thread, there, open, ends>>
  BY DEF Reply
<1>2. /\ pc \in [Conns -> Labels] /\ "serving" \in Labels /\ "serving" \notin Holding
      /\ pc[c] \in Holding /\ "serving" \in InGauge /\ pc[c] \in InGauge
      /\ pc[c] \notin Serving \cup Ended /\ "serving" \in Serving
  BY DEF IInv, TypeOK, Labels, Holding, InGauge, Serving, Ended, Timed
<1>3. /\ pc' \in [Conns -> Labels] /\ pc'[c] = "serving" /\ \A o \in Conns \ {c} : pc'[o] = pc[o]
  BY <1>1, <1>2, Recount
<1>4. count' = count - 1
  <2>1. /\ count = Cardinality(At(Holding)) /\ count \in Nat
        /\ Cardinality(At(Holding)') = count - 1
    BY <1>1, <1>2, Recount, Matches, ConstantsAssumption DEF IInv, TypeOK
  <2>2. At(Holding)' \in SUBSET Conns
    BY DEF At
  <2>3. Cardinality(At(Holding)') \in Nat
    BY <2>2, ConstantsAssumption, FS_Subset, FS_CardinalityType
  <2> QED
    BY <1>1, <2>1, <2>3
<1>5. SlotsMatch' /\ open' = Cardinality(At(InGauge)') /\ count' \in Nat /\ open' \in Nat
  BY <1>1, <1>2, <1>4, Counted
<1>6. TypeOK'
  <2>1. count' \in 0..Limit
    BY <1>4, <1>5, ConstantsAssumption DEF IInv, TypeOK
  <2> QED
    BY <1>1, <1>3, <1>5, <2>1 DEF IInv, TypeOK, Labels
<1>7. c \notin served /\ c \notin live /\ sample[c] = "none" /\ ends[c] = 0
  <2>1. c \notin served /\ c \notin live
    BY <1>2 DEF IInv, Placed
  <2> QED
    BY <2>1 DEF IInv, Placed, SessionsMatch
<1>8. SessionsMatch'
  <2>1. live' = {o \in Conns : pc'[o] \in Serving}
    BY <1>1, <1>2, <1>3, Matches DEF IInv, At
  <2>2. \A o \in live' : thread'[o] = "session" /\ sample'[o] # "none"
    BY <1>1 DEF IInv, TypeOK, SessionsMatch
  <2>3. \A o \in Conns : ends'[o] = IF sample'[o] = "tool_ended" \/ o \in served' \ live' THEN 1 ELSE 0
    BY <1>1, <1>7 DEF IInv, TypeOK, SessionsMatch
  <2> QED
    BY <1>5, <2>1, <2>2, <2>3 DEF SessionsMatch, At, InGauge
<1>9. Placed'
  <2>1. \A o \in served' : pc'[o] \in Serving \cup Ended
    BY <1>1, <1>2, <1>3 DEF IInv, TypeOK, Placed
  <2>2. \A o \in Conns : pc'[o] = "replying" => thread'[o] \in {"session", "rejection"}
    BY <1>1, <1>3 DEF IInv, Placed
  <2> QED
    BY <1>1, <2>1, <2>2 DEF IInv, TypeOK, Placed
<1> QED
  BY <1>5, <1>6, <1>8, <1>9 DEF IInv

LEMMA LeaveIInv == ASSUME IInv, NEW c \in Conns, Leave(c) PROVE IInv'
<1>1. /\ pc[c] = "leaving" /\ Goto(c, "ended") /\ live' = live \ {c}
      /\ ends' = [ends EXCEPT ![c] = IF sample[c] = "talking" THEN @ + 1 ELSE @]
      /\ sample' = [sample EXCEPT ![c] = "none"] /\ open' = open - 1
      /\ UNCHANGED <<count, thread, there, served>>
  BY DEF Leave
<1>2. /\ pc \in [Conns -> Labels] /\ "ended" \in Labels /\ "ended" \notin Holding
      /\ pc[c] \notin Holding /\ "ended" \notin InGauge /\ pc[c] \in InGauge
      /\ pc[c] \in Serving /\ "ended" \notin Serving /\ "ended" \in Ended
  BY <1>1 DEF IInv, TypeOK, Labels, Holding, InGauge, Serving, Ended, Timed
<1>3. /\ pc' \in [Conns -> Labels] /\ pc'[c] = "ended" /\ \A o \in Conns \ {c} : pc'[o] = pc[o]
  BY <1>1, <1>2, Recount
<1>4. SlotsMatch' /\ open' = Cardinality(At(InGauge)') /\ open' \in Nat
  BY <1>1, <1>2, Counted
<1>5. c \in live /\ c \in served /\ sample[c] \in {"talking", "tool_ended"}
  <2>1. c \in live
    BY <1>2, Matches DEF IInv, At
  <2> QED
    BY <2>1 DEF IInv, TypeOK, Placed, SessionsMatch
<1>6. ends[c] = IF sample[c] = "talking" THEN 0 ELSE 1
  BY <1>5 DEF IInv, SessionsMatch
<1>7. ends'[c] = 1 /\ ends' \in [Conns -> Nat]
  BY <1>1, <1>6 DEF IInv, TypeOK
<1>8. SessionsMatch'
  <2>1. live' = {o \in Conns : pc'[o] \in Serving}
    BY <1>1, <1>2, <1>3, Matches DEF IInv, At
  <2>2. \A o \in live' : thread'[o] = "session" /\ sample'[o] # "none"
    BY <1>1 DEF IInv, TypeOK, SessionsMatch
  <2>3. \A o \in Conns : ends'[o] = IF sample'[o] = "tool_ended" \/ o \in served' \ live' THEN 1 ELSE 0
    BY <1>1, <1>5, <1>7 DEF IInv, TypeOK, SessionsMatch
  <2> QED
    BY <1>4, <2>1, <2>2, <2>3 DEF SessionsMatch, At, InGauge
<1>9. Placed'
  <2>1. \A o \in served' : pc'[o] \in Serving \cup Ended
    BY <1>1, <1>2, <1>3 DEF IInv, TypeOK, Placed
  <2>2. \A o \in Conns : pc'[o] = "replying" => thread'[o] \in {"session", "rejection"}
    BY <1>1, <1>3 DEF IInv, Placed
  <2>3. \A o \in Conns : sample'[o] # "none" => o \in live'
    BY <1>1 DEF IInv, TypeOK, Placed
  <2> QED
    BY <1>1, <2>1, <2>2, <2>3 DEF IInv, TypeOK, Placed
<1>10. TypeOK'
  BY <1>1, <1>3, <1>4, <1>7 DEF IInv, TypeOK, Labels
<1> QED
  BY <1>4, <1>8, <1>9, <1>10 DEF IInv

LEMMA ToolEndsIInv == ASSUME IInv, NEW c \in Conns, ToolEnds(c) PROVE IInv'
<1>1. c \in live /\ sample[c] = "talking" /\ ends[c] = 0
  BY Matches DEF IInv, ToolEnds, At, SessionsMatch
<1>2. TypeOK' /\ SlotsMatch' /\ Placed'
  BY <1>1 DEF IInv, TypeOK, ToolEnds, Placed, SlotsMatch
<1>3. SessionsMatch'
  <2>1. \A o \in live' : thread'[o] = "session" /\ sample'[o] # "none"
    BY <1>1 DEF IInv, TypeOK, ToolEnds, SessionsMatch
  <2>2. \A o \in Conns : ends'[o] = IF sample'[o] = "tool_ended" \/ o \in served' \ live' THEN 1 ELSE 0
    BY <1>1 DEF IInv, TypeOK, ToolEnds, SessionsMatch
  <2> QED
    BY <2>1, <2>2 DEF IInv, ToolEnds, SessionsMatch
<1> QED
  BY <1>2, <1>3 DEF IInv

(* The pool thread and the client move no connection.                      *)
LEMMA OutsideIInv ==
    ASSUME IInv, UNCHANGED <<pc, counters>>, there' \subseteq Conns,
           thread' \in [Conns -> {"none", "queued", "running"} \cup Results],
           \A o \in Conns : thread[o] \in {"session", "rejection"} => thread'[o] = thread[o]
    PROVE  IInv'
<1>1. TypeOK' /\ SlotsMatch'
  BY DEF IInv, TypeOK, counters, SlotsMatch
<1>2. \A o \in live' : thread'[o] = "session" /\ sample'[o] # "none"
  BY DEF IInv, TypeOK, counters, SessionsMatch
<1>3. SessionsMatch'
  BY <1>2 DEF IInv, SessionsMatch, counters
<1>4. Placed'
  BY DEF IInv, Placed, counters
<1> QED
  BY <1>1, <1>3, <1>4 DEF IInv

(* A pool thread's step, or a timer that drops a verification not yet started. *)
Dropped(c) == IF thread[c] = "queued" THEN [thread EXCEPT ![c] = "none"] ELSE thread

LEMMA HandshakeIInv == ASSUME IInv, NEW c \in Conns, Handshake(c) PROVE IInv'
<1>1. /\ thread \in [Conns -> {"none", "queued", "running"} \cup Results] /\ there \subseteq Conns
      /\ "hello" \in Labels /\ "verifying" \in Labels /\ "refusing" \in Labels
      /\ "closing" \in Labels /\ "replying" \in Labels /\ "rejecting" \in Labels
  BY DEF IInv, TypeOK, Labels, Holding, Timed
<1>2. \A l \in {"hello", "verifying", "refusing", "closing", "replying", "rejecting", "timing_out"} :
         l \in Labels /\ l \in Holding /\ l \in InGauge /\ l \notin Serving /\ l # "new"
  BY DEF Labels, InGauge, Holding, Timed, Serving
<1>3. CASE Enter(c)
  BY <1>3, EnterIInv
<1>4. CASE Accept(c)
  <2>1. pc[c] = "accepting" /\ pc[c] \in Holding /\ UNCHANGED <<thread, there>>
    BY <1>4 DEF Accept, Holding
  <2>2. CASE EndHandshake(c)
    BY <2>1, <2>2, <1>1, EndIInv
  <2>3. CASE Goto(c, "hello") /\ open' = open + 1 /\ UNCHANGED <<count, live, sample, ends, served>>
    BY <2>1, <2>3, AcceptedIInv
  <2> QED
    BY <1>4, <2>2, <2>3 DEF Accept
<1>5. CASE Hello(c)
  <2>1. pc[c] = "hello" /\ there' = there
    BY <1>5 DEF Hello
  <2>2. CASE Proceed(c, "verifying") /\ thread' = [thread EXCEPT ![c] = "queued"]
    BY <1>1, <1>2, <2>1, <2>2, ProceedIInv DEF Results
  <2>3. CASE Proceed(c, "refusing") /\ UNCHANGED thread
    BY <1>1, <1>2, <2>1, <2>3, ProceedIInv
  <2>4. CASE EndHandshake(c) /\ UNCHANGED thread
    BY <1>1, <1>2, <2>1, <2>4, EndIInv
  <2> QED
    BY <1>5, <2>2, <2>3, <2>4 DEF Hello
<1>6. CASE Verified(c)
  <2>1. pc[c] = "verifying" /\ UNCHANGED <<thread, there>> /\ thread[c] \in Results
    BY <1>6 DEF Verified
  <2>2. CASE thread[c] = "error"
    BY <1>1, <1>2, <1>6, <2>1, <2>2, ProceedIInv DEF Verified
  <2>3. CASE thread[c] # "error"
    <3>1. thread[c] \in {"session", "rejection"} /\ Proceed(c, "replying")
      BY <1>6, <2>1, <2>3 DEF Verified, Results
    <3> QED
      BY <1>1, <1>2, <2>1, <3>1, ProceedIInv
  <2> QED
    BY <2>2, <2>3
<1>7. CASE Refuse(c)
  <2>1. pc[c] = "refusing" /\ UNCHANGED <<thread, there>>
    BY <1>7 DEF Refuse
  <2>2. CASE Proceed(c, "closing")
    BY <1>1, <1>2, <2>1, <2>2, ProceedIInv
  <2>3. CASE EndHandshake(c)
    BY <1>1, <1>2, <2>1, <2>3, EndIInv
  <2> QED
    BY <1>7, <2>2, <2>3 DEF Refuse
<1>8. CASE Close(c)
  <2>1. EndHandshake(c) /\ UNCHANGED <<thread, there>> /\ pc[c] \in Holding
    BY <1>8 DEF Close, Holding, Timed
  <2> QED
    BY <1>1, <2>1, EndIInv
<1>9. CASE Reply(c)
  <2>1. pc[c] = "replying" /\ UNCHANGED <<thread, there>>
    BY <1>9 DEF Reply
  <2>2. CASE EndHandshake(c)
    BY <1>1, <1>2, <2>1, <2>2, EndIInv
  <2>3. CASE Proceed(c, "rejecting")
    BY <1>1, <1>2, <2>1, <2>3, ProceedIInv
  <2>4. CASE c \in there /\ thread[c] = "session"
    BY <1>9, <2>1, <2>4, ReadyIInv
  <2> QED
    BY <1>9, <2>2, <2>3, <2>4 DEF Reply
<1> QED
  BY <1>3, <1>4, <1>5, <1>6, <1>7, <1>8, <1>9 DEF Handshake

LEMMA SessionIInv == ASSUME IInv, NEW c \in Conns, Session(c) PROVE IInv'
<1>1. /\ thread \in [Conns -> {"none", "queued", "running"} \cup Results] /\ there \subseteq Conns
      /\ \A l \in Serving : l \in Labels /\ l \in InGauge /\ l \notin Holding
                           /\ l # "new" /\ l # "replying"
  BY DEF IInv, TypeOK, Labels, InGauge, Holding, Timed, Serving
<1>2. CASE Leave(c)
  BY <1>2, LeaveIInv
<1>3. CASE Receive(c) \/ Dispatched(c) \/ Handled(c) \/ Disconnected(c)
  <2>1. pc[c] \in Serving /\ UNCHANGED <<thread, there>>
    BY <1>3 DEF Receive, Dispatched, Handled, Disconnected, Serving
  <2>2. PICK l \in Serving : Proceed(c, l)
    BY <1>3 DEF Receive, Dispatched, Handled, Disconnected, Serving
  <2> QED
    BY <1>1, <2>1, <2>2, ProceedIInv
<1> QED
  BY <1>2, <1>3 DEF Session

LEMMA TimeoutIInv == ASSUME IInv, NEW c \in Conns, Timeout(c) \/ Cancel(c) PROVE IInv'
<1>1. /\ thread \in [Conns -> {"none", "queued", "running"} \cup Results] /\ there' \subseteq Conns
      /\ thread' = Dropped(c)
  BY DEF IInv, TypeOK, Timeout, Cancel, Dropped
<1>2. /\ thread' \in [Conns -> {"none", "queued", "running"} \cup Results]
      /\ \A o \in Conns : thread[o] \in {"session", "rejection"} => thread'[o] = thread[o]
  BY <1>1 DEF Dropped
<1>3. /\ "timing_out" \in Labels /\ "timing_out" \in Holding /\ "timing_out" \in InGauge
      /\ "timing_out" \notin Serving /\ Timed \subseteq Holding /\ Timed \subseteq InGauge
      /\ Timed \cap Serving = {} /\ "leaving" \in Labels /\ Serving \subseteq InGauge
      /\ "leaving" \in Serving /\ Serving \cap Holding = {}
  BY DEF Labels, InGauge, Holding, Timed, Serving
<1>4. CASE Timeout(c)
  <2>1. pc[c] \in Timed
    BY <1>4 DEF Timeout
  <2>2. CASE EndHandshake(c)
    BY <1>1, <1>2, <1>3, <2>1, <2>2, EndIInv
  <2>3. CASE Proceed(c, "timing_out")
    <3>1. pc[c] \in Holding /\ pc[c] \in InGauge /\ pc[c] \notin Serving
      BY <1>3, <2>1
    <3> QED
      BY <1>1, <1>2, <1>3, <2>3, <3>1, ProceedIInv
  <2> QED
    BY <1>4, <2>2, <2>3 DEF Timeout
<1>5. CASE Cancel(c)
  <2>1. CASE pc[c] \in Holding /\ EndHandshake(c)
    BY <1>1, <1>2, <2>1, EndIInv
  <2>2. CASE pc[c] \in Serving /\ Proceed(c, "leaving")
    <3>1. pc[c] \notin Holding /\ pc[c] \in InGauge
      BY <1>3, <2>2
    <3> QED
      BY <1>1, <1>2, <1>3, <2>2, <3>1, ProceedIInv
  <2> QED
    BY <1>5, <2>1, <2>2 DEF Cancel
<1> QED
  BY <1>4, <1>5

LEMMA StepIInv == IInv /\ [Next]_vars => IInv'
<1> SUFFICES ASSUME IInv, [Next]_vars PROVE IInv'
  OBVIOUS
<1>1. thread \in [Conns -> {"none", "queued", "running"} \cup Results] /\ there \subseteq Conns
  BY DEF IInv, TypeOK
<1>2. CASE UNCHANGED vars
  BY <1>1, <1>2, OutsideIInv DEF vars, counters
<1>3. ASSUME NEW c \in Conns, ThreadStarts(c) \/ Perform(c) PROVE IInv'
  <2>1. /\ thread[c] \in {"queued", "running"} /\ UNCHANGED <<pc, counters, there>>
        /\ \E r \in {"running"} \cup Results : thread' = [thread EXCEPT ![c] = r]
    BY <1>3 DEF ThreadStarts, Perform
  <2> QED
    BY <1>1, <2>1, OutsideIInv DEF Results
<1>4. ASSUME NEW c \in Conns, ClientLeaves(c) PROVE IInv'
  BY <1>1, <1>4, OutsideIInv DEF ClientLeaves
<1> QED
  BY <1>2, <1>3, <1>4, HandshakeIInv, SessionIInv, TimeoutIInv, ToolEndsIInv DEF Next

(* What every theorem below rests on.                                      *)
THEOREM Invariant == Spec => []IInv
BY InitIInv, StepIInv, PTL DEF Spec

(* The state has its type: in particular no counter of run_websocket_session leaves its range. *)
THEOREM TypeCorrect == Spec => []TypeOK
<1>1. IInv => TypeOK
  BY DEF IInv
<1> QED
  BY <1>1, Invariant, PTL

(* UnauthenticatedConnectionLimiter counts the connections that are still unauthenticated:   *)
(* every way out of the handshake gives back the one slot it took.                          *)
THEOREM SlotsCorrect == Spec => []SlotsMatch
<1>1. IInv => SlotsMatch
  BY DEF IInv
<1> QED
  BY <1>1, Invariant, PTL

(* The gauge, the registry, the occupancy and the count of hang-ups agree with the sessions. *)
THEOREM SessionsCorrect == Spec => []SessionsMatch
<1>1. IInv => SessionsMatch
  BY DEF IInv
<1> QED
  BY <1>1, Invariant, PTL


(* run_websocket_session: the slot and the session of every connection are counted once. *)
THEOREM CountsCorrect == Spec => []CountsMatch
BY SlotsCorrect, SessionsCorrect, PTL DEF CountsMatch

------------------------------------------------------------------------------
(* The receive loop and the streams' tasks of a connection, for any number   *)
(* of streams, any queue and any audio budget.                               *)

Running(s) == Reading(s) \/ task[s] = "stopping"

(* A task is tracked until it ends, or waited for by the disconnect.        *)
TasksKnown ==
    /\ loop \notin {"closing", "closed"} => \A s \in Streams : Running(s) <=> s \in tracked
    /\ loop = "closing" => \A s \in Streams : Running(s) => s \in closing
    /\ loop = "closed" => \A s \in Streams : ~Running(s)

(* Only an abort and the disconnect cancel; a stopping task was cancelled.  *)
CancelsKnown ==
    /\ \A s \in cancelled : Running(s)
    /\ \A s \in Streams : task[s] = "stopping" => s \in cancelled
    /\ loop \in {"ready", "starting", "putting"} => cancelled = {}
    /\ loop = "aborting" => cancelled \subseteq {on}

(* What the loop knows of the stream it is busy with.                       *)
LoopKnown ==
    /\ loop \in {"starting", "putting", "aborting"} => on \in Streams
    /\ loop = "starting" => active = None /\ task[on] = "none"
    /\ loop = "putting" => task[on] # "none" /\ (active # None => active = on)
    /\ loop \in {"aborting", "closing", "closed"} => active = None
    /\ loop = "putting" /\ task[on] = "done" => queue[on] = <<>>

StreamInv == StreamTypeOK /\ ActiveIsRead /\ TasksKnown /\ CancelsKnown /\ LoopKnown

LEMMA QueueFacts ==
    ASSUME NEW S, NEW q \in Seq(S), NEW x \in S
    PROVE  /\ Append(q, x) \in Seq(S) /\ Len(Append(q, x)) = Len(q) + 1 /\ Append(q, x) # <<>>
           /\ q # <<>> => Tail(q) \in Seq(S) /\ Len(Tail(q)) < Len(q)
           /\ Len(<<>>) = 0 /\ Len(q) \in Nat /\ <<>> \in Seq(S)
OBVIOUS

LEMMA InitStreamInv == StreamInit => StreamInv
BY VoiceStreamAssumption, QueueFacts
DEF StreamInit, StreamInv, StreamTypeOK, ActiveIsRead, TasksKnown, CancelsKnown, LoopKnown, Running,
    Reading, Loops, TaskStates

(* A put changes one queue, within its capacity, or parks the loop.         *)
LEMMA PutFacts ==
    ASSUME StreamTypeOK, NEW s \in Streams, NEW x \in {"chunk", "end"}, Put(s, x)
    PROVE  /\ queue' \in [Streams -> Seq({"chunk", "end"})]
           /\ \A u \in Streams : Len(queue'[u]) <= MaxQueue
           /\ \/ UNCHANGED <<loop, on, item>>
              \/ loop' = "putting" /\ on' = s /\ item' = x
<1>1. queue[s] \in Seq({"chunk", "end"}) /\ Len(queue[s]) <= MaxQueue /\ MaxQueue \in Nat
  BY VoiceStreamAssumption DEF StreamTypeOK
<1>2. Append(queue[s], x) \in Seq({"chunk", "end"}) /\ Len(Append(queue[s], x)) = Len(queue[s]) + 1
      /\ Len(queue[s]) \in Nat
  BY <1>1, QueueFacts
<1>3. CASE Len(queue[s]) < MaxQueue
  <2>1. queue' = [queue EXCEPT ![s] = Append(@, x)] /\ UNCHANGED <<loop, on, item>>
    BY <1>3 DEF Put
  <2> QED BY <1>1, <1>2, <1>3, <2>1 DEF StreamTypeOK
<1>4. CASE ~(Len(queue[s]) < MaxQueue)
  BY <1>4 DEF Put, StreamTypeOK
<1> QED BY <1>3, <1>4

LEMMA ReceiveStep == StreamInv /\ ReceiveFrame => StreamInv'
<1> SUFFICES ASSUME StreamInv, ReceiveFrame PROVE StreamInv'
  OBVIOUS
<1> USE VoiceStreamAssumption DEF Loops, TaskStates, Running, Reading
<1>0. /\ StreamTypeOK /\ ActiveIsRead /\ TasksKnown /\ CancelsKnown /\ LoopKnown
  BY DEF StreamInv
<1>1. ASSUME NEW s \in Streams, HandleStart(s) PROVE StreamInv'
  BY <1>0, <1>1
  DEF HandleStart, StreamInv, StreamTypeOK, ActiveIsRead, TasksKnown, CancelsKnown, LoopKnown
<1>2. ASSUME loop = "ready", active # None, Abort(active) PROVE StreamInv'
  <2>1. active \in Streams /\ Reading(active) /\ cancelled = {}
    BY <1>0, <1>2 DEF StreamTypeOK, ActiveIsRead, CancelsKnown
  <2>2. /\ loop' = "aborting" /\ on' = active /\ cancelled' = {active} /\ active' = None
        /\ UNCHANGED <<item, tracked, closing, queue, audio, task, heard>>
    BY <1>2, <2>1 DEF Abort
  <2> QED BY <1>0, <1>2, <2>1, <2>2
      DEF StreamInv, StreamTypeOK, ActiveIsRead, TasksKnown, CancelsKnown, LoopKnown
<1>3. ASSUME HandleBinary PROVE StreamInv'
  <2>1. loop = "ready" /\ active \in Streams /\ Reading(active)
        /\ cancelled = {} /\ audio[active] \in 0 .. MaxAudio
    BY <1>0, <1>3 DEF HandleBinary, StreamTypeOK, ActiveIsRead, CancelsKnown
  <2>2. CASE audio[active] = MaxAudio
    BY <1>2, <1>3, <2>1, <2>2 DEF HandleBinary
  <2>3. CASE audio[active] # MaxAudio
    <3>1. /\ audio' = [audio EXCEPT ![active] = @ + 1] /\ Put(active, "chunk")
          /\ UNCHANGED <<active, tracked, closing, task, cancelled, heard>>
      BY <1>3, <2>3 DEF HandleBinary
    <3>2. audio' \in [Streams -> 0 .. MaxAudio]
      BY <1>0, <2>1, <2>3, <3>1 DEF StreamTypeOK
    <3>3. /\ queue' \in [Streams -> Seq({"chunk", "end"})]
          /\ \A u \in Streams : Len(queue'[u]) <= MaxQueue
          /\ \/ UNCHANGED <<loop, on, item>>
             \/ loop' = "putting" /\ on' = active /\ item' = "chunk"
      BY <1>0, <2>1, <3>1, PutFacts
    <3> QED BY <1>0, <2>1, <3>1, <3>2, <3>3
        DEF StreamInv, StreamTypeOK, ActiveIsRead, TasksKnown, CancelsKnown, LoopKnown
  <2> QED BY <2>2, <2>3
<1>4. ASSUME HandleEnd PROVE StreamInv'
  <2>1. loop = "ready" /\ active \in Streams /\ Reading(active)
        /\ cancelled = {} /\ active # None
    BY <1>0, <1>4 DEF HandleEnd, StreamTypeOK, ActiveIsRead, CancelsKnown
  <2>2. CASE audio[active] = 0
    BY <1>2, <1>4, <2>1, <2>2 DEF HandleEnd
  <2>3. CASE audio[active] # 0
    <3>1. /\ active' = None /\ Put(active, "end")
          /\ UNCHANGED <<tracked, closing, audio, task, cancelled, heard>>
      BY <1>4, <2>3 DEF HandleEnd
    <3>3. /\ queue' \in [Streams -> Seq({"chunk", "end"})]
          /\ \A u \in Streams : Len(queue'[u]) <= MaxQueue
          /\ \/ UNCHANGED <<loop, on, item>>
             \/ loop' = "putting" /\ on' = active /\ item' = "end"
      BY <1>0, <2>1, <3>1, PutFacts
    <3> QED BY <1>0, <2>1, <3>1, <3>3
        DEF StreamInv, StreamTypeOK, ActiveIsRead, TasksKnown, CancelsKnown, LoopKnown
  <2> QED BY <2>2, <2>3
<1>5. ASSUME HandleDisconnect PROVE StreamInv'
  BY <1>0, <1>5
  DEF HandleDisconnect, StreamInv, StreamTypeOK, ActiveIsRead, TasksKnown, CancelsKnown, LoopKnown
<1> QED BY <1>1, <1>3, <1>4, <1>5 DEF ReceiveFrame

LEMMA ResumeStep == StreamInv /\ Resume => StreamInv'
<1> SUFFICES ASSUME StreamInv, Resume PROVE StreamInv'
  OBVIOUS
<1> USE VoiceStreamAssumption DEF Loops, TaskStates, Running, Reading
<1>0. /\ StreamTypeOK /\ ActiveIsRead /\ TasksKnown /\ CancelsKnown /\ LoopKnown
  BY DEF StreamInv
<1>1. CASE Started
  BY <1>0, <1>1
  DEF Started, StreamInv, StreamTypeOK, ActiveIsRead, TasksKnown, CancelsKnown, LoopKnown
<1>2. CASE PutResumes
  <2>1. /\ loop = "putting" /\ on \in Streams /\ Len(queue[on]) < MaxQueue
        /\ item \in {"chunk", "end"} /\ queue[on] \in Seq({"chunk", "end"})
    BY <1>0, <1>2 DEF PutResumes, StreamTypeOK, LoopKnown
  <2>2. /\ Append(queue[on], item) \in Seq({"chunk", "end"})
        /\ Len(Append(queue[on], item)) = Len(queue[on]) + 1 /\ Len(queue[on]) \in Nat
    BY <2>1, QueueFacts
  <2>3. /\ queue' = [queue EXCEPT ![on] = Append(@, item)] /\ loop' = "ready"
        /\ UNCHANGED <<on, item, active, tracked, closing, audio, task, cancelled, heard>>
    BY <1>2 DEF PutResumes
  <2>4. /\ queue' \in [Streams -> Seq({"chunk", "end"})]
        /\ \A u \in Streams : Len(queue'[u]) <= MaxQueue
    BY <1>0, <2>1, <2>2, <2>3 DEF StreamTypeOK
  <2> QED BY <1>0, <2>1, <2>3, <2>4
      DEF StreamInv, StreamTypeOK, ActiveIsRead, TasksKnown, CancelsKnown, LoopKnown
<1>3. CASE Aborted
  BY <1>0, <1>3
  DEF Aborted, StreamInv, StreamTypeOK, ActiveIsRead, TasksKnown, CancelsKnown, LoopKnown
<1>4. CASE Closed
  BY <1>0, <1>4
  DEF Closed, StreamInv, StreamTypeOK, ActiveIsRead, TasksKnown, CancelsKnown, LoopKnown
<1> QED BY <1>1, <1>2, <1>3, <1>4 DEF Resume

LEMMA TaskStep ==
    ASSUME StreamInv, NEW s \in Streams, RunTask(s) \/ CancelTask(s)
    PROVE  StreamInv'
<1> USE VoiceStreamAssumption DEF Loops, TaskStates, Running, Reading
<1>0. /\ StreamTypeOK /\ ActiveIsRead /\ TasksKnown /\ CancelsKnown /\ LoopKnown
  BY DEF StreamInv
<1>1. CASE Consume(s)
  BY <1>0, <1>1
  DEF Consume, StreamInv, StreamTypeOK, ActiveIsRead, TasksKnown, CancelsKnown, LoopKnown
<1>2. CASE Take(s)
  <2>1. /\ queue[s] \in Seq({"chunk", "end"}) /\ queue[s] # <<>> /\ task[s] = "consuming"
        /\ queue' = [queue EXCEPT ![s] = Tail(@)]
        /\ heard' \in [Streams -> {"yes", "no"}]
        /\ \/ UNCHANGED task
           \/ task' = [task EXCEPT ![s] = "busy"]
        /\ UNCHANGED <<loop, on, item, active, tracked, closing, audio, cancelled>>
    BY <1>0, <1>2 DEF Take, StreamTypeOK
  <2>2. Tail(queue[s]) \in Seq({"chunk", "end"}) /\ Len(Tail(queue[s])) < Len(queue[s])
        /\ Len(queue[s]) \in Nat /\ Len(Tail(queue[s])) \in Nat
    BY <2>1, QueueFacts
  <2>3. /\ queue' \in [Streams -> Seq({"chunk", "end"})]
        /\ \A u \in Streams : Len(queue'[u]) <= MaxQueue
        /\ \A u \in Streams \ {s} : queue'[u] = queue[u]
    BY <1>0, <2>1, <2>2 DEF StreamTypeOK
  <2>4. task' \in [Streams -> TaskStates] /\ \A u \in Streams : Reading(u)' <=> Reading(u)
    BY <1>0, <2>1 DEF StreamTypeOK
  <2> QED BY <1>0, <2>1, <2>3, <2>4
      DEF StreamInv, StreamTypeOK, ActiveIsRead, TasksKnown, CancelsKnown, LoopKnown
<1>3. ASSUME Running(s), Retire(s), Finish(s), UNCHANGED <<loop, on, item, closing, audio, heard>>
      PROVE  StreamInv'
  <2>1. <<>> \in Seq({"chunk", "end"}) /\ Len(<<>>) = 0
    OBVIOUS
  <2>2. /\ queue' \in [Streams -> Seq({"chunk", "end"})]
        /\ \A u \in Streams : Len(queue'[u]) <= MaxQueue
        /\ queue'[s] = <<>> /\ \A u \in Streams \ {s} : queue'[u] = queue[u]
    BY <1>0, <1>3, <2>1 DEF Retire, StreamTypeOK
  <2>3. /\ task' \in [Streams -> TaskStates] /\ task'[s] = "done"
        /\ \A u \in Streams \ {s} : task'[u] = task[u]
        /\ tracked' = tracked \ {s} /\ cancelled' = cancelled \ {s}
        /\ active' \in {active, None} /\ active' # s
    BY <1>0, <1>3 DEF Finish, Retire, StreamTypeOK
  <2>4. StreamTypeOK'
    BY <1>0, <1>3, <2>2, <2>3 DEF StreamTypeOK
  <2>5. ActiveIsRead' /\ TasksKnown' /\ CancelsKnown'
    BY <1>0, <1>3, <2>3 DEF StreamTypeOK, ActiveIsRead, TasksKnown, CancelsKnown
  <2>6. LoopKnown'
    BY <1>0, <1>3, <2>2, <2>3 DEF LoopKnown, StreamTypeOK
  <2> QED BY <2>4, <2>5, <2>6 DEF StreamInv
<1>4. CASE SinkEnds(s)
  BY <1>3, <1>4 DEF SinkEnds
<1>5. CASE SinkStopped(s)
  BY <1>3, <1>5 DEF SinkStopped
<1>6. CASE CancelWaiting(s)
  <2>1. active # s /\ loop # "putting"
    BY <1>0, <1>6 DEF CancelWaiting, ActiveIsRead, CancelsKnown
  <2> QED BY <1>0, <1>6, <2>1
      DEF CancelWaiting, Finish, StreamInv, StreamTypeOK, ActiveIsRead, TasksKnown, CancelsKnown, LoopKnown
<1>7. CASE CancelConsuming(s)
  BY <1>0, <1>7
  DEF CancelConsuming, StreamInv, StreamTypeOK, ActiveIsRead, TasksKnown, CancelsKnown, LoopKnown
<1>8. CASE SinkReturns(s)
  BY <1>0, <1>8
  DEF SinkReturns, StreamInv, StreamTypeOK, ActiveIsRead, TasksKnown, CancelsKnown, LoopKnown
<1> QED BY <1>1, <1>2, <1>4, <1>5, <1>6, <1>7, <1>8 DEF RunTask, CancelTask

THEOREM StreamInductive == StreamSpec => []StreamInv
<1>1. StreamInv /\ UNCHANGED streamVars => StreamInv'
  BY DEF streamVars, StreamInv, StreamTypeOK, ActiveIsRead, TasksKnown, CancelsKnown, LoopKnown, Running, Reading
<1>2. StreamInv /\ [StreamNext]_streamVars => StreamInv'
  BY <1>1, ReceiveStep, ResumeStep, TaskStep DEF StreamNext
<1> QED BY InitStreamInv, <1>2, PTL DEF StreamSpec

(* Every variable keeps its type and no queue exceeds queue_max_chunks, for  *)
(* any maximum and any audio budget.                                        *)
THEOREM StreamTypeCorrect == StreamSpec => []StreamTypeOK
<1>1. StreamInv => StreamTypeOK
  BY DEF StreamInv
<1> QED BY <1>1, StreamInductive, PTL

(* A stream that accepts frames has a task to read them (_drain_to_sink      *)
(* retires however consume() ended).                                        *)
THEOREM ActiveStreamsRead == StreamSpec => []ActiveIsRead
<1>1. StreamInv => ActiveIsRead
  BY DEF StreamInv
<1> QED BY <1>1, StreamInductive, PTL

(* The receive loop is never parked on a queue nobody reads any more         *)
(* (_retire_stream).                                                        *)
THEOREM NeverWedged == StreamSpec => []ParkedIsRead
<1>1. StreamInv => ParkedIsRead
  <2> SUFFICES ASSUME StreamInv, loop = "putting", Len(queue[on]) = MaxQueue
               PROVE  Reading(on) /\ on \notin cancelled
    BY DEF ParkedIsRead
  <2>1. on \in Streams /\ task[on] \in TaskStates /\ task[on] # "none" /\ cancelled = {}
    BY DEF StreamInv, StreamTypeOK, LoopKnown, CancelsKnown
  <2>2. task[on] # "done"
    BY VoiceStreamAssumption DEF StreamInv, LoopKnown
  <2>3. task[on] # "stopping"
    BY <2>1 DEF StreamInv, CancelsKnown
  <2> QED BY <2>1, <2>2, <2>3 DEF TaskStates, Reading
<1> QED BY <1>1, StreamInductive, PTL

(* A closed connection leaves no task of its streams behind                  *)
(* (handle_disconnect).                                                     *)
THEOREM NothingLeftBehind == StreamSpec => []ClosedIsQuiet
<1>1. StreamInv => ClosedIsQuiet
  BY DEF StreamInv, StreamTypeOK, TasksKnown, ClosedIsQuiet, Running, Reading, TaskStates
<1> QED BY <1>1, StreamInductive, PTL

(* Every frame handle_frame takes has a reader, and no reader outlives its   *)
(* connection (handle_disconnect).                                          *)
THEOREM StreamsCorrect == StreamSpec => []StreamsAreRead
BY ActiveStreamsRead, NeverWedged, NothingLeftBehind, PTL DEF StreamsAreRead
==============================================================================
