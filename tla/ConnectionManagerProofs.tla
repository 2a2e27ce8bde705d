----------------------- MODULE ConnectionManagerProofs -----------------------
(***************************************************************************)
(* What the clients of a ConnectionManager hear of bursts, for any number  *)
(* of sessions, bursts, messages and fan-outs.  The invariant has three    *)
(* parts: the frames that wait for the write lock belong to tasks that     *)
(* wait for them (QueueInv), the bursts of a session take turns at its     *)
(* audio lock (OneBurst), and the last start or end a client was sent is   *)
(* the start of the burst that may still send it a chunk or an end         *)
(* (WireInv).  The audio lock alone does not say the last: a cancelled     *)
(* burst leaves it while its end waits in the queue of frames, and the     *)
(* next burst's start comes through because it queues behind that end      *)
(* (EndsBeforeStarts).                                                     *)
(***************************************************************************)
EXTENDS ConnectionManager, SequenceTheorems, TLAPS

(* A frame that waits is its writer's, of a session the writer writes to.   *)
Waits(f, s) ==
    /\ f.of \in Tasks /\ goal[f.of] = s
    /\ CASE f.kind = "start" -> f.of \in Bursts /\ pc[f.of] = "starting"
         [] f.kind = "chunk" -> f.of \in Bursts /\ pc[f.of] = "chunk"
         [] f.kind = "end" -> f.of \in Bursts /\ ender[f.of] = "queued"
         [] f.kind = "message" -> f.of \notin Bursts /\ pc[f.of] = "sending"

Inside == {"starting", "feeding", "chunk", "ending"}

(* Every frame in a queue is waited for by its writer, and is there once.    *)
WritersWait == \A s \in Sessions :
    /\ \A i \in DOMAIN write[s] : Waits(write[s][i], s)
    /\ \A i, j \in DOMAIN write[s] : write[s][i] = write[s][j] => i = j

(* A burst past the lock is at its head.                                    *)
OneBurst ==
    /\ \A b \in Bursts : pc[b] \in Inside =>
        goal[b] \in Sessions /\ audio[goal[b]] # <<>> /\ Head(audio[goal[b]]) = b
    /\ \A b \in Bursts : pc[b] = "queued" =>
        goal[b] \in Sessions /\ \E i \in DOMAIN audio[goal[b]] : audio[goal[b]][i] = b
    /\ \A s \in Sessions :
        /\ \A i \in DOMAIN audio[s] : goal[audio[s][i]] = s /\ pc[audio[s][i]] \in Inside \cup {"queued"}
        /\ \A i, j \in DOMAIN audio[s] : audio[s][i] = audio[s][j] => i = j

(* The end message of a burst is scheduled by the burst, which cannot leave *)
(* before it has been put in the queue.                                     *)
EndersFollow == \A b \in Bursts :
    /\ ender[b] = "new" => pc[b] = "ending"
    /\ ender[b] # "none" => pc[b] \in {"ending", "done"} /\ goal[b] \in Sessions

(* An end that was queued waits until it is done with.                      *)
EndsWait == \A b \in Bursts : ender[b] = "queued" =>
    \E i \in DOMAIN write[goal[b]] : write[goal[b]][i] = F(b, "end")

(* Behind a start there is no end of an earlier burst.                       *)
EndsBeforeStarts == \A s \in Sessions : \A i, j \in DOMAIN write[s] :
    i < j /\ write[s][i].kind = "start" => write[s][j].kind # "end"

OnWire(s, f) == \E i \in DOMAIN wire[s] : wire[s][i] = f

LastMark(s, f) == \E i \in DOMAIN wire[s] :
    /\ wire[s][i] = f
    /\ \A j \in DOMAIN wire[s] : j > i => wire[s][j].kind \notin {"start", "end"}

(* What is being sent is the last the client was sent.                      *)
SendingLast == \A s \in Sessions : sending[s] = "yes" =>
    /\ wire[s] # <<>> /\ wire[s][Len(wire[s])] = Head(write[s])

(* A burst the client is in.                                                *)
Open(b) == \/ pc[b] \in {"feeding", "chunk"}
           \/ ender[b] = "new"
           \/ ender[b] = "queued" /\ ~OnWire(goal[b], F(b, "end"))

(* While the client is in a burst, its start is the last mark it was sent.   *)
OpenIsLast == \A b \in Bursts : Open(b) /\ Live(goal[b]) => LastMark(goal[b], F(b, "start"))

(* A chunk or an end the client has received is of a burst that got so far. *)
FramesKnown == \A s \in Sessions : \A i \in DOMAIN wire[s] :
    /\ wire[s][i].kind = "chunk" =>
        /\ wire[s][i].of \in Bursts /\ goal[wire[s][i].of] = s
        /\ pc[wire[s][i].of] \in {"feeding", "chunk"} \/ ender[wire[s][i].of] # "none"
    /\ wire[s][i].kind = "end" =>
        /\ wire[s][i].of \in Bursts /\ goal[wire[s][i].of] = s
        /\ \/ ender[wire[s][i].of] = "done"
           \/ /\ ender[wire[s][i].of] = "queued"
              /\ sending[s] = "yes" /\ Head(write[s]) = wire[s][i]

(* An end that is done with has been sent, or the client is gone.            *)
EndsSent == \A b \in Bursts : ender[b] = "done" /\ Live(goal[b]) => OnWire(goal[b], F(b, "end"))

QueueInv == WritersWait /\ EndsBeforeStarts /\ EndsWait /\ EndersFollow
WireInv == SendingLast /\ OpenIsLast /\ FramesKnown /\ EndsSent /\ BurstsDoNotOverlap
IInv == TypeOK /\ QueueInv /\ OneBurst /\ WireInv

------------------------------------------------------------------------------
(* What taking frames out of a queue leaves, in order.                      *)
Thins(r, q) ==
    /\ \A i \in DOMAIN r : \E k \in DOMAIN q : r[i] = q[k]
    /\ \A i, j \in DOMAIN r : i < j =>
           \E k, l \in DOMAIN q : k < l /\ r[i] = q[k] /\ r[j] = q[l]

LEMMA AppendFacts ==
    ASSUME NEW S, NEW q \in Seq(S), NEW x \in S
    PROVE  /\ Append(q, x) \in Seq(S) /\ Append(q, x) # <<>>
           /\ Len(q) \in Nat /\ Len(Append(q, x)) = Len(q) + 1
           /\ DOMAIN q = 1 .. Len(q) /\ DOMAIN Append(q, x) = 1 .. Len(q) + 1
           /\ \A i \in 1 .. Len(q) : Append(q, x)[i] = q[i]
           /\ Append(q, x)[Len(q) + 1] = x
           /\ q # <<>> => Head(Append(q, x)) = Head(q)
<1>1. /\ Append(q, x) \in Seq(S) /\ Len(q) \in Nat /\ Len(Append(q, x)) = Len(q) + 1
      /\ DOMAIN q = 1 .. Len(q)
  OBVIOUS
<1>2. DOMAIN Append(q, x) = 1 .. Len(q) + 1 /\ Append(q, x) # <<>>
  BY <1>1
<1>3. Append(q, x)[Len(q) + 1] = x /\ \A i \in 1 .. Len(q) : Append(q, x)[i] = q[i]
  OBVIOUS
<1>4. ASSUME q # <<>> PROVE Head(Append(q, x)) = Head(q)
  BY <1>1, <1>2, <1>3, <1>4
<1> QED BY <1>1, <1>2, <1>3, <1>4

LEMMA TailFacts ==
    ASSUME NEW S, NEW q \in Seq(S), q # <<>>
    PROVE  /\ Tail(q) \in Seq(S) /\ Thins(Tail(q), q)
           /\ 1 \in DOMAIN q /\ Head(q) = q[1]
           /\ \A i \in DOMAIN Tail(q) : \E k \in DOMAIN q : k # 1 /\ Tail(q)[i] = q[k]
           /\ \A k \in DOMAIN q : k # 1 => \E i \in DOMAIN Tail(q) : Tail(q)[i] = q[k]
<1>1. Tail(q) \in Seq(S) /\ Len(Tail(q)) = Len(q) - 1 /\ Len(q) \in Nat /\ Len(q) > 0
  OBVIOUS
<1>2. \A i \in 1 .. Len(q) - 1 : Tail(q)[i] = q[i + 1]
  OBVIOUS
<1>3. DOMAIN Tail(q) = 1 .. Len(q) - 1 /\ DOMAIN q = 1 .. Len(q)
  BY <1>1
<1>4. ASSUME NEW i \in DOMAIN Tail(q)
      PROVE  i + 1 \in DOMAIN q /\ i + 1 # 1 /\ Tail(q)[i] = q[i + 1]
  BY <1>1, <1>2, <1>3, <1>4
<1>5. ASSUME NEW i \in DOMAIN Tail(q), NEW j \in DOMAIN Tail(q), i < j
      PROVE  \E k, l \in DOMAIN q : k < l /\ Tail(q)[i] = q[k] /\ Tail(q)[j] = q[l]
  <2>1. i + 1 \in DOMAIN q /\ j + 1 \in DOMAIN q /\ i + 1 < j + 1
    BY <1>1, <1>3, <1>5, <1>4
  <2> QED BY <2>1, <1>4
<1>6. Thins(Tail(q), q)
  BY <1>4, <1>5 DEF Thins
<1>7. ASSUME NEW k \in DOMAIN q, k # 1
      PROVE  \E i \in DOMAIN Tail(q) : Tail(q)[i] = q[k]
  <2>1. k - 1 \in DOMAIN Tail(q) /\ (k - 1) + 1 = k
    BY <1>1, <1>3, <1>7
  <2> QED BY <2>1, <1>4
<1> QED BY <1>1, <1>3, <1>4, <1>6, <1>7

LEMMA DropFacts ==
    ASSUME NEW S, NEW q \in Seq(S), NEW x
    PROVE  /\ Drop(q, x) \in Seq(S) /\ Thins(Drop(q, x), q)
           /\ (\A i, j \in DOMAIN q : q[i] = q[j] => i = j) =>
                \A i \in DOMAIN Drop(q, x) : Drop(q, x)[i] # x
           /\ \A i \in DOMAIN q : q[i] # x => \E j \in DOMAIN Drop(q, x) : Drop(q, x)[j] = q[i]
           /\ q # <<>> /\ Head(q) # x => Drop(q, x) # <<>> /\ Head(Drop(q, x)) = Head(q)
<1>1. CASE ~ \E i \in DOMAIN q : q[i] = x
  BY <1>1 DEF Drop, Thins
<1>2. CASE \E i \in DOMAIN q : q[i] = x
  <2> DEFINE n == CHOOSE i \in DOMAIN q : q[i] = x
             r == RemoveAt(q, n)
  <2>1. n \in 1 .. Len(q) /\ q[n] = x
    BY <1>2
  <2>2. Drop(q, x) = r
    BY <1>2 DEF Drop
  <2> HIDE DEF n
  <2>3. /\ r \in Seq(S) /\ Len(r) = Len(q) - 1
        /\ \A i \in 1 .. Len(r) : r[i] = IF i < n THEN q[i] ELSE q[i + 1]
    <3> DEFINE a == SubSeq(q, 1, n - 1)
               b == SubSeq(q, n + 1, Len(q))
    <3>1. a \in Seq(S) /\ Len(a) = n - 1 /\ \A i \in 1 .. n - 1 : a[i] = q[i]
      BY <2>1
    <3>2. b \in Seq(S) /\ Len(b) = Len(q) - n /\ \A i \in 1 .. Len(q) - n : b[i] = q[n + i]
      BY <2>1
    <3>3. r = a \o b
      BY DEF RemoveAt
    <3> HIDE DEF a, b, r
    <3>4. r \in Seq(S) /\ Len(r) = Len(a) + Len(b)
      BY <3>1, <3>2, <3>3
    <3>5. \A i \in 1 .. Len(r) : r[i] = IF i <= Len(a) THEN a[i] ELSE b[i - Len(a)]
      <4>1. a \in Seq(S) /\ b \in Seq(S)
        BY <3>1, <3>2
      <4>2. \A i \in 1 .. Len(a) + Len(b) : (a \o b)[i] = IF i <= Len(a) THEN a[i] ELSE b[i - Len(a)]
        BY <4>1, ConcatProperties
      <4> QED BY <3>3, <3>4, <4>2
    <3>6. ASSUME NEW i \in 1 .. Len(r) PROVE r[i] = IF i < n THEN q[i] ELSE q[i + 1]
      <4>1. CASE i < n
        <5>1. i \in 1 .. n - 1 /\ i <= Len(a)
          BY <4>1, <3>1, <3>2, <3>4, <2>1
        <5>2. r[i] = a[i]
          BY <3>5, <5>1
        <5> QED BY <4>1, <3>1, <5>1, <5>2
      <4>2. CASE ~(i < n)
        <5>1. i - Len(a) \in 1 .. Len(q) - n /\ n + (i - Len(a)) = i + 1
          BY <4>2, <3>1, <3>2, <3>4, <2>1
        <5>2. r[i] = b[i - Len(a)]
          <6>1. ~(i <= Len(a))
            BY <4>2, <3>1, <2>1
          <6> QED BY <3>5, <6>1
        <5>3. b[i - Len(a)] = q[n + (i - Len(a))]
          BY <5>1, <3>2
        <5> QED BY <4>2, <5>1, <5>2, <5>3
      <4> QED BY <4>1, <4>2
    <3>7. Len(a) + Len(b) = Len(q) - 1
      BY <3>1, <3>2, <2>1
    <3> QED BY <3>4, <3>6, <3>7
  <2> HIDE DEF r
  <2>4. DOMAIN r = 1 .. Len(r) /\ DOMAIN q = 1 .. Len(q) /\ Len(q) \in Nat
    BY <2>3
  <2>5. ASSUME NEW i \in DOMAIN r
        PROVE  \E k \in DOMAIN q : k # n /\ r[i] = q[k]
    <3>1. CASE i < n
      BY <3>1, <2>1, <2>3, <2>4
    <3>2. CASE ~(i < n)
      <4>1. i + 1 \in DOMAIN q /\ i + 1 # n
        BY <3>2, <2>1, <2>3, <2>4
      <4> QED BY <3>2, <4>1, <2>3, <2>4
    <3> QED BY <3>1, <3>2
  <2>6. ASSUME NEW i \in DOMAIN r, NEW j \in DOMAIN r, i < j
        PROVE  \E k, l \in DOMAIN q : k < l /\ r[i] = q[k] /\ r[j] = q[l]
    <3> DEFINE at(m) == IF m < n THEN m ELSE m + 1
    <3>1. at(i) \in DOMAIN q /\ at(j) \in DOMAIN q /\ at(i) < at(j)
      BY <2>1, <2>3, <2>4, <2>6
    <3>2. r[i] = q[at(i)] /\ r[j] = q[at(j)]
      BY <2>3, <2>4
    <3> QED BY <3>1, <3>2
  <2>7. ASSUME NEW i \in DOMAIN q, q[i] # x
        PROVE  \E j \in DOMAIN r : r[j] = q[i]
    <3>1. CASE i < n
      <4>1. i \in DOMAIN r
        BY <3>1, <2>1, <2>3, <2>4
      <4> QED BY <4>1, <3>1, <2>3, <2>4
    <3>2. CASE ~(i < n)
      <4>1. i - 1 \in DOMAIN r /\ ~(i - 1 < n) /\ (i - 1) + 1 = i
        BY <3>2, <2>7, <2>1, <2>3, <2>4
      <4> QED BY <4>1, <2>3, <2>4
    <3> QED BY <3>1, <3>2
  <2>8. q # <<>> /\ Head(q) # x => r # <<>> /\ Head(r) = Head(q)
    BY <2>1, <2>3, <2>4
  <2>9. Thins(r, q)
    BY <2>5, <2>6 DEF Thins
  <2>10. (\A i, j \in DOMAIN q : q[i] = q[j] => i = j) => \A i \in DOMAIN r : r[i] # x
    BY <2>1, <2>4, <2>5
  <2> QED BY <2>2, <2>3, <2>7, <2>8, <2>9, <2>10
<1> QED BY <1>1, <1>2

------------------------------------------------------------------------------
(* What the helpers of the actions return.                                   *)
LEMMA FrameFields ==
    ASSUME NEW t \in Tasks, NEW k \in {"start", "chunk", "end", "message"}
    PROVE  F(t, k) \in Frame /\ F(t, k).of = t /\ F(t, k).kind = k
BY DEF F, Frame

LEMMA AfterTypes ==
    ASSUME TypeOK, NEW f \in Frame, NEW s \in Sessions, NEW how, After(f, s, how)
    PROVE  /\ pc' \in [Tasks -> PCs] /\ audio' \in [Sessions -> Seq(Bursts)]
           /\ ender' \in [Bursts -> {"none", "new", "queued", "done"}]
<1>1. f.of \in Tasks
  BY DEF Frame
<1>2. NextPc(f, how) \in PCs
  BY <1>1 DEF NextPc, TypeOK, PCs
<1>3. audio[s] \in Seq(Bursts)
  BY DEF TypeOK
<1>4. Drop(audio[s], f.of) \in Seq(Bursts)
  BY <1>3, DropFacts
<1> QED BY <1>1, <1>2, <1>3, <1>4 DEF After, TypeOK

LEMMA WriteTypes ==
    ASSUME TypeOK, NEW t \in Tasks, NEW s \in Sessions \cup {None},
           NEW k \in {"start", "chunk", "message"}, NEW w \in PCs, Write(t, s, k, w),
           s \in Sessions
    PROVE  /\ pc' \in [Tasks -> PCs] /\ audio' \in [Sessions -> Seq(Bursts)]
           /\ ender' \in [Bursts -> {"none", "new", "queued", "done"}]
           /\ write' \in [Sessions -> Seq(Frame)]
           /\ \A r \in Sessions : write[r] # <<>> => write'[r] # <<>>
<1>1. F(t, k) \in Frame /\ write[s] \in Seq(Frame)
  BY FrameFields DEF TypeOK
<1>2. Append(write[s], F(t, k)) \in Seq(Frame) /\ Append(write[s], F(t, k)) # <<>>
  BY <1>1, AppendFacts
<1>3. CASE registered[s] = "yes"
  BY <1>1, <1>2, <1>3 DEF Write, TypeOK
<1>4. CASE registered[s] # "yes"
  BY <1>1, <1>4, AfterTypes DEF Write, TypeOK
<1> QED BY <1>3, <1>4

LEMMA DropTypes ==
    ASSUME TypeOK, NEW s
    PROVE  \A b \in Bursts : [audio EXCEPT ![s] = Drop(@, b)] \in [Sessions -> Seq(Bursts)]
<1>1. CASE s \in Sessions
  BY <1>1, DropFacts DEF TypeOK
<1>2. CASE s \notin Sessions
  BY <1>2 DEF TypeOK
<1> QED BY <1>1, <1>2

LEMMA WithdrawTypes ==
    ASSUME TypeOK, NEW f, NEW s \in Sessions, Withdraw(f, s)
    PROVE  /\ write' \in [Sessions -> Seq(Frame)] /\ sending' \in [Sessions -> {"yes", "no"}]
           /\ \A r \in Sessions : sending'[r] = "yes" => write'[r] # <<>>
<1>1. /\ write[s] \in Seq(Frame) /\ Drop(write[s], f) \in Seq(Frame)
      /\ write[s] # <<>> /\ Head(write[s]) # f => Drop(write[s], f) # <<>>
  BY DropFacts DEF TypeOK
<1> QED BY <1>1 DEF Withdraw, TypeOK

------------------------------------------------------------------------------
(* The queues of frames.  One task acts; the others' frames wait as before.  *)
OnlyActs(t) ==
    /\ \A u \in Tasks \ {t} : pc'[u] = pc[u] /\ goal'[u] = goal[u]
    /\ \A b \in Bursts \ {t} : ender'[b] = ender[b]

LEMMA WaitsStill ==
    ASSUME TypeOK, NEW t \in Tasks, OnlyActs(t), NEW s, NEW f \in Frame, f.of # t, Waits(f, s)
    PROVE  Waits(f, s)'
<1>1. f.of \in Tasks \ {t} /\ f.kind \in {"start", "chunk", "end", "message"}
  BY DEF Frame
<1>2. f.of \in Bursts => ender'[f.of] = ender[f.of]
  BY <1>1 DEF OnlyActs
<1> QED BY <1>1, <1>2 DEF Waits, OnlyActs

LEMMA QueueThins ==
    ASSUME TypeOK, TypeOK', WritersWait, EndsBeforeStarts, NEW s \in Sessions, NEW t \in Tasks,
           OnlyActs(t), \A r \in Sessions \ {s} : write'[r] = write[r],
           Thins(write'[s], write[s]),
           \A r \in Sessions : \A i \in DOMAIN write'[r] :
               write'[r][i].of = t => Waits(write[r][i], r)'
    PROVE  WritersWait' /\ EndsBeforeStarts'
<1>1. ASSUME NEW r \in Sessions, NEW i \in DOMAIN write'[r]
      PROVE  Waits(write[r][i], r)'
  <2>1. PICK k \in DOMAIN write[r] : write'[r][i] = write[r][k]
    BY <1>1 DEF Thins
  <2>2. PICK f \in Frame : f = write[r][k] /\ Waits(f, r)
    BY DEF TypeOK, WritersWait
  <2>3. f.of # t => Waits(f, r)'
    BY <2>2, WaitsStill
  <2>4. write'[r][i] = f
    BY <2>1, <2>2
  <2> QED BY <1>1, <2>3, <2>4, ZenonT(30) DEF Waits
<1>2. ASSUME NEW r \in Sessions, NEW i \in DOMAIN write'[r], NEW j \in DOMAIN write'[r], i < j
      PROVE  write'[r][i] # write'[r][j] /\ (write'[r][i].kind = "start" => write'[r][j].kind # "end")
  <2>1. CASE r # s
    <3>1. i \in Nat /\ j \in Nat
      BY <1>2, <2>1 DEF TypeOK
    <3> QED BY <1>2, <2>1, <3>1 DEF WritersWait, EndsBeforeStarts
  <2>2. CASE r = s
    <3>1. PICK k \in DOMAIN write[s], l \in DOMAIN write[s] :
              k < l /\ write'[s][i] = write[s][k] /\ write'[s][j] = write[s][l]
      BY <1>2, <2>2 DEF Thins
    <3>2. k \in Nat /\ l \in Nat /\ k # l
      <4>1. write[s] \in Seq(Frame)
        BY DEF TypeOK
      <4>2. DOMAIN write[s] = 1 .. Len(write[s]) /\ Len(write[s]) \in Nat
        BY <4>1
      <4> QED BY <3>1, <4>2
    <3> QED BY <2>2, <3>1, <3>2 DEF WritersWait, EndsBeforeStarts
  <2> QED BY <2>1, <2>2
<1>3. ASSUME NEW r \in Sessions, NEW i \in DOMAIN write'[r], NEW j \in DOMAIN write'[r],
             write'[r][i] = write'[r][j]
      PROVE  i = j
  <2>1. i \in Nat /\ j \in Nat
    BY <1>3 DEF TypeOK
  <2> QED BY <1>2, <1>3, <2>1
<1> QED BY <1>1, <1>2, <1>3 DEF WritersWait, EndsBeforeStarts

(* t's frame of kind k is put in the queue of s.                             *)
Queues(s, t, k) == write' = [write EXCEPT ![s] = Append(@, F(t, k))]

LEMMA QueueGrows ==
    ASSUME TypeOK, TypeOK', WritersWait, EndsBeforeStarts, NEW s \in Sessions, NEW t \in Tasks,
           OnlyActs(t), NEW k \in {"start", "chunk", "end", "message"},
           Queues(s, t, k), Waits(F(t, k), s)', ~Waits(F(t, k), s),
           \A r \in Sessions : \A i \in DOMAIN write[r] : write[r][i].of = t =>
               write[r][i].kind = "end" /\ ender'[t] = ender[t] /\ goal'[t] = goal[t],
           k = "end" => \A i \in DOMAIN write[s] : write[s][i].kind # "start"
    PROVE  WritersWait' /\ EndsBeforeStarts'
<1> DEFINE q == write[s]
           new == Append(q, F(t, k))
<1>0. q \in Seq(Frame) /\ F(t, k) \in Frame /\ F(t, k).of = t /\ F(t, k).kind = k
  BY FrameFields DEF TypeOK
<1>1. /\ Len(q) \in Nat /\ DOMAIN q = 1 .. Len(q) /\ DOMAIN new = 1 .. Len(q) + 1
      /\ \A i \in 1 .. Len(q) : new[i] = q[i]
      /\ new[Len(q) + 1] = F(t, k)
  BY <1>0, AppendFacts
<1>2. write'[s] = new /\ \A r \in Sessions \ {s} : write'[r] = write[r]
  BY DEF TypeOK, Queues
<1> HIDE DEF q, new
<1>3. ASSUME NEW r \in Sessions, NEW i \in DOMAIN write[r]
      PROVE  \A f : f = write[r][i] => Waits(f, r)'
  <2>1. PICK f \in Frame : f = write[r][i] /\ Waits(f, r)
    BY DEF TypeOK, WritersWait
  <2>2. f.of # t => Waits(f, r)'
    BY <2>1, WaitsStill
  <2>3. f.of = t => f.kind = "end" /\ ender'[t] = ender[t] /\ goal'[t] = goal[t]
    BY <2>1
  <2>4. f.of = t => Waits(f, r)'
    BY <2>1, <2>3 DEF Waits
  <2> QED BY <2>1, <2>2, <2>4
<1>4. ASSUME NEW r \in Sessions, NEW i \in DOMAIN write'[r]
      PROVE  \A f : f = write'[r][i] => Waits(f, r)'
  <2>1. CASE r # s
    BY <1>2, <1>3, <1>4, <2>1
  <2>2. CASE r = s /\ i \in 1 .. Len(q)
    BY <1>1, <1>2, <1>3, <2>2 DEF q
  <2>3. CASE r = s /\ i = Len(q) + 1
    BY <1>1, <1>2, <2>3
  <2> QED BY <1>1, <1>2, <1>4, <2>1, <2>2, <2>3
<1>5. \A i \in 1 .. Len(q) : q[i] # F(t, k)
  BY <1>1 DEF q, WritersWait
<1>6. ASSUME NEW r \in Sessions, NEW i \in DOMAIN write'[r], NEW j \in DOMAIN write'[r], i < j
      PROVE  write'[r][i] # write'[r][j] /\ (write'[r][i].kind = "start" => write'[r][j].kind # "end")
  <2>1. CASE r # s
    <3>1. i \in Nat /\ j \in Nat
      BY <1>6, <2>1 DEF TypeOK
    <3> QED BY <1>2, <1>6, <2>1, <3>1 DEF WritersWait, EndsBeforeStarts
  <2>2. CASE r = s /\ j \in 1 .. Len(q)
    <3>1. i \in 1 .. Len(q)
      BY <1>1, <1>2, <1>6, <2>2
    <3> QED BY <1>1, <1>2, <1>6, <2>2, <3>1 DEF WritersWait, EndsBeforeStarts, q
  <2>3. CASE r = s /\ j = Len(q) + 1
    <3>1. i \in 1 .. Len(q)
      BY <1>1, <1>2, <1>6, <2>3
    <3> QED BY <1>0, <1>1, <1>2, <1>5, <2>3, <3>1 DEF q
  <2> QED BY <1>1, <1>2, <1>6, <2>1, <2>2, <2>3
<1>7. ASSUME NEW r \in Sessions, NEW i \in DOMAIN write'[r], NEW j \in DOMAIN write'[r],
             write'[r][i] = write'[r][j]
      PROVE  i = j
  <2>1. i \in Nat /\ j \in Nat
    BY <1>7 DEF TypeOK
  <2> QED BY <1>6, <1>7, <2>1
<1>8. ASSUME NEW r \in Sessions, NEW i \in DOMAIN write'[r]
      PROVE  Waits(write[r][i], r)'
  <2>1. PICK f : f = write'[r][i] /\ Waits(f, r)'
    BY <1>4, <1>8
  <2> QED BY <2>1 DEF Waits
<1> QED BY <1>6, <1>7, <1>8 DEF WritersWait, EndsBeforeStarts

------------------------------------------------------------------------------
(* The lock of the bursts.                                                  *)
InLine == Inside \cup {"queued"}

LEMMA LineStays ==
    ASSUME OneBurst, audio' = audio,
           \A b \in Bursts :
               /\ \/ goal'[b] = goal[b]
                  \/ pc[b] \notin InLine /\ pc'[b] \notin InLine
               /\ \/ pc'[b] = pc[b]
                  \/ pc[b] \in Inside /\ pc'[b] \in Inside
                  \/ pc[b] = "queued" /\ Head(audio[goal[b]]) = b /\ pc'[b] \in Inside
                  \/ pc[b] \notin InLine /\ pc'[b] \notin InLine,
           TypeOK
    PROVE  OneBurst'
<1>1. \A s \in Sessions : \A i \in DOMAIN audio[s] : audio[s][i] \in Bursts
  BY DEF TypeOK
<1>2. ASSUME NEW b \in Bursts, pc'[b] \in Inside
      PROVE goal'[b] \in Sessions /\ audio[goal'[b]] # <<>> /\ Head(audio[goal'[b]]) = b
  <2>1. pc[b] \in InLine /\ goal'[b] = goal[b] /\ goal[b] \in Sessions
    BY <1>2 DEF OneBurst, InLine
  <2>2. CASE pc[b] \in Inside
    BY <2>1, <2>2 DEF OneBurst
  <2>3. CASE pc[b] = "queued"
    <3>1. Head(audio[goal[b]]) = b
      BY <1>2, <2>3 DEF Inside, InLine
    <3>2. audio[goal[b]] # <<>>
      BY <2>1, <2>3 DEF OneBurst
    <3> QED BY <2>1, <3>1, <3>2
  <2> QED BY <2>1, <2>2, <2>3 DEF InLine
<1>3. ASSUME NEW b \in Bursts, pc'[b] = "queued"
      PROVE goal'[b] \in Sessions /\ \E i \in DOMAIN audio[goal'[b]] : audio[goal'[b]][i] = b
  BY <1>3 DEF OneBurst, InLine, Inside
<1>4. ASSUME NEW s \in Sessions, NEW i \in DOMAIN audio[s]
      PROVE  goal'[audio[s][i]] = s /\ pc'[audio[s][i]] \in InLine
  BY <1>1 DEF OneBurst, InLine
<1> QED BY <1>2, <1>3, <1>4 DEF OneBurst, InLine

(* b leaves the line, from wherever it stands in it.                        *)
LEMMA LineLeft ==
    ASSUME TypeOK, TypeOK', OneBurst, NEW b \in Bursts, pc[b] \in InLine, pc'[b] \notin InLine,
           audio' = [audio EXCEPT ![goal[b]] = Drop(@, b)],
           \A o \in Bursts \ {b} : pc'[o] = pc[o] /\ goal'[o] = goal[o]
    PROVE  OneBurst'
<1> DEFINE s == goal[b]
           q == audio[s]
           r == Drop(q, b)
<1>1. s \in Sessions /\ q \in Seq(Bursts) /\ \E i \in DOMAIN q : q[i] = b
  BY DEF OneBurst, InLine, TypeOK
<1>2. \A i, j \in DOMAIN q : q[i] = q[j] => i = j
  BY <1>1 DEF OneBurst
<1>3. /\ Thins(r, q) /\ r \in Seq(Bursts)
      /\ \A i \in DOMAIN r : r[i] # b
      /\ \A i \in DOMAIN q : q[i] # b => \E j \in DOMAIN r : r[j] = q[i]
      /\ q # <<>> /\ Head(q) # b => r # <<>> /\ Head(r) = Head(q)
  <2> HIDE DEF q
  <2> QED BY <1>1, <1>2, DropFacts
<1>4. audio'[s] = r /\ \A o \in Sessions \ {s} : audio'[o] = audio[o]
  BY <1>1 DEF TypeOK
<1> HIDE DEF r
<1>5. ASSUME NEW o \in Bursts, pc'[o] \in Inside
      PROVE  goal'[o] \in Sessions /\ audio'[goal'[o]] # <<>> /\ Head(audio'[goal'[o]]) = o
  <2>1. o # b /\ pc[o] \in Inside /\ goal'[o] = goal[o]
    BY <1>5 DEF InLine
  <2>2. goal[o] \in Sessions /\ audio[goal[o]] # <<>> /\ Head(audio[goal[o]]) = o
    BY <2>1 DEF OneBurst
  <2> QED BY <2>1, <2>2, <1>3, <1>4
<1>6. ASSUME NEW o \in Bursts, pc'[o] = "queued"
      PROVE  goal'[o] \in Sessions /\ \E i \in DOMAIN audio'[goal'[o]] : audio'[goal'[o]][i] = o
  <2>1. o # b /\ pc[o] = "queued" /\ goal'[o] = goal[o]
    BY <1>6 DEF InLine
  <2>2. goal[o] \in Sessions /\ \E i \in DOMAIN audio[goal[o]] : audio[goal[o]][i] = o
    BY <2>1 DEF OneBurst
  <2>3. CASE goal[o] = s
    <3>1. PICK i \in DOMAIN q : q[i] = o
      BY <2>2, <2>3
    <3>2. \E j \in DOMAIN r : r[j] = o
      BY <1>3, <2>1, <3>1
    <3> QED BY <2>1, <2>2, <2>3, <3>2, <1>4
  <2> QED BY <2>1, <2>2, <2>3, <1>4
<1>7. ASSUME NEW o \in Sessions
      PROVE  /\ \A i \in DOMAIN audio'[o] : goal'[audio'[o][i]] = o /\ pc'[audio'[o][i]] \in InLine
             /\ \A i, j \in DOMAIN audio'[o] : audio'[o][i] = audio'[o][j] => i = j
  <2>1. CASE o = s
    <3>1. ASSUME NEW i \in DOMAIN r PROVE goal'[r[i]] = s /\ pc'[r[i]] \in InLine
      <4>1. PICK k \in DOMAIN q : r[i] = q[k]
        BY <1>3 DEF Thins
      <4>2. q[k] \in Bursts \ {b} /\ goal[q[k]] = s /\ pc[q[k]] \in InLine
        BY <1>1, <1>3, <4>1 DEF OneBurst, InLine
      <4> QED BY <4>1, <4>2
    <3>2. ASSUME NEW i \in DOMAIN r, NEW j \in DOMAIN r, i < j PROVE r[i] # r[j]
      <4>1. PICK k \in DOMAIN q, l \in DOMAIN q : k < l /\ r[i] = q[k] /\ r[j] = q[l]
        BY <1>3, <3>2 DEF Thins
      <4>2. k \in Nat /\ l \in Nat
        BY <1>1
      <4> QED BY <4>1, <4>2, <1>2
    <3>3. \A i, j \in DOMAIN r : i \in Nat /\ j \in Nat
      BY <1>3
    <3> QED BY <2>1, <3>1, <3>2, <3>3, <1>4
  <2>2. CASE o # s
    <3>1. \A i \in DOMAIN audio[o] : audio[o][i] \in Bursts \ {b}
      BY <2>2, <1>1 DEF OneBurst, TypeOK
    <3> QED BY <2>2, <3>1, <1>4 DEF OneBurst, InLine
  <2> QED BY <2>1, <2>2
<1> QED BY <1>5, <1>6, <1>7 DEF OneBurst, InLine

(* b queues up.                                                             *)
LEMMA LineGrows ==
    ASSUME TypeOK, TypeOK', OneBurst, NEW b \in Bursts, NEW s \in Sessions,
           pc[b] \notin InLine, pc'[b] = "queued", goal'[b] = s,
           audio' = [audio EXCEPT ![s] = Append(@, b)],
           \A o \in Bursts \ {b} : pc'[o] = pc[o] /\ goal'[o] = goal[o]
    PROVE  OneBurst'
<1> DEFINE q == audio[s]
           r == Append(q, b)
<1>1. q \in Seq(Bursts)
  BY DEF TypeOK
<1>2. /\ Len(q) \in Nat /\ DOMAIN q = 1 .. Len(q) /\ DOMAIN r = 1 .. Len(q) + 1
      /\ \A i \in 1 .. Len(q) : r[i] = q[i]
      /\ r[Len(q) + 1] = b /\ r # <<>>
      /\ q # <<>> => Head(r) = Head(q)
  BY <1>1, AppendFacts
<1>3. audio'[s] = r /\ \A o \in Sessions \ {s} : audio'[o] = audio[o]
  BY DEF TypeOK
<1>4. \A o \in Sessions : \A i \in DOMAIN audio[o] : audio[o][i] \in Bursts \ {b}
  BY DEF OneBurst, TypeOK, InLine
<1> HIDE DEF r
<1>5. ASSUME NEW o \in Bursts, pc'[o] \in Inside
      PROVE  goal'[o] \in Sessions /\ audio'[goal'[o]] # <<>> /\ Head(audio'[goal'[o]]) = o
  <2>1. o # b
    BY <1>5 DEF Inside
  <2> QED BY <1>5, <2>1, <1>2, <1>3 DEF OneBurst
<1>6. ASSUME NEW o \in Bursts, pc'[o] = "queued"
      PROVE  goal'[o] \in Sessions /\ \E i \in DOMAIN audio'[goal'[o]] : audio'[goal'[o]][i] = o
  <2>1. CASE o = b
    BY <2>1, <1>2, <1>3
  <2>2. CASE o # b
    <3>1. goal'[o] = goal[o] /\ goal[o] \in Sessions /\ \E i \in DOMAIN audio[goal[o]] : audio[goal[o]][i] = o
      BY <1>6, <2>2 DEF OneBurst
    <3>2. PICK i \in DOMAIN audio[goal[o]] : audio[goal[o]][i] = o
      BY <3>1
    <3>3. i \in DOMAIN audio'[goal[o]] /\ audio'[goal[o]][i] = o
      BY <3>1, <3>2, <1>2, <1>3
    <3> QED BY <3>1, <3>3
  <2> QED BY <2>1, <2>2
<1>7. ASSUME NEW o \in Sessions
      PROVE  /\ \A i \in DOMAIN audio'[o] : goal'[audio'[o][i]] = o /\ pc'[audio'[o][i]] \in InLine
             /\ \A i, j \in DOMAIN audio'[o] : audio'[o][i] = audio'[o][j] => i = j
  <2>1. \A i \in DOMAIN audio[o] : goal'[audio[o][i]] = o /\ pc'[audio[o][i]] \in InLine
    BY <1>4 DEF OneBurst, InLine
  <2>2. CASE o = s
    BY <2>1, <2>2, <1>2, <1>3, <1>4 DEF OneBurst, InLine
  <2>3. CASE o # s
    BY <2>1, <2>3, <1>3 DEF OneBurst
  <2> QED BY <2>2, <2>3
<1> QED BY <1>5, <1>6, <1>7 DEF OneBurst, InLine

(* Only x may leave the queue of s.                                         *)
Keeps(s, x) ==
    /\ \A r \in Sessions \ {s} : write'[r] = write[r]
    /\ \A i \in DOMAIN write[s] : write[s][i] # x =>
           \E j \in DOMAIN write'[s] : write'[s][j] = write[s][i]

LEMMA EndsStillWait ==
    ASSUME EndsWait, EndersFollow, NEW s \in Sessions, NEW x, Keeps(s, x),
           \A b \in Bursts : ender'[b] = "queued" =>
               ender[b] = "queued" /\ goal'[b] = goal[b] /\ F(b, "end") # x
    PROVE  EndsWait'
<1>1. ASSUME NEW b \in Bursts, ender'[b] = "queued"
      PROVE  \E i \in DOMAIN write'[goal'[b]] : write'[goal'[b]][i] = F(b, "end")
  <2>1. PICK i \in DOMAIN write[goal[b]] : write[goal[b]][i] = F(b, "end")
    BY <1>1 DEF EndsWait
  <2>2. goal[b] \in Sessions
    BY <1>1 DEF EndersFollow
  <2> QED BY <1>1, <2>1, <2>2 DEF Keeps
<1> QED BY <1>1 DEF EndsWait, F

(* A task has one frame in all the queues.                                  *)
LEMMA OneFrame ==
    ASSUME TypeOK, WritersWait, EndersFollow
    PROVE  \A r, s \in Sessions : \A i \in DOMAIN write[r], j \in DOMAIN write[s] :
               write[r][i].of = write[s][j].of => r = s /\ i = j
<1> SUFFICES ASSUME NEW r \in Sessions, NEW s \in Sessions, NEW i \in DOMAIN write[r],
                    NEW j \in DOMAIN write[s], write[r][i].of = write[s][j].of
             PROVE  r = s /\ i = j
  OBVIOUS
<1>1. PICK f \in Frame : f = write[r][i] /\ Waits(f, r)
  BY DEF TypeOK, WritersWait
<1>2. PICK g \in Frame : g = write[s][j] /\ Waits(g, s)
  BY DEF TypeOK, WritersWait
<1>3. f.of = g.of /\ r = s
  BY <1>1, <1>2 DEF Waits
<1>4. f.kind = g.kind
  BY <1>1, <1>2, <1>3 DEF Waits, EndersFollow, Frame
<1>5. f = g
  BY <1>3, <1>4 DEF Frame
<1> QED BY <1>1, <1>2, <1>3, <1>5 DEF WritersWait

------------------------------------------------------------------------------
(* What the client has received.                                            *)
(* What a step on a burst may do for the wire to stay explained.             *)
Went(b) ==
    /\ pc[b] # "idle" => goal'[b] = goal[b]
    /\ pc[b] \in {"feeding", "chunk"} => pc'[b] \in {"feeding", "chunk"} \/ ender'[b] # "none"
    /\ ender[b] # "none" => ender'[b] # "none"
    /\ ender[b] = "done" => ender'[b] = "done"
    /\ ender[b] = "queued" =>
        \/ ender'[b] = "done"
        \/ /\ ender'[b] = "queued"
           /\ sending[goal[b]] = "yes" /\ Head(write[goal[b]]) = F(b, "end") =>
                  sending'[goal[b]] = "yes"
    /\ ender'[b] = "done" =>
        /\ pc[b] # "idle" /\ goal[b] \in Sessions
        /\ ender[b] = "done" \/ ~Live(goal[b]) \/ OnWire(goal[b], F(b, "end"))

LEMMA WireStays ==
    ASSUME TypeOK, TypeOK', EndersFollow, WireInv, wire' = wire,
           \A s \in Sessions : Live(s)' => Live(s),
           \A s \in Sessions : sending'[s] = "yes" =>
               sending[s] = "yes" /\ Head(write'[s]) = Head(write[s]),
           \A b \in Bursts : Went(b),
           \A b \in Bursts : Open(b)' =>
               /\ pc[b] # "idle" /\ goal[b] \in Sessions
               /\ Open(b) \/ (Live(goal[b]) => LastMark(goal[b], F(b, "start")))
    PROVE  WireInv'
<1>1. SendingLast'
  BY DEF WireInv, SendingLast
<1>2. OpenIsLast'
  <2>1. ASSUME NEW b \in Bursts, Open(b)', Live(goal[b])'
        PROVE  LastMark(goal[b], F(b, "start"))'
    <3>1. goal'[b] = goal[b] /\ goal[b] \in Sessions
      BY <2>1 DEF Went
    <3>2. Live(goal[b])
      BY <2>1, <3>1 DEF Live
    <3>3. LastMark(goal[b], F(b, "start"))
      BY <2>1, <3>2 DEF WireInv, OpenIsLast
    <3> QED BY <3>1, <3>3 DEF LastMark, F
  <2> QED BY <2>1 DEF OpenIsLast
<1>3. FramesKnown'
  <2> SUFFICES ASSUME NEW s \in Sessions, NEW i \in DOMAIN wire[s], NEW f, f = wire[s][i]
               PROVE  /\ f.kind = "chunk" =>
                          /\ f.of \in Bursts /\ goal'[f.of] = s
                          /\ pc'[f.of] \in {"feeding", "chunk"} \/ ender'[f.of] # "none"
                      /\ f.kind = "end" =>
                          /\ f.of \in Bursts /\ goal'[f.of] = s
                          /\ \/ ender'[f.of] = "done"
                             \/ /\ ender'[f.of] = "queued"
                                /\ sending'[s] = "yes" /\ Head(write'[s]) = f
    BY DEF FramesKnown
  <2>0. f \in Frame
    BY DEF TypeOK
  <2>1. CASE f.kind = "chunk"
    <3>1. /\ f.of \in Bursts /\ goal[f.of] = s
          /\ pc[f.of] \in {"feeding", "chunk"} \/ ender[f.of] # "none"
      BY <2>1 DEF WireInv, FramesKnown
    <3>2. pc[f.of] # "idle"
      BY <3>1 DEF EndersFollow
    <3> QED BY <2>1, <3>1, <3>2 DEF Went
  <2>2. CASE f.kind = "end"
    <3>1. /\ f.of \in Bursts /\ goal[f.of] = s
          /\ \/ ender[f.of] = "done"
             \/ /\ ender[f.of] = "queued"
                /\ sending[s] = "yes" /\ Head(write[s]) = f
      BY <2>2 DEF WireInv, FramesKnown
    <3>2. pc[f.of] # "idle" /\ f = F(f.of, "end")
      BY <2>0, <2>2, <3>1 DEF EndersFollow, F, Frame
    <3> QED BY <2>2, <3>1, <3>2 DEF Went
  <2> QED BY <2>1, <2>2
<1>4. EndsSent'
  <2>1. ASSUME NEW b \in Bursts, ender'[b] = "done", Live(goal[b])'
        PROVE  OnWire(goal[b], F(b, "end"))'
    <3>1. goal'[b] = goal[b] /\ goal[b] \in Sessions
      BY <2>1 DEF Went
    <3>2. Live(goal[b])
      BY <2>1, <3>1 DEF Live
    <3>3. OnWire(goal[b], F(b, "end"))
      BY <2>1, <3>2 DEF Went, EndsSent, WireInv
    <3> QED BY <3>1, <3>3 DEF OnWire, F
  <2> QED BY <2>1 DEF EndsSent
<1>5. BurstsDoNotOverlap'
  BY DEF WireInv, BurstsDoNotOverlap, Marks, F
<1> QED BY <1>1, <1>2, <1>3, <1>4, <1>5 DEF WireInv

(* A client is in one burst at most.                                        *)
LEMMA OneIsOpen ==
    ASSUME IInv, NEW b \in Bursts, NEW c \in Bursts, Open(b), Open(c), goal[b] = goal[c],
           Live(goal[b])
    PROVE  b = c
<1>1. LastMark(goal[b], F(b, "start")) /\ LastMark(goal[b], F(c, "start"))
  BY DEF IInv, WireInv, OpenIsLast
<1>2. goal[b] \in Sessions
  BY DEF IInv, QueueInv, OneBurst, EndersFollow, Open, Inside
<1>3. PICK i \in DOMAIN wire[goal[b]] :
          /\ wire[goal[b]][i] = F(b, "start")
          /\ \A j \in DOMAIN wire[goal[b]] : j > i => wire[goal[b]][j].kind \notin {"start", "end"}
  BY <1>1 DEF LastMark
<1>4. PICK k \in DOMAIN wire[goal[b]] :
          /\ wire[goal[b]][k] = F(c, "start")
          /\ \A j \in DOMAIN wire[goal[b]] : j > k => wire[goal[b]][j].kind \notin {"start", "end"}
  BY <1>1 DEF LastMark
<1>5. i \in Nat /\ k \in Nat
  BY <1>2 DEF IInv, TypeOK
<1>6. i = k
  BY <1>3, <1>4, <1>5 DEF F
<1> QED BY <1>3, <1>4, <1>6 DEF F

(* The head of a queue, with the lock and the client still there.           *)
LEMMA HeadMarks ==
    ASSUME IInv, NEW s \in Sessions, write[s] # <<>>, sending[s] = "no", Live(s), NEW b \in Bursts,
           goal[b] = s, Open(b)
    PROVE  /\ Head(write[s]).kind # "start"
           /\ Head(write[s]).kind = "end" => Head(write[s]) = F(b, "end")
<1>1. /\ write[s] \in Seq(Frame) /\ 1 \in DOMAIN write[s] /\ Head(write[s]) = write[s][1]
      /\ DOMAIN write[s] = 1 .. Len(write[s])
  BY DEF IInv, TypeOK
<1>2. PICK h \in Frame : h = write[s][1] /\ Waits(h, s)
  BY <1>1 DEF IInv, QueueInv, WritersWait
<1>3. CASE h.kind = "start"
  <2>1. h.of \in Bursts /\ pc[h.of] = "starting" /\ Head(audio[s]) = h.of
    BY <1>2, <1>3 DEF Waits, IInv, OneBurst, Inside
  <2>2. pc[b] \notin Inside
    BY <2>1 DEF IInv, OneBurst, Open, EndersFollow, QueueInv
  <2>3. ender[b] = "queued"
    BY <2>2 DEF IInv, QueueInv, EndersFollow, Open, Inside
  <2>4. PICK i \in DOMAIN write[s] : write[s][i] = F(b, "end")
    BY <2>3 DEF IInv, QueueInv, EndsWait
  <2>5. i > 1
    BY <1>1, <1>2, <1>3, <2>4 DEF F
  <2> QED BY <1>1, <1>2, <1>3, <2>4, <2>5 DEF IInv, QueueInv, EndsBeforeStarts, F
<1>4. CASE h.kind = "end"
  <2>1. h.of \in Bursts /\ goal[h.of] = s /\ ender[h.of] = "queued" /\ h = F(h.of, "end")
    BY <1>2, <1>4 DEF Waits, F, Frame
  <2>2. ~OnWire(s, h)
    BY <2>1, <1>4 DEF OnWire, IInv, WireInv, FramesKnown
  <2>3. Open(h.of)
    BY <2>1, <2>2 DEF Open
  <2>4. h.of = b
    BY <2>1, <2>3, OneIsOpen
  <2> QED BY <1>1, <1>2, <1>4, <2>1, <2>4
<1> QED BY <1>1, <1>2, <1>3, <1>4 DEF Frame

LEMMA TransmitWire ==
    ASSUME IInv, TypeOK', NEW s \in Sessions, Transmit(s), Live(s)
    PROVE  WireInv'
<1> DEFINE w == wire[s]
           h == Head(write[s])
           n == Len(w) + 1
<1>1. /\ write[s] # <<>> /\ sending[s] = "no" /\ Live(s)
      /\ wire' = [wire EXCEPT ![s] = Append(@, Head(write[s]))]
      /\ sending' = [sending EXCEPT ![s] = "yes"]
      /\ UNCHANGED <<write, pc, audio, ender, socket, registered, goal, left>>
  BY DEF Transmit, network
<1>2. w \in Seq(Frame) /\ h \in Frame /\ Waits(h, s) /\ 1 \in DOMAIN write[s] /\ h = write[s][1]
  <2>1. 1 \in DOMAIN write[s] /\ h = write[s][1]
    BY <1>1 DEF IInv, TypeOK
  <2> QED BY <2>1 DEF IInv, TypeOK, QueueInv, WritersWait
<1>3. /\ Len(w) \in Nat /\ DOMAIN w = 1 .. Len(w) /\ DOMAIN wire'[s] = 1 .. n
      /\ \A i \in 1 .. Len(w) : wire'[s][i] = w[i]
      /\ wire'[s][n] = h /\ wire'[s] # <<>> /\ Len(wire'[s]) = n
      /\ \A r \in Sessions \ {s} : wire'[r] = wire[r]
  <2>1. wire'[s] = Append(w, h)
    BY <1>1 DEF IInv, TypeOK
  <2> HIDE DEF w, h
  <2>2. /\ Len(w) \in Nat /\ DOMAIN w = 1 .. Len(w) /\ DOMAIN Append(w, h) = 1 .. n
        /\ \A i \in 1 .. Len(w) : Append(w, h)[i] = w[i]
        /\ Append(w, h)[n] = h /\ Append(w, h) # <<>> /\ Len(Append(w, h)) = n
    BY <1>2, AppendFacts
  <2> USE DEF w, h
  <2>3. \A r \in Sessions \ {s} : wire'[r] = wire[r]
    BY <1>1 DEF IInv, TypeOK
  <2> QED BY <2>1, <2>2, <2>3
<1>4. \A r \in Sessions : Live(r)' <=> Live(r)
  BY <1>1 DEF Live
<1>5. ASSUME NEW r, NEW f, OnWire(r, f), r \in Sessions PROVE OnWire(r, f)'
  BY <1>3, <1>5 DEF OnWire
<1>6. SendingLast'
  BY <1>1, <1>3 DEF IInv, WireInv, SendingLast, TypeOK
<1>7. \A b \in Bursts : Open(b)' => goal[b] \in Sessions /\ Open(b)
  <2> SUFFICES ASSUME NEW b \in Bursts, Open(b)' PROVE goal[b] \in Sessions /\ Open(b)
    OBVIOUS
  <2>1. pc[b] \in {"feeding", "chunk"} \/ ender[b] \in {"new", "queued"}
    BY <1>1 DEF Open
  <2>2. goal[b] \in Sessions
    BY <2>1 DEF IInv, OneBurst, Inside, QueueInv, EndersFollow
  <2>3. CASE ender[b] = "queued"
    <3>1. OnWire(goal[b], F(b, "end")) => OnWire(goal[b], F(b, "end"))'
      BY <1>1, <1>5, <2>2 DEF OnWire, F
    <3> QED BY <1>1, <2>2, <2>3, <3>1 DEF Open
  <2>4. CASE ender[b] # "queued"
    BY <1>1, <2>1, <2>2, <2>4 DEF Open
  <2> QED BY <2>3, <2>4
<1>8. OpenIsLast'
  <2> SUFFICES ASSUME NEW b \in Bursts, Open(b)', Live(goal[b])'
               PROVE  LastMark(goal[b], F(b, "start"))'
    BY DEF OpenIsLast
  <2>1. Open(b) /\ goal[b] \in Sessions /\ Live(goal[b]) /\ goal'[b] = goal[b]
    BY <1>1, <1>4, <1>7
  <2>2. PICK i \in DOMAIN wire[goal[b]] :
            /\ wire[goal[b]][i] = F(b, "start")
            /\ \A j \in DOMAIN wire[goal[b]] : j > i => wire[goal[b]][j].kind \notin {"start", "end"}
    BY <2>1 DEF IInv, WireInv, OpenIsLast, LastMark
  <2>3. CASE goal[b] # s
    BY <1>3, <2>1, <2>2, <2>3 DEF LastMark, F
  <2>4. CASE goal[b] = s
    <3>1. h.kind # "start" /\ (h.kind = "end" => h = F(b, "end"))
      BY <1>1, <2>1, <2>4, HeadMarks
    <3>2. h.kind # "end"
      <4>1. ASSUME h = F(b, "end") PROVE FALSE
        <5>0. h.kind = "end" /\ h.of = b
          BY <4>1 DEF F
        <5>1. ender[b] = "queued"
          BY <1>2, <5>0 DEF Waits
        <5>2. OnWire(goal[b], F(b, "end"))'
          BY <1>1, <1>3, <2>4, <4>1 DEF OnWire, F
        <5>3. pc[b] \notin {"feeding", "chunk"}
          BY <5>1 DEF IInv, QueueInv, EndersFollow
        <5> QED BY <1>1, <5>1, <5>2, <5>3 DEF Open
      <4> QED BY <3>1, <4>1
    <3>3. /\ i \in DOMAIN wire'[s] /\ wire'[s][i] = F(b, "start")
          /\ \A j \in DOMAIN wire'[s] : j > i => wire'[s][j].kind \notin {"start", "end"}
      BY SMTT(30), <1>3, <2>2, <2>4, <3>1, <3>2
    <3> QED BY <2>1, <2>4, <3>3 DEF LastMark, F
  <2> QED BY <2>3, <2>4
<1>9. FramesKnown'
  <2> SUFFICES ASSUME NEW r \in Sessions, NEW i \in DOMAIN wire'[r], NEW f, f = wire'[r][i]
               PROVE  /\ f.kind = "chunk" =>
                          /\ f.of \in Bursts /\ goal'[f.of] = r
                          /\ pc'[f.of] \in {"feeding", "chunk"} \/ ender'[f.of] # "none"
                      /\ f.kind = "end" =>
                          /\ f.of \in Bursts /\ goal'[f.of] = r
                          /\ \/ ender'[f.of] = "done"
                             \/ /\ ender'[f.of] = "queued"
                                /\ sending'[r] = "yes" /\ Head(write'[r]) = f
    BY DEF FramesKnown
  <2>1. CASE r # s
    BY <1>1, <1>3, <2>1 DEF IInv, WireInv, FramesKnown, TypeOK
  <2>2. CASE r = s /\ i # n
    BY <1>1, <1>3, <2>2 DEF IInv, WireInv, FramesKnown
  <2>3. CASE r = s /\ i = n
    <3>1. f = h /\ sending'[s] = "yes" /\ write' = write
      BY <1>1, <1>3, <2>3 DEF IInv, TypeOK
    <3> QED BY <1>1, <1>2, <2>3, <3>1 DEF Waits
  <2> QED BY <2>1, <2>2, <2>3
<1>10. EndsSent'
  <2> SUFFICES ASSUME NEW b \in Bursts, ender'[b] = "done", Live(goal[b])'
               PROVE  OnWire(goal[b], F(b, "end"))'
    BY DEF EndsSent
  <2>1. goal'[b] = goal[b] /\ goal[b] \in Sessions /\ ender[b] = "done" /\ Live(goal[b])
    BY <1>1, <1>4 DEF IInv, QueueInv, EndersFollow
  <2>2. OnWire(goal[b], F(b, "end"))
    BY <2>1 DEF IInv, WireInv, EndsSent
  <2> QED BY <1>3, <2>1, <2>2 DEF OnWire, F
<1>11. BurstsDoNotOverlap'
  <2> SUFFICES ASSUME NEW r \in Sessions, NEW j \in DOMAIN wire'[r],
                      wire'[r][j].kind \in {"chunk", "end"}
               PROVE  \E i \in Marks(r, j)' : /\ \A k \in Marks(r, j)' : k <= i
                                              /\ wire'[r][i] = F(wire'[r][j].of, "start")
    BY DEF BurstsDoNotOverlap, F
  <2>1. CASE r # s
    <3>1. Marks(r, j)' = Marks(r, j) /\ wire'[r] = wire[r]
      BY <1>3, <2>1 DEF Marks
    <3> QED BY <3>1 DEF IInv, WireInv, BurstsDoNotOverlap
  <2>2. CASE r = s /\ j # n
    <3>1. j \in 1 .. Len(w)
      BY <1>3, <2>2
    <3>2. Marks(s, j)' = Marks(s, j)
      BY <1>3, <3>1 DEF Marks
    <3>3. PICK i \in Marks(s, j) : /\ \A k \in Marks(s, j) : k <= i
                                   /\ w[i] = F(w[j].of, "start")
      BY <1>3, <2>2, <3>1 DEF IInv, WireInv, BurstsDoNotOverlap
    <3>4. i \in 1 .. Len(w)
      BY <3>1, <3>3, <1>3 DEF Marks
    <3> QED BY <1>3, <2>2, <3>1, <3>2, <3>3, <3>4
  <2>3. CASE r = s /\ j = n
    <3>1. h.kind \in {"chunk", "end"} /\ h.of \in Bursts /\ goal[h.of] = s /\ h = F(h.of, h.kind)
      BY <1>2, <1>3, <2>3 DEF Waits, F, Frame
    <3>2. Open(h.of)
      <4>1. CASE h.kind = "chunk"
        BY <1>2, <4>1 DEF Waits, Open
      <4>2. CASE h.kind = "end"
        <5>1. ender[h.of] = "queued"
          BY <1>2, <4>2 DEF Waits
        <5>2. ~OnWire(s, h)
          BY <1>1, <4>2, <5>1 DEF OnWire, IInv, WireInv, FramesKnown
        <5> QED BY <3>1, <4>2, <5>1, <5>2 DEF Open
      <4> QED BY <3>1, <4>1, <4>2
    <3>3. PICK i \in DOMAIN w :
              /\ w[i] = F(h.of, "start")
              /\ \A k \in DOMAIN w : k > i => w[k].kind \notin {"start", "end"}
      BY <1>1, <3>1, <3>2 DEF IInv, WireInv, OpenIsLast, LastMark
    <3>4. i \in Marks(s, j)' /\ \A k \in Marks(s, j)' : k <= i
      BY <1>3, <2>3, <3>3, SMTT(30) DEF Marks, F
    <3> QED BY <1>3, <2>3, <3>3, <3>4
  <2> QED BY <2>1, <2>2, <2>3
<1> QED BY <1>6, <1>8, <1>9, <1>10, <1>11 DEF WireInv

------------------------------------------------------------------------------
(* A frame leaves its queue and its writer goes on.                         *)
LEMMA HeadWaits ==
    ASSUME IInv, NEW s \in Sessions, write[s] # <<>>
    PROVE  /\ Head(write[s]) \in Frame /\ Waits(Head(write[s]), s)
           /\ Head(write[s]).of \in Tasks /\ Head(write[s]).kind \in {"start", "chunk", "end", "message"}
           /\ Head(write[s]) = F(Head(write[s]).of, Head(write[s]).kind)
           /\ 1 \in DOMAIN write[s] /\ Head(write[s]) = write[s][1]
<1>1. 1 \in DOMAIN write[s] /\ Head(write[s]) = write[s][1]
  BY DEF IInv, TypeOK
<1>2. PICK h \in Frame : h = write[s][1] /\ Waits(h, s)
  BY <1>1 DEF IInv, TypeOK, QueueInv, WritersWait
<1> QED BY <1>1, <1>2 DEF Frame, F

LEMMA Released ==
    ASSUME IInv, TypeOK', NEW s \in Sessions, write[s] # <<>>, NEW how \in Outcomes,
           write' = [write EXCEPT ![s] = Tail(@)],
           sending' = [sending EXCEPT ![s] = "no"],
           After(Head(write[s]), s, how),
           UNCHANGED <<socket, registered, wire, goal, left>>,
           how = "sent" => sending[s] = "yes",
           how # "sent" => ~Live(s)
    PROVE  IInv'
<1>1. PICK h : h = Head(write[s])
  OBVIOUS
<1>2. PICK t \in Tasks : t = h.of
  BY <1>1, HeadWaits
<1>3. /\ h \in Frame /\ Waits(h, s) /\ h.kind \in {"start", "chunk", "end", "message"}
      /\ h = F(t, h.kind) /\ 1 \in DOMAIN write[s] /\ h = write[s][1] /\ goal[t] = s
  BY <1>1, <1>2, HeadWaits DEF Waits
<1>4. write[s] \in Seq(Frame)
  BY DEF IInv, TypeOK
<1>5. /\ Thins(Tail(write[s]), write[s])
      /\ \A i \in DOMAIN Tail(write[s]) : \E k \in DOMAIN write[s] :
             k # 1 /\ Tail(write[s])[i] = write[s][k]
      /\ \A k \in DOMAIN write[s] : k # 1 =>
             \E i \in DOMAIN Tail(write[s]) : Tail(write[s])[i] = write[s][k]
  BY <1>4, TailFacts
<1>6. write'[s] = Tail(write[s]) /\ \A r \in Sessions \ {s} : write'[r] = write[r]
  BY DEF IInv, TypeOK
<1>7. /\ pc' = [pc EXCEPT ![t] = NextPc(h, how)]
      /\ audio' = IF h.kind = "start" /\ NextPc(h, how) = "done"
                  THEN [audio EXCEPT ![s] = Drop(@, t)] ELSE audio
      /\ ender' = CASE h.kind = "end" -> [ender EXCEPT ![t] = "done"]
                    [] NextPc(h, how) = "ending" /\ h.kind = "chunk" -> [ender EXCEPT ![t] = "new"]
                    [] OTHER -> ender
  BY <1>1, <1>2 DEF After
<1>8. OnlyActs(t)
  BY <1>7 DEF OnlyActs, IInv, TypeOK
<1>9. \A r \in Sessions : \A i \in DOMAIN write'[r] : write'[r][i].of # t
  <2> SUFFICES ASSUME NEW r \in Sessions, NEW i \in DOMAIN write'[r], write'[r][i].of = t
               PROVE  FALSE
    OBVIOUS
  <2>1. CASE r # s
    BY <1>2, <1>3, <1>6, <2>1, OneFrame DEF IInv, QueueInv
  <2>2. CASE r = s
    <3>1. PICK k \in DOMAIN write[s] : k # 1 /\ write'[s][i] = write[s][k]
      BY ZenonT(30), <1>5, <1>6, <2>2
    <3>2. write[s][k].of = write[s][1].of
      BY <1>2, <1>3, <2>2, <3>1
    <3> QED BY <1>3, <3>1, <3>2, OneFrame DEF IInv, QueueInv
  <2> QED BY <2>1, <2>2
<1>10. WritersWait' /\ EndsBeforeStarts'
  BY <1>5, <1>6, <1>8, <1>9, QueueThins DEF IInv, QueueInv
<1>11. /\ t \notin Bursts => ender' = ender /\ audio' = audio /\ h.kind = "message"
       /\ t \in Bursts /\ h.kind = "start" =>
             /\ pc[t] = "starting" /\ ender' = ender
             /\ how = "sent" => pc'[t] = "feeding" /\ audio' = audio
             /\ how # "sent" => pc'[t] = "done" /\ audio' = [audio EXCEPT ![goal[t]] = Drop(@, t)]
       /\ t \in Bursts /\ h.kind = "chunk" =>
             /\ pc[t] = "chunk" /\ audio' = audio
             /\ how = "sent" => pc'[t] = "feeding" /\ ender' = ender
             /\ how # "sent" => pc'[t] = "ending" /\ ender'[t] = "new"
       /\ t \in Bursts /\ h.kind = "end" =>
             /\ pc'[t] = pc[t] /\ audio' = audio /\ ender[t] = "queued" /\ ender'[t] = "done"
       /\ t \in Bursts => h.kind # "message"
  <2>1. CASE h.kind = "message"
    BY <1>2, <1>3, <1>7, <2>1 DEF Waits
  <2>2. CASE h.kind = "start"
    <3>1. t \in Bursts /\ pc[t] = "starting" /\ NextPc(h, how) = IF how = "sent" THEN "feeding" ELSE "done"
      BY <1>2, <1>3, <2>2 DEF Waits, NextPc
    <3>2. pc'[t] = NextPc(h, how)
      BY <1>7 DEF IInv, TypeOK
    <3> QED BY <1>3, <1>7, <2>2, <3>1, <3>2
  <2>3. CASE h.kind = "chunk"
    <3>1. t \in Bursts /\ pc[t] = "chunk" /\ NextPc(h, how) = IF how = "sent" THEN "feeding" ELSE "ending"
      BY <1>2, <1>3, <2>3 DEF Waits, NextPc
    <3>2. pc'[t] = NextPc(h, how) /\ (how # "sent" => ender' = [ender EXCEPT ![t] = "new"])
      BY <1>7, <2>3, <3>1 DEF IInv, TypeOK
    <3> QED BY <1>3, <1>7, <2>3, <3>1, <3>2 DEF IInv, TypeOK
  <2>4. CASE h.kind = "end"
    <3>1. t \in Bursts /\ ender[t] = "queued" /\ NextPc(h, how) = pc[t]
      BY <1>2, <1>3, <2>4 DEF Waits, NextPc
    <3> QED BY <1>3, <1>7, <2>4, <3>1 DEF IInv, TypeOK
  <2> QED BY <1>3, <2>1, <2>2, <2>3, <2>4
<1>12. \A b \in Bursts : ender'[b] = "queued" => ender[b] = "queued" /\ F(b, "end") # h
  <2> SUFFICES ASSUME NEW b \in Bursts, ender'[b] = "queued"
               PROVE  ender[b] = "queued" /\ F(b, "end") # h
    OBVIOUS
  <2>1. CASE b # t
    BY <1>2, <1>8, <2>1 DEF OnlyActs, F
  <2>2. CASE b = t
    BY <1>3, <1>11, <2>2 DEF F
  <2> QED BY <2>1, <2>2
<1>13. EndsWait'
  <2>1. Keeps(s, h)
    BY <1>3, <1>5, <1>6 DEF Keeps
  <2>2. \A b \in Bursts : ender'[b] = "queued" =>
            ender[b] = "queued" /\ goal'[b] = goal[b] /\ F(b, "end") # h
    BY <1>12
  <2>3. EndsWait /\ EndersFollow
    BY DEF IInv, QueueInv
  <2> QED BY <2>1, <2>2, <2>3, EndsStillWait
<1>14. EndersFollow'
  <2> SUFFICES ASSUME NEW b \in Bursts
               PROVE  /\ ender'[b] = "new" => pc'[b] = "ending"
                      /\ ender'[b] # "none" => pc'[b] \in {"ending", "done"} /\ goal[b] \in Sessions
    BY DEF EndersFollow
  <2>1. CASE b # t
    BY <1>8, <2>1 DEF OnlyActs, IInv, QueueInv, EndersFollow, Tasks
  <2>2. CASE b = t
    BY <1>3, <1>11, <2>2 DEF IInv, QueueInv, EndersFollow
  <2> QED BY <2>1, <2>2
<1>15. OneBurst'
  <2>1. CASE t \notin Bursts
    BY <1>8, <1>11, <2>1, LineStays DEF IInv, OnlyActs, Tasks
  <2>2. CASE t \in Bursts /\ (h.kind # "start" \/ how = "sent")
    BY <1>3, <1>8, <1>11, <2>2, LineStays DEF IInv, OnlyActs, Tasks, Inside, InLine
  <2>3. CASE t \in Bursts /\ h.kind = "start" /\ how # "sent"
    BY <1>3, <1>8, <1>11, <2>3, LineLeft DEF IInv, OnlyActs, Tasks, Inside, InLine
  <2> QED BY <2>1, <2>2, <2>3
<1>16. how = "sent" => wire[s] # <<>> /\ wire[s][Len(wire[s])] = h
  BY <1>1 DEF IInv, WireInv, SendingLast
<1>17. how = "sent" => OnWire(s, h) /\ (h.kind = "start" => LastMark(s, h))
  <2>1. wire[s] \in Seq(Frame)
    BY DEF IInv, TypeOK
  <2> QED BY <1>16, <2>1 DEF OnWire, LastMark
<1>18. \A b \in Bursts : Went(b)
  <2> SUFFICES ASSUME NEW b \in Bursts PROVE Went(b)
    OBVIOUS
  <2>1. CASE b = t
    BY <1>3, <1>11, <1>17, <2>1 DEF Went, IInv, QueueInv, EndersFollow, F
  <2>2. CASE b # t
    <3>1. pc'[b] = pc[b] /\ ender'[b] = ender[b] /\ b \in Tasks
      BY <1>8, <2>2 DEF OnlyActs, Tasks
    <3>2. Head(write[s]) # F(b, "end")
      BY <1>1, <1>2, <2>2 DEF F
    <3>3. goal[b] # s => sending'[goal[b]] = sending[goal[b]]
      BY DEF IInv, TypeOK
    <3> QED BY <3>1, <3>2, <3>3 DEF Went, IInv, QueueInv, EndersFollow
  <2> QED BY <2>1, <2>2
<1>19. ASSUME NEW b \in Bursts, Open(b)'
       PROVE  /\ pc[b] # "idle" /\ goal[b] \in Sessions
              /\ Open(b) \/ (Live(goal[b]) => LastMark(goal[b], F(b, "start")))
  <2>1. ~OnWire(goal[b], F(b, "end"))' => ~OnWire(goal[b], F(b, "end"))
    BY DEF OnWire, F
  <2>2. CASE b # t
    <3>1. pc'[b] = pc[b] /\ ender'[b] = ender[b]
      BY <1>8, <2>2 DEF OnlyActs, Tasks
    <3>2. Open(b)
      BY <1>19, <2>1, <3>1 DEF Open
    <3> QED BY <3>2 DEF Open, IInv, OneBurst, QueueInv, EndersFollow, Inside
  <2>3. CASE b = t
    BY <1>3, <1>11, <1>17, <1>19, <2>1, <2>3 DEF Open, IInv, QueueInv, EndersFollow, F
  <2> QED BY <2>2, <2>3
<1>20. \A r \in Sessions : Live(r)' => Live(r)
  BY DEF Live
<1>21. \A r \in Sessions : sending'[r] = "yes" => sending[r] = "yes" /\ Head(write'[r]) = Head(write[r])
  BY <1>6 DEF IInv, TypeOK
<1>22. WireInv'
  BY <1>18, <1>19, <1>20, <1>21, WireStays DEF IInv, QueueInv
<1> QED BY <1>10, <1>13, <1>14, <1>15, <1>22 DEF IInv, QueueInv

(* A frame is queued, or refused because the session is gone.               *)
WritesNext(t, s, k) ==
    \/ k = "start" /\ t \in Bursts /\ pc[t] = "queued" /\ Head(audio[s]) = t /\ goal[t] = s
    \/ k = "chunk" /\ t \in Bursts /\ pc[t] = "feeding" /\ goal[t] = s
    \/ k = "message" /\ t \in Senders \cup Fanouts /\ pc[t] \in {"idle", "fanning"}

(* A task that is about to write has no frame anywhere.                     *)
LEMMA NoFrames ==
    ASSUME IInv, NEW t \in Tasks,
           pc[t] \in {"idle", "fanning", "queued", "feeding", "done"},
           t \in Bursts => ender[t] # "queued"
    PROVE  \A r \in Sessions : \A i \in DOMAIN write[r] : write[r][i].of # t
<1> SUFFICES ASSUME NEW r \in Sessions, NEW i \in DOMAIN write[r], write[r][i].of = t PROVE FALSE
  OBVIOUS
<1>1. PICK f \in Frame : f = write[r][i] /\ Waits(f, r)
  BY DEF IInv, TypeOK, QueueInv, WritersWait
<1> QED BY <1>1, ConnectionManagerAssumption DEF Waits, Frame

LEMMA Written ==
    ASSUME IInv, TypeOK', NEW s \in Sessions, NEW t \in Tasks,
           NEW k \in {"start", "chunk", "message"}, NEW w \in {"starting", "chunk", "sending"},
           WritesNext(t, s, k),
           w = IF k = "start" THEN "starting" ELSE IF k = "chunk" THEN "chunk" ELSE "sending",
           Write(t, s, k, w),
           UNCHANGED <<socket, registered, sending, wire>>,
           goal'[t] = s, \A u \in Tasks \ {t} : goal'[u] = goal[u]
    PROVE  IInv'
<1>0. wire' = wire /\ sending' = sending /\ socket' = socket /\ registered' = registered
  OBVIOUS
<1>1. t \in Bursts => ender[t] = "none" /\ k # "message" /\ goal'[t] = goal[t]
  BY ConnectionManagerAssumption DEF WritesNext, IInv, TypeOK, QueueInv, EndersFollow
<1>2. \A r \in Sessions : \A i \in DOMAIN write[r] : write[r][i].of # t
  BY <1>1, NoFrames DEF WritesNext
<1>3. F(t, k).of = t /\ F(t, k).kind = k /\ F(t, k) \in Frame
  BY FrameFields
<1>4. \A r \in Sessions : Live(r)' <=> Live(r)
  BY <1>0 DEF Live
<1>5. CASE registered[s] = "yes"
  <2>1. /\ write' = [write EXCEPT ![s] = Append(@, F(t, k))] /\ pc' = [pc EXCEPT ![t] = w]
        /\ audio' = audio /\ ender' = ender
    BY <1>5 DEF Write
  <2>2. OnlyActs(t) /\ pc'[t] = w
    BY <2>1 DEF OnlyActs, IInv, TypeOK
  <2>3. Waits(F(t, k), s)' /\ ~Waits(F(t, k), s)
    <3>1. k = "message" => t \notin Bursts
      BY <1>1
    <3> QED BY <1>3, <2>1, <2>2, <3>1 DEF WritesNext, Waits, F
  <2>4. WritersWait' /\ EndsBeforeStarts'
    <3>1. TypeOK /\ WritersWait /\ EndsBeforeStarts
      BY DEF IInv, QueueInv
    <3>2. k \in {"start", "chunk", "end", "message"} /\ k # "end" /\ Queues(s, t, k)
      BY <2>1 DEF Queues
    <3> QED BY <1>2, <2>2, <2>3, <3>1, <3>2, QueueGrows
  <2>5. \A r \in Sessions \ {s} : write'[r] = write[r]
    BY <2>1 DEF IInv, TypeOK
  <2>6. write[s] \in Seq(Frame) /\ write'[s] = Append(write[s], F(t, k))
    BY <2>1 DEF IInv, TypeOK
  <2>7. /\ \A i \in DOMAIN write[s] : \E j \in DOMAIN write'[s] : write'[s][j] = write[s][i]
        /\ write[s] # <<>> => Head(write'[s]) = Head(write[s])
    <3> DEFINE q == write[s]
    <3>1. PICK n \in Nat : n = Len(q) /\ DOMAIN q = 1 .. n
      BY <2>6
    <3>2. DOMAIN write'[s] = 1 .. n + 1 /\ \A i \in 1 .. n : write'[s][i] = q[i]
      BY <1>3, <2>6, <3>1, AppendFacts
    <3>3. q # <<>> => Head(write'[s]) = Head(q)
      BY <1>3, <2>6, AppendFacts
    <3> QED BY <3>1, <3>2, <3>3
  <2>8. EndsWait'
    <3>0. PICK x : x = F(t, k)
      OBVIOUS
    <3>1. EndsWait /\ EndersFollow
      BY DEF IInv, QueueInv
    <3>2. \A b \in Bursts : ender'[b] = "queued" =>
              ender[b] = "queued" /\ goal'[b] = goal[b] /\ F(b, "end") # x
      BY <1>1, <1>3, <2>1, <3>0 DEF F, Tasks
    <3>3. Keeps(s, x)
      BY <2>5, <2>7 DEF Keeps
    <3> QED BY <3>1, <3>2, <3>3, EndsStillWait
  <2>9. EndersFollow'
    BY <1>1, <2>1, <2>2 DEF IInv, QueueInv, EndersFollow, OnlyActs, Tasks
  <2>10. OneBurst'
    <3>1. \A b \in Bursts \ {t} : pc'[b] = pc[b] /\ goal'[b] = goal[b]
      BY <2>2 DEF OnlyActs, Tasks
    <3>2. t \in Bursts => \/ pc[t] \in Inside /\ pc'[t] \in Inside
                          \/ pc[t] = "queued" /\ Head(audio[goal[t]]) = t /\ pc'[t] \in Inside
      BY <1>1, <2>2 DEF WritesNext, Inside
    <3> QED BY <1>1, <2>1, <3>1, <3>2, LineStays DEF IInv
  <2>11. \A b \in Bursts : Went(b)
    BY <1>0, <1>1, <2>1, <2>2 DEF Went, OnlyActs, IInv, QueueInv, EndersFollow, Tasks, WritesNext
  <2>12. ASSUME NEW b \in Bursts, Open(b)'
         PROVE  pc[b] # "idle" /\ goal[b] \in Sessions /\ Open(b)
    <3>1. Open(b)
      <4>1. CASE b = t
        BY <1>1, <2>1, <2>2, <2>12, <4>1 DEF Open, WritesNext
      <4>2. CASE b # t
        <5>1. pc'[b] = pc[b] /\ goal'[b] = goal[b]
          BY <2>2, <4>2 DEF OnlyActs, Tasks
        <5> QED BY <1>0, <2>1, <2>12, <5>1 DEF Open, OnWire, F
      <4> QED BY <4>1, <4>2
    <3> QED BY <3>1 DEF Open, IInv, OneBurst, QueueInv, EndersFollow, Inside
  <2>13. \A r \in Sessions : sending'[r] = "yes" =>
             sending[r] = "yes" /\ Head(write'[r]) = Head(write[r])
    BY <1>0, <2>5, <2>7 DEF IInv, TypeOK
  <2>14. WireInv'
    <3>1. TypeOK /\ EndersFollow /\ WireInv
      BY DEF IInv, QueueInv
    <3> QED BY <1>0, <1>4, <2>11, <2>12, <2>13, <3>1, WireStays
  <2> QED BY <2>4, <2>8, <2>9, <2>10, <2>14 DEF IInv, QueueInv
<1>6. CASE registered[s] # "yes"
  <2>1. After(F(t, k), s, "gone") /\ write' = write /\ ~Live(s)
    BY <1>6 DEF Write, Live
  <2>2. /\ \A u \in Tasks \ {t} : pc'[u] = pc[u]
        /\ pc'[t] = NextPc(F(t, k), "gone")
        /\ audio' = IF k = "start" /\ NextPc(F(t, k), "gone") = "done"
                    THEN [audio EXCEPT ![s] = Drop(@, t)] ELSE audio
        /\ ender' = IF k = "chunk" /\ NextPc(F(t, k), "gone") = "ending"
                    THEN [ender EXCEPT ![t] = "new"] ELSE ender
    BY <1>3, <2>1 DEF After, IInv, TypeOK
  <2>3. /\ k = "start" => pc'[t] = "done" /\ audio' = [audio EXCEPT ![goal[t]] = Drop(@, t)] /\ ender' = ender
        /\ k = "chunk" => pc'[t] = "ending" /\ audio' = audio /\ ender' = [ender EXCEPT ![t] = "new"]
        /\ k = "message" => audio' = audio /\ ender' = ender
    BY <1>3, <2>2 DEF NextPc, WritesNext
  <2>4. OnlyActs(t)
    BY <2>2, <2>3 DEF OnlyActs, IInv, TypeOK
  <2>5. WritersWait' /\ EndsBeforeStarts'
    <3>1. Thins(write'[s], write[s])
      BY <2>1 DEF Thins
    <3>2. TypeOK /\ WritersWait /\ EndsBeforeStarts
      BY DEF IInv, QueueInv
    <3> QED BY <1>2, <2>1, <2>4, <3>1, <3>2, QueueThins
  <2>6. k = "chunk" => t \in Bursts /\ ender'[t] = "new"
    BY <2>3 DEF WritesNext, IInv, TypeOK
  <2>7. \A b \in Bursts : b # t => pc'[b] = pc[b] /\ goal'[b] = goal[b] /\ ender'[b] = ender[b]
    BY <2>4 DEF OnlyActs, Tasks
  <2>8. t \in Bursts => /\ goal'[t] = s /\ goal[t] = s
                        /\ k = "start" => pc[t] = "queued" /\ pc'[t] = "done" /\ ender'[t] = "none"
                        /\ k = "chunk" => pc[t] = "feeding" /\ pc'[t] = "ending" /\ ender'[t] = "new"
                        /\ k \in {"start", "chunk"}
    BY <1>1, <2>3, <2>6 DEF WritesNext
  <2>9. EndsWait'
    <3>1. \A b \in Bursts : ender'[b] = "queued" => ender[b] = "queued" /\ goal'[b] = goal[b]
      BY <2>7, <2>8
    <3> QED BY <2>1, <3>1 DEF EndsWait, IInv, QueueInv, F
  <2>10. EndersFollow'
    BY <2>7, <2>8 DEF IInv, QueueInv, EndersFollow
  <2>11. OneBurst'
    <3>1. CASE t \in Bursts /\ k = "start"
      BY <2>3, <2>7, <2>8, <3>1, LineLeft DEF IInv, InLine, Inside
    <3>2. CASE ~(t \in Bursts /\ k = "start")
      <4>1. audio' = audio
        BY <2>3, <3>2 DEF WritesNext
      <4> QED BY <1>1, <2>7, <2>8, <3>2, <4>1, LineStays DEF IInv, InLine, Inside
    <3> QED BY <3>1, <3>2
  <2>12. \A b \in Bursts : Went(b)
    BY <1>0, <1>1, <2>7, <2>8 DEF Went, IInv, QueueInv, EndersFollow
  <2>13. ASSUME NEW b \in Bursts, Open(b)'
         PROVE  pc[b] # "idle" /\ goal[b] \in Sessions /\ Open(b)
    <3>1. Open(b)
      <4>1. CASE b = t
        BY <1>1, <2>8, <2>13, <4>1 DEF Open
      <4>2. CASE b # t
        BY <1>0, <2>7, <2>13, <4>2 DEF Open, OnWire, F
      <4> QED BY <4>1, <4>2
    <3> QED BY <3>1 DEF Open, IInv, OneBurst, QueueInv, EndersFollow, Inside
  <2>14. WireInv'
    <3>1. TypeOK /\ EndersFollow /\ WireInv
      BY DEF IInv, QueueInv
    <3>2. \A r \in Sessions : sending'[r] = "yes" =>
              sending[r] = "yes" /\ Head(write'[r]) = Head(write[r])
      BY <1>0, <2>1
    <3> QED BY <1>0, <1>4, <2>12, <2>13, <3>1, <3>2, WireStays
  <2> QED BY <2>5, <2>9, <2>10, <2>11, <2>14 DEF IInv, QueueInv
<1> QED BY <1>5, <1>6

------------------------------------------------------------------------------
(* A burst or a fan-out goes on without a frame.                            *)
MovesOn(t) ==
    \/ t \notin Bursts /\ pc[t] \in {"idle", "fanning"}
    \/ t \in Bursts /\ pc[t] = "idle" /\ pc'[t] \in {"queued", "done"} /\ ender'[t] = ender[t]
    \/ /\ t \in Bursts /\ goal'[t] = goal[t]
       /\ \/ pc[t] = "feeding" /\ pc'[t] = "ending" /\ ender'[t] = "new"
          \/ /\ pc[t] \in {"queued", "ending"} /\ pc'[t] = "done"
             /\ ender'[t] = ender[t] /\ ender[t] # "new"
          \/ /\ pc[t] = "ending" /\ pc'[t] = "ending" /\ ender[t] = "new" /\ ender'[t] = "done"
             /\ ~Live(goal[t])

LEMMA QuietStep ==
    ASSUME IInv, TypeOK', OneBurst', NEW t \in Tasks, OnlyActs(t), MovesOn(t),
           UNCHANGED <<write, sending, wire, socket, registered>>
    PROVE  IInv'
<1>0. write' = write /\ sending' = sending /\ wire' = wire /\ \A s : Live(s)' <=> Live(s)
  BY DEF Live
<1>1. \A b \in Bursts : b # t => pc'[b] = pc[b] /\ goal'[b] = goal[b] /\ ender'[b] = ender[b]
  BY DEF OnlyActs, Tasks
<1>2. TypeOK /\ WritersWait /\ EndsBeforeStarts /\ EndsWait /\ EndersFollow /\ OneBurst /\ WireInv
  BY DEF IInv, QueueInv
<1>3. ASSUME NEW r \in Sessions, NEW i \in DOMAIN write[r], write[r][i].of = t
      PROVE  Waits(write[r][i], r)'
  <2>1. PICK f \in Frame : f = write[r][i] /\ Waits(f, r)
    BY <1>2 DEF TypeOK, WritersWait
  <2>2. f.of = t /\ f.kind = "end" /\ goal'[t] = goal[t] /\ ender'[t] = "queued"
    BY <1>2, <1>3, <2>1 DEF Waits, MovesOn, Frame, EndersFollow
  <2> QED BY <1>0, <2>1, <2>2 DEF Waits
<1>4. WritersWait' /\ EndsBeforeStarts'
  <2>1. CASE Sessions = {}
    BY <1>2, <2>1 DEF WritersWait, EndsBeforeStarts
  <2>2. ASSUME NEW s \in Sessions PROVE WritersWait' /\ EndsBeforeStarts'
    <3>1. Thins(write'[s], write[s])
      BY <1>0 DEF Thins
    <3> QED BY <1>0, <1>2, <1>3, <3>1, QueueThins
  <2> QED BY <2>1, <2>2
<1>5. \A b \in Bursts : ender'[b] = "queued" => ender[b] = "queued" /\ goal'[b] = goal[b]
  BY <1>1, <1>2 DEF MovesOn, EndersFollow
<1>6. EndsWait'
  BY <1>0, <1>2, <1>5 DEF EndsWait, F
<1>7. EndersFollow'
  <2> SUFFICES ASSUME NEW b \in Bursts
               PROVE  /\ ender'[b] = "new" => pc'[b] = "ending"
                      /\ ender'[b] # "none" => pc'[b] \in {"ending", "done"} /\ goal'[b] \in Sessions
    BY DEF EndersFollow
  <2>1. CASE b # t
    BY <1>1, <1>2, <2>1 DEF EndersFollow
  <2>2. CASE b = t
    BY <1>2, <2>2 DEF EndersFollow, MovesOn, OneBurst, Inside
  <2> QED BY <2>1, <2>2
<1>8. \A b \in Bursts : Went(b)
  BY <1>0, <1>1, <1>2 DEF Went, MovesOn, EndersFollow
<1>9. ASSUME NEW b \in Bursts, Open(b)'
      PROVE  pc[b] # "idle" /\ goal[b] \in Sessions /\ Open(b)
  <2>1. Open(b)
    <3>1. CASE b # t
      BY <1>0, <1>1, <1>9, <3>1 DEF Open, OnWire, F
    <3>2. CASE b = t
      <4>1. ender'[t] = "queued" => ender[t] = "queued" /\ goal'[t] = goal[t]
        BY <1>5, <3>2
      <4>2. ~OnWire(goal[b], F(b, "end"))' /\ goal'[b] = goal[b] => ~OnWire(goal[b], F(b, "end"))
        BY <1>0 DEF OnWire, F
      <4>3. CASE ender'[t] = "queued"
        BY <1>9, <3>2, <4>1, <4>2, <4>3 DEF Open, MovesOn
      <4>4. CASE ender'[t] # "queued"
        BY <1>2, <1>9, <3>2, <4>4 DEF Open, MovesOn, EndersFollow
      <4> QED BY <4>3, <4>4
    <3> QED BY <3>1, <3>2
  <2> QED BY <1>2, <2>1 DEF Open, OneBurst, EndersFollow, Inside
<1>10. WireInv'
  BY <1>0, <1>2, <1>8, <1>9, WireStays
<1> QED BY <1>4, <1>6, <1>7, <1>10 DEF IInv, QueueInv

(* A cancelled burst takes its frame out of the queue, or lets go of the     *)
(* write lock while the frame is being sent.                                *)
LEMMA Withdrawn ==
    ASSUME IInv, TypeOK', NEW b \in Bursts, NEW k \in {"start", "chunk"},
           Withdraw(F(b, k), goal[b]), UNCHANGED <<socket, registered, wire, goal, left>>,
           \/ k = "start" /\ pc[b] = "starting" /\ Leave(b) /\ ender' = ender
           \/ /\ k = "chunk" /\ pc[b] = "chunk" /\ pc' = [pc EXCEPT ![b] = "ending"]
              /\ ender' = [ender EXCEPT ![b] = "new"] /\ audio' = audio
    PROVE  IInv'
<1> DEFINE s == goal[b]
           x == F(b, k)
<1>0. wire' = wire /\ goal' = goal /\ \A r : Live(r)' <=> Live(r)
  BY DEF Live
<1>1. TypeOK /\ WritersWait /\ EndsBeforeStarts /\ EndsWait /\ EndersFollow /\ OneBurst /\ WireInv
  BY DEF IInv, QueueInv
<1>2. s \in Sessions /\ write[s] \in Seq(Frame) /\ b \in Tasks /\ ender[b] = "none"
  <2>1. goal[b] \in Sessions /\ ender[b] \in {"none", "new", "queued", "done"}
    BY <1>1 DEF OneBurst, Inside, TypeOK
  <2>2. ender[b] = "none"
    BY <1>1, <2>1 DEF EndersFollow
  <2> QED BY <1>1, <2>1, <2>2 DEF TypeOK, Tasks
<1>3. x.of = b /\ x.kind = k
  BY DEF F
<1>4. /\ write'[s] = Drop(write[s], x)
      /\ \A r \in Sessions \ {s} : write'[r] = write[r]
      /\ sending' = IF Head(write[s]) = x THEN [sending EXCEPT ![s] = "no"] ELSE sending
  BY <1>1, <1>2 DEF Withdraw, TypeOK
<1>5. /\ Thins(write'[s], write[s])
      /\ \A i \in DOMAIN write'[s] : write'[s][i] # x
      /\ \A i \in DOMAIN write[s] : write[s][i] # x =>
             \E j \in DOMAIN write'[s] : write'[s][j] = write[s][i]
      /\ write[s] # <<>> /\ Head(write[s]) # x => Head(write'[s]) = Head(write[s])
  <2>1. \A i, j \in DOMAIN write[s] : write[s][i] = write[s][j] => i = j
    BY <1>1, <1>2 DEF WritersWait
  <2>2. PICK q \in Seq(Frame) : q = write[s]
    BY <1>2
  <2> HIDE DEF s, x
  <2> QED BY <1>4, <2>1, <2>2, DropFacts
<1>6. \A c \in Bursts : c # b => pc'[c] = pc[c] /\ ender'[c] = ender[c] /\ goal'[c] = goal[c]
  BY <1>0, <1>1 DEF Leave, TypeOK, Tasks
<1>7. OnlyActs(b)
  BY <1>0, <1>1, <1>6 DEF OnlyActs, Leave, TypeOK
<1>8. /\ k = "start" => pc'[b] = "done" /\ ender'[b] = "none" /\ audio' = [audio EXCEPT ![s] = Drop(@, b)]
      /\ k = "chunk" => pc'[b] = "ending" /\ ender'[b] = "new" /\ audio' = audio
  BY <1>1, <1>2 DEF Leave, TypeOK
<1>9. \A r \in Sessions : \A i \in DOMAIN write'[r] : write'[r][i].of # b
  <2> SUFFICES ASSUME NEW r \in Sessions, NEW i \in DOMAIN write'[r], write'[r][i].of = b
               PROVE  FALSE
    OBVIOUS
  <2>1. PICK f \in Frame : f = write'[r][i] /\ Waits(f, r)
    <3>1. CASE r = s
      BY <1>1, <1>2, <1>5, <3>1 DEF Thins, WritersWait, TypeOK
    <3>2. CASE r # s
      BY <1>1, <1>4, <3>2 DEF WritersWait, TypeOK
    <3> QED BY <3>1, <3>2
  <2>2. r = s /\ f.kind = k
    BY <1>2, <2>1 DEF Waits, Frame
  <2>3. f = x
    BY <2>1, <2>2 DEF Frame, F
  <2> QED BY <1>5, <2>1, <2>2, <2>3
<1>10. WritersWait' /\ EndsBeforeStarts'
  <2> HIDE DEF s
  <2> QED BY <1>1, <1>2, <1>4, <1>5, <1>7, <1>9, QueueThins
<1>11. \A c \in Bursts : ender'[c] = "queued" => ender[c] = "queued" /\ goal'[c] = goal[c] /\ F(c, "end") # x
  BY <1>0, <1>2, <1>3, <1>6, <1>8 DEF F
<1>12. EndsWait'
  <2>1. Keeps(s, x)
    BY <1>4, <1>5 DEF Keeps
  <2> HIDE DEF s, x
  <2> QED BY <1>1, <1>2, <1>11, <2>1, EndsStillWait
<1>13. EndersFollow'
  BY <1>0, <1>1, <1>2, <1>6, <1>8 DEF EndersFollow
<1>14. OneBurst'
  <2>1. CASE k = "start"
    BY <1>1, <1>6, <1>8, <2>1, LineLeft DEF InLine, Inside
  <2>2. CASE k = "chunk"
    BY <1>0, <1>1, <1>6, <1>8, <2>2, LineStays DEF InLine, Inside
  <2> QED BY <2>1, <2>2
<1>15. \A c \in Bursts : Went(c)
  <2> SUFFICES ASSUME NEW c \in Bursts PROVE Went(c)
    OBVIOUS
  <2>1. CASE c = b
    BY <1>0, <1>2, <1>8, <2>1 DEF Went
  <2>2. CASE c # b
    <3>1. F(c, "end") # x
      BY <1>3, <2>2 DEF F
    <3>2. goal[c] # s => sending'[goal[c]] = sending[goal[c]]
      BY <1>1, <1>4 DEF TypeOK
    <3>3. Head(write[goal[c]]) = F(c, "end") => sending'[goal[c]] = sending[goal[c]]
      BY <1>4, <3>1, <3>2
    <3> QED BY <1>1, <1>6, <2>2, <3>3 DEF Went, EndersFollow
  <2> QED BY <2>1, <2>2
<1>16. ASSUME NEW c \in Bursts, Open(c)'
       PROVE  pc[c] # "idle" /\ goal[c] \in Sessions /\ Open(c)
  <2>1. CASE c = b
    BY <1>2, <1>8, <1>16, <2>1 DEF Open
  <2>2. CASE c # b
    <3>1. Open(c)
      BY <1>0, <1>6, <1>16, <2>2 DEF Open, OnWire, F
    <3> QED BY <1>1, <3>1 DEF Open, OneBurst, EndersFollow, Inside
  <2> QED BY <2>1, <2>2
<1>17. \A r \in Sessions : sending'[r] = "yes" =>
           sending[r] = "yes" /\ Head(write'[r]) = Head(write[r])
  <2> SUFFICES ASSUME NEW r \in Sessions, sending'[r] = "yes"
               PROVE  sending[r] = "yes" /\ Head(write'[r]) = Head(write[r])
    OBVIOUS
  <2>1. sending[r] = "yes" /\ (r = s => Head(write[s]) # x)
    BY <1>1, <1>2, <1>4 DEF TypeOK
  <2>2. write[r] # <<>>
    BY <1>1, <2>1 DEF TypeOK
  <2> QED BY <1>4, <1>5, <2>1, <2>2
<1>18. WireInv'
  BY <1>0, <1>1, <1>15, <1>16, <1>17, WireStays
<1> QED BY <1>10, <1>12, <1>13, <1>14, <1>18 DEF IInv, QueueInv

(* The end message is queued: no start can be in the queue before it, for    *)
(* its burst is at the head of the audio lock as long as the end is not.    *)
LEMMA EndQueued ==
    ASSUME IInv, TypeOK', NEW b \in Bursts, SendEnd(b), registered[goal[b]] = "yes"
    PROVE  IInv'
<1>0. TypeOK /\ WritersWait /\ EndsBeforeStarts /\ EndsWait /\ EndersFollow /\ OneBurst /\ WireInv
  BY DEF IInv, QueueInv
<1>1. PICK s \in Sessions : s = goal[b] /\ pc[b] = "ending" /\ ender[b] = "new" /\ b \in Tasks
  BY <1>0 DEF SendEnd, EndersFollow, Tasks
<1>2. /\ Queues(s, b, "end") /\ ender' = [ender EXCEPT ![b] = "queued"]
      /\ socket' = socket /\ registered' = registered /\ audio' = audio /\ sending' = sending
      /\ wire' = wire /\ pc' = pc /\ goal' = goal /\ left' = left
  BY <1>1 DEF SendEnd, network, Queues
<1>3. F(b, "end").of = b /\ F(b, "end").kind = "end" /\ F(b, "end") \in Frame
  BY <1>1, FrameFields
<1>4. OnlyActs(b) /\ ender'[b] = "queued" /\ \A c \in Bursts \ {b} : ender'[c] = ender[c]
  BY <1>0, <1>2 DEF OnlyActs, TypeOK
<1>5. \A r \in Sessions : \A i \in DOMAIN write[r] :
          write[r][i].of # b /\ (r = s => write[r][i].kind # "start")
  <2> SUFFICES ASSUME NEW r \in Sessions, NEW i \in DOMAIN write[r]
               PROVE  write[r][i].of # b /\ (r = s => write[r][i].kind # "start")
    OBVIOUS
  <2>1. PICK f \in Frame : f = write[r][i] /\ Waits(f, r)
    BY <1>0 DEF TypeOK, WritersWait
  <2>2. f.of # b
    BY <1>1, <2>1 DEF Waits, Frame
  <2>3. ASSUME r = s, f.kind = "start" PROVE FALSE
    <3>1. f.of \in Bursts /\ pc[f.of] = "starting" /\ goal[f.of] = s
      BY <2>1, <2>3 DEF Waits
    <3>2. Head(audio[s]) = f.of /\ Head(audio[s]) = b
      BY <1>0, <1>1, <3>1 DEF OneBurst, Inside
    <3> QED BY <2>2, <3>2
  <2> QED BY <2>1, <2>2, <2>3
<1>6. WritersWait' /\ EndsBeforeStarts'
  <2>1. Waits(F(b, "end"), s)' /\ ~Waits(F(b, "end"), s)
    BY <1>1, <1>2, <1>3, <1>4 DEF Waits, F
  <2> QED BY <1>0, <1>1, <1>2, <1>4, <1>5, <2>1, QueueGrows
<1>7. /\ \A r \in Sessions \ {s} : write'[r] = write[r]
      /\ write[s] \in Seq(Frame) /\ write'[s] = Append(write[s], F(b, "end"))
  BY <1>0, <1>2 DEF TypeOK, Queues
<1>8. /\ \A i \in DOMAIN write[s] : \E j \in DOMAIN write'[s] : write'[s][j] = write[s][i]
      /\ \E j \in DOMAIN write'[s] : write'[s][j] = F(b, "end")
      /\ write[s] # <<>> => Head(write'[s]) = Head(write[s])
  <2> DEFINE q == write[s]
  <2>1. PICK n \in Nat : n = Len(q) /\ DOMAIN q = 1 .. n
    BY <1>7
  <2>2. /\ DOMAIN write'[s] = 1 .. n + 1 /\ write'[s][n + 1] = F(b, "end")
        /\ \A i \in 1 .. n : write'[s][i] = q[i]
    BY <1>3, <1>7, <2>1, AppendFacts
  <2>3. q # <<>> => Head(write'[s]) = Head(q)
    BY <1>3, <1>7, AppendFacts
  <2> QED BY <2>1, <2>2, <2>3
<1>9. EndsWait'
  <2> SUFFICES ASSUME NEW c \in Bursts, ender'[c] = "queued"
               PROVE  \E i \in DOMAIN write'[goal[c]] : write'[goal[c]][i] = F(c, "end")
    BY <1>2 DEF EndsWait, F
  <2>1. CASE c = b
    BY <1>1, <1>8, <2>1
  <2>2. CASE c # b
    <3>1. ender[c] = "queued" /\ goal[c] \in Sessions
      BY <1>0, <1>4, <2>2 DEF EndersFollow
    <3>2. PICK i \in DOMAIN write[goal[c]] : write[goal[c]][i] = F(c, "end")
      BY <1>0, <3>1 DEF EndsWait
    <3>3. CASE goal[c] = s
      <4>1. i \in DOMAIN write[s] /\ write[s][i] = F(c, "end")
        BY <3>2, <3>3
      <4>2. PICK j \in DOMAIN write'[s] : write'[s][j] = F(c, "end")
        BY <1>8, <4>1
      <4> QED BY <3>3, <4>2
    <3>4. CASE goal[c] # s
      BY <1>7, <3>1, <3>2, <3>4
    <3> QED BY <3>3, <3>4
  <2> QED BY <2>1, <2>2
<1>10. EndersFollow'
  BY <1>0, <1>1, <1>2, <1>4 DEF EndersFollow
<1>11. OneBurst'
  BY <1>0, <1>2 DEF OneBurst
<1>12. \A c \in Bursts : Went(c)
  BY <1>0, <1>1, <1>2, <1>4 DEF Went, EndersFollow
<1>13. ASSUME NEW c \in Bursts, Open(c)'
       PROVE  pc[c] # "idle" /\ goal[c] \in Sessions /\ Open(c)
  <2>1. Open(c)
    BY <1>1, <1>2, <1>4, <1>13 DEF Open, OnWire, F
  <2> QED BY <1>0, <2>1 DEF Open, OneBurst, EndersFollow, Inside
<1>14. \A r \in Sessions : sending'[r] = "yes" =>
           sending[r] = "yes" /\ Head(write'[r]) = Head(write[r])
  BY <1>0, <1>2, <1>7, <1>8, ZenonT(30) DEF TypeOK
<1>15. \A r \in Sessions : Live(r)' => Live(r)
  BY <1>2 DEF Live
<1>16. WireInv'
  BY <1>0, <1>2, <1>12, <1>13, <1>14, <1>15, WireStays
<1> QED BY <1>6, <1>9, <1>10, <1>11, <1>16 DEF IInv, QueueInv

------------------------------------------------------------------------------
(* The invariant holds at first, and every step keeps it.                    *)
LEMMA InitInv == Init => IInv
<1> SUFFICES ASSUME Init PROVE IInv
  OBVIOUS
<1>1. TypeOK
  BY DEF Init, TypeOK, PCs, Tasks
<1>2. QueueInv
  BY DEF Init, QueueInv, WritersWait, EndsBeforeStarts, EndsWait, EndersFollow
<1>3. OneBurst
  BY DEF Init, OneBurst, Inside, Tasks
<1>4. WireInv
  BY DEF Init, WireInv, SendingLast, OpenIsLast, Open, FramesKnown, EndsSent, BurstsDoNotOverlap, Tasks
<1> QED BY <1>1, <1>2, <1>3, <1>4 DEF IInv

LEMMA StepTypes ==
    ASSUME IInv, [Next]_vars
    PROVE  TypeOK'
<1>0. TypeOK /\ OneBurst /\ EndersFollow
  BY DEF IInv, QueueInv
<1>1. ASSUME NEW s \in Sessions, Transmit(s) PROVE TypeOK'
  <2>1. write[s] # <<>> /\ write[s] \in Seq(Frame) /\ wire[s] \in Seq(Frame)
    BY <1>0, <1>1 DEF Transmit, TypeOK
  <2>2. Head(write[s]) \in Frame /\ Tail(write[s]) \in Seq(Frame)
    BY <2>1
  <2>3. CASE Live(s)
    <3>1. Append(wire[s], Head(write[s])) \in Seq(Frame)
      BY <2>1, <2>2, AppendFacts
    <3>2. /\ wire' = [wire EXCEPT ![s] = Append(@, Head(write[s]))]
          /\ sending' = [sending EXCEPT ![s] = "yes"]
          /\ write' = write /\ pc' = pc /\ audio' = audio /\ ender' = ender
          /\ socket' = socket /\ registered' = registered /\ goal' = goal /\ left' = left
      BY <1>1, <2>3 DEF Transmit, network
    <3>3. wire' \in [Sessions -> Seq(Frame)]
      BY <1>0, <3>1, <3>2 DEF TypeOK
    <3>4. sending' \in [Sessions -> {"yes", "no"}]
      BY <1>0, <3>2 DEF TypeOK
    <3>5. \A r \in Sessions : sending'[r] = "yes" => write'[r] # <<>>
      BY <1>0, <2>1, <3>2 DEF TypeOK
    <3> QED BY <1>0, <3>2, <3>3, <3>4, <3>5 DEF TypeOK
  <2>4. CASE ~Live(s)
    BY <1>0, <1>1, <2>2, <2>4, AfterTypes DEF Transmit, TypeOK, network
  <2> QED BY <2>3, <2>4
<1>2. ASSUME NEW s \in Sessions, Drain(s) PROVE TypeOK'
  <2>1. write[s] # <<>> /\ write[s] \in Seq(Frame)
    BY <1>0, <1>2 DEF Drain, TypeOK
  <2>2. Head(write[s]) \in Frame /\ Tail(write[s]) \in Seq(Frame)
    BY <2>1
  <2> QED BY <1>0, <1>2, <2>2, AfterTypes DEF Drain, TypeOK, network
<1>3. ASSUME NEW t \in Senders, NEW s \in Sessions, Send(t, s) PROVE TypeOK'
  <2>1. t \in Tasks /\ "sending" \in PCs
    BY DEF Tasks, PCs
  <2> QED BY <1>0, <1>3, <2>1, WriteTypes DEF Send, TypeOK, network
<1>4. ASSUME NEW t \in Fanouts, Publish(t) PROVE TypeOK'
  BY <1>0, <1>4 DEF Publish, TypeOK, network, PCs, Tasks
<1>5. ASSUME NEW t \in Fanouts, FanOn(t) PROVE TypeOK'
  <2>1. t \in Tasks /\ "sending" \in PCs
    BY DEF Tasks, PCs
  <2>2. PICK s \in left[t] : /\ left' = [left EXCEPT ![t] = @ \ {s}]
                             /\ goal' = [goal EXCEPT ![t] = s]
                             /\ Write(t, s, "message", "sending")
    BY <1>5 DEF FanOn
  <2>3. s \in Sessions
    BY <1>0, <2>2 DEF TypeOK
  <2> QED BY <1>0, <1>5, <2>1, <2>2, <2>3, WriteTypes DEF FanOn, TypeOK, network
<1>6. ASSUME NEW t \in Fanouts, FanOut(t) PROVE TypeOK'
  BY <1>0, <1>6 DEF FanOut, TypeOK, network, PCs, Tasks
<1>7. ASSUME NEW b \in Bursts, Admit(b) PROVE TypeOK'
  <2>1. b \in Tasks /\ "starting" \in PCs /\ goal[b] \in Sessions
    BY <1>0, <1>7 DEF Tasks, PCs, Admit, OneBurst
  <2> QED BY <1>0, <1>7, <2>1, WriteTypes DEF Admit, TypeOK, network
<1>8. ASSUME NEW b \in Bursts, SendEnd(b) PROVE TypeOK'
  <2>1. goal[b] \in Sessions /\ write[goal[b]] \in Seq(Frame) /\ F(b, "end") \in Frame
    BY <1>0, <1>8, FrameFields DEF SendEnd, EndersFollow, TypeOK, Tasks
  <2>2. Append(write[goal[b]], F(b, "end")) \in Seq(Frame) /\ Append(write[goal[b]], F(b, "end")) # <<>>
    BY <2>1, AppendFacts
  <2>3. /\ write' = [write EXCEPT ![goal[b]] = Append(@, F(b, "end"))] \/ write' = write
        /\ ender' = [ender EXCEPT ![b] = "queued"] \/ ender' = [ender EXCEPT ![b] = "done"]
        /\ socket' = socket /\ registered' = registered /\ audio' = audio /\ sending' = sending
        /\ wire' = wire /\ pc' = pc /\ goal' = goal /\ left' = left
    BY <1>8 DEF SendEnd, network
  <2> DEFINE q == Append(write[goal[b]], F(b, "end"))
  <2> HIDE DEF q
  <2>p. q \in Seq(Frame) /\ q # <<>> /\ write \in [Sessions -> Seq(Frame)]
    BY <1>0, <2>2 DEF q, TypeOK
  <2>w. write' = write \/ write' = [write EXCEPT ![goal[b]] = q]
    BY <2>3 DEF q
  <2>4. write' \in [Sessions -> Seq(Frame)]
    BY <2>1, <2>p, <2>w
  <2>5. \A r \in Sessions : write[r] # <<>> => write'[r] # <<>>
    BY <2>1, <2>p, <2>w
  <2>6. ender' \in [Bursts -> {"none", "new", "queued", "done"}]
    BY <1>0, <2>3 DEF TypeOK
  <2> QED BY <1>0, <2>3, <2>4, <2>5, <2>6 DEF TypeOK
<1>9. ASSUME NEW b \in Bursts, Ended(b) \/ CancelQueued(b) \/ CancelEnding(b) PROVE TypeOK'
  <2>1. [audio EXCEPT ![goal[b]] = Drop(@, b)] \in [Sessions -> Seq(Bursts)]
    BY <1>0, DropTypes
  <2> QED BY <1>0, <1>9, <2>1, ZenonT(30) DEF Ended, CancelQueued, CancelEnding, Leave, TypeOK, network, PCs
<1>10. ASSUME NEW b \in Bursts, NEW s \in Sessions, StreamAudio(b, s) PROVE TypeOK'
  <2>1. Append(audio[s], b) \in Seq(Bursts)
    BY <1>0 DEF TypeOK
  <2>2. /\ audio' = [audio EXCEPT ![s] = Append(@, b)] \/ audio' = audio
        /\ pc' = [pc EXCEPT ![b] = "queued"] \/ pc' = [pc EXCEPT ![b] = "done"]
        /\ goal' = [goal EXCEPT ![b] = s]
        /\ socket' = socket /\ registered' = registered /\ write' = write /\ sending' = sending
        /\ wire' = wire /\ left' = left /\ ender' = ender
    BY <1>10 DEF StreamAudio, network
  <2>3. audio' \in [Sessions -> Seq(Bursts)]
    BY <1>0, <2>1, <2>2 DEF TypeOK
  <2>4. pc' \in [Tasks -> PCs] /\ goal' \in [Tasks -> Sessions \cup {None}]
    BY <1>0, <2>2 DEF TypeOK, PCs
  <2> QED BY <1>0, <2>2, <2>3, <2>4 DEF TypeOK
<1>11. ASSUME NEW b \in Bursts, NextChunk(b) PROVE TypeOK'
  <2>1. b \in Tasks /\ "chunk" \in PCs /\ goal[b] \in Sessions
    BY <1>0, <1>11 DEF Tasks, PCs, NextChunk, OneBurst, Inside
  <2> QED BY <1>0, <1>11, <2>1, WriteTypes DEF NextChunk, TypeOK, network
<1>12. ASSUME NEW b \in Bursts, ProducerEnds(b) PROVE TypeOK'
  BY <1>0, <1>12 DEF ProducerEnds, TypeOK, network, PCs
<1>13. ASSUME NEW b \in Bursts, CancelStarting(b) PROVE TypeOK'
  <2>1. goal[b] \in Sessions
    BY <1>0, <1>13 DEF CancelStarting, OneBurst, Inside
  <2>2. [audio EXCEPT ![goal[b]] = Drop(@, b)] \in [Sessions -> Seq(Bursts)]
    BY <1>0, DropTypes
  <2> QED BY <1>0, <1>13, <2>1, <2>2, WithdrawTypes DEF CancelStarting, Leave, TypeOK, network, PCs
<1>14. ASSUME NEW b \in Bursts, CancelStreaming(b) PROVE TypeOK'
  <2>1. goal[b] \in Sessions
    BY <1>0, <1>14 DEF CancelStreaming, OneBurst, Inside
  <2> QED BY <1>0, <1>14, <2>1, WithdrawTypes DEF CancelStreaming, TypeOK, network, PCs
<1>15. ASSUME NEW s \in Sessions, Lose(s) \/ Unregister(s) PROVE TypeOK'
  BY <1>0, <1>15, ZenonT(30) DEF Lose, Unregister, TypeOK
<1>16. CASE UNCHANGED vars
  BY <1>0, <1>16 DEF vars, TypeOK
<1> QED
  BY <1>1, <1>2, <1>3, <1>4, <1>5, <1>6, <1>7, <1>8, <1>9, <1>10, <1>11, <1>12, <1>13, <1>14,
     <1>15, <1>16 DEF Next, Loop, Cancel

LEMMA QueueStays ==
    ASSUME QueueInv, OneBurst, UNCHANGED <<audio, write, pc, goal, ender>>
    PROVE  QueueInv' /\ OneBurst'
<1>1. WritersWait'
  <2>1. ASSUME NEW s \in Sessions, NEW i \in DOMAIN write[s] PROVE Waits(write[s][i], s)'
    <3>1. PICK f : f = write[s][i] /\ Waits(f, s)
      BY DEF QueueInv, WritersWait
    <3>2. Waits(f, s)'
      BY <3>1 DEF Waits
    <3> QED BY <3>1, <3>2 DEF Waits
  <2> QED BY <2>1 DEF QueueInv, WritersWait
<1>2. EndsBeforeStarts'
  BY DEF QueueInv, EndsBeforeStarts
<1>3. EndsWait'
  BY DEF QueueInv, EndsWait, F
<1>4. EndersFollow' /\ OneBurst'
  BY DEF QueueInv, EndersFollow, OneBurst
<1> QED BY <1>1, <1>2, <1>3, <1>4 DEF QueueInv

LEMMA StepInv ==
    ASSUME IInv, [Next]_vars
    PROVE  IInv'
<1>0. TypeOK' /\ TypeOK /\ OneBurst /\ EndersFollow /\ QueueInv /\ WireInv
  BY StepTypes DEF IInv, QueueInv
<1>t. \A b \in Bursts : b \in Tasks /\ b \notin Senders /\ b \notin Fanouts
  BY ConnectionManagerAssumption DEF Tasks
<1>1. ASSUME NEW s \in Sessions, Transmit(s) PROVE IInv'
  <2>1. CASE Live(s)
    <3>1. /\ write' = write /\ pc' = pc /\ audio' = audio /\ ender' = ender /\ goal' = goal
      BY <1>1, <2>1 DEF Transmit
    <3>2. WireInv'
      BY <1>0, <1>1, <2>1, TransmitWire
    <3>3. QueueInv' /\ OneBurst'
      BY <1>0, <3>1, QueueStays
    <3> QED BY <1>0, <3>2, <3>3 DEF IInv
  <2>2. CASE ~Live(s)
    <3>1. PICK how \in Outcomes : how # "sent" /\ After(Head(write[s]), s, how)
      BY <1>1, <2>2 DEF Transmit, Outcomes
    <3>2. /\ write[s] # <<>> /\ sending[s] = "no" /\ write' = [write EXCEPT ![s] = Tail(@)]
          /\ UNCHANGED <<socket, registered, wire, goal, left>> /\ sending' = sending
      BY <1>1, <2>2 DEF Transmit, network
    <3>3. sending' = [sending EXCEPT ![s] = "no"]
      BY <1>0, <3>2 DEF TypeOK
    <3> QED BY <1>0, <2>2, <3>1, <3>2, <3>3, Released
  <2> QED BY <2>1, <2>2
<1>2. ASSUME NEW s \in Sessions, Drain(s) PROVE IInv'
  <2>1. /\ write[s] # <<>> /\ sending[s] = "yes" /\ write' = [write EXCEPT ![s] = Tail(@)]
        /\ sending' = [sending EXCEPT ![s] = "no"]
        /\ UNCHANGED <<socket, registered, wire, goal, left>>
    BY <1>0, <1>2 DEF Drain, network, TypeOK
  <2>2. PICK how \in Outcomes : (how # "sent" => ~Live(s)) /\ After(Head(write[s]), s, how)
    BY <1>2 DEF Drain, Outcomes, Live
  <2> QED BY <1>0, <2>1, <2>2, Released
<1>3. ASSUME NEW t \in Senders, NEW s \in Sessions, Send(t, s) PROVE IInv'
  <2>1. /\ t \in Tasks /\ pc[t] = "idle" /\ goal' = [goal EXCEPT ![t] = s]
        /\ Write(t, s, "message", "sending") /\ t \notin Bursts
        /\ UNCHANGED <<socket, registered, sending, wire>>
    BY <1>3, ConnectionManagerAssumption DEF Send, network, Tasks
  <2>2. goal'[t] = s /\ \A u \in Tasks \ {t} : goal'[u] = goal[u]
    BY <1>0, <2>1 DEF TypeOK
  <2>3. WritesNext(t, s, "message")
    BY <2>1 DEF WritesNext
  <2> QED BY <1>0, <2>1, <2>2, <2>3, Written
<1>4. ASSUME NEW t \in Fanouts, Publish(t) \/ FanOut(t) PROVE IInv'
  <2>1. /\ t \in Tasks /\ t \notin Bursts /\ pc[t] \in {"idle", "fanning"}
        /\ \E p \in {"fanning", "done"} : pc' = [pc EXCEPT ![t] = p]
        /\ UNCHANGED <<write, sending, wire, socket, registered>>
        /\ audio' = audio /\ goal' = goal /\ ender' = ender
    BY <1>4, ConnectionManagerAssumption DEF Publish, FanOut, network, Tasks
  <2>2. OnlyActs(t) /\ MovesOn(t)
    BY <1>0, <2>1 DEF OnlyActs, MovesOn, TypeOK
  <2>3. OneBurst'
    BY <1>0, <1>t, <2>1, <2>2, LineStays DEF OnlyActs
  <2> QED BY <1>0, <2>1, <2>2, <2>3, QuietStep
<1>5. ASSUME NEW t \in Fanouts, FanOn(t) PROVE IInv'
  <2>1. PICK s \in left[t] : goal' = [goal EXCEPT ![t] = s] /\ Write(t, s, "message", "sending")
    BY <1>5 DEF FanOn
  <2>2. /\ t \in Tasks /\ pc[t] = "fanning" /\ t \notin Bursts /\ s \in Sessions
        /\ UNCHANGED <<socket, registered, sending, wire>>
    BY <1>0, <1>5, ConnectionManagerAssumption DEF FanOn, network, Tasks, TypeOK
  <2>3. goal'[t] = s /\ \A u \in Tasks \ {t} : goal'[u] = goal[u]
    BY <1>0, <2>1, <2>2 DEF TypeOK
  <2>4. WritesNext(t, s, "message")
    BY <2>2 DEF WritesNext
  <2> QED BY <1>0, <2>1, <2>2, <2>3, <2>4, Written
<1>6. ASSUME NEW b \in Bursts, Admit(b) PROVE IInv'
  <2>1. /\ pc[b] = "queued" /\ Head(audio[goal[b]]) = b /\ Write(b, goal[b], "start", "starting")
        /\ UNCHANGED <<socket, registered, sending, wire>> /\ goal' = goal
    BY <1>6 DEF Admit, network
  <2>2. goal[b] \in Sessions
    BY <1>0, <2>1 DEF OneBurst
  <2>3. WritesNext(b, goal[b], "start")
    BY <1>0, <2>1, <2>2 DEF WritesNext, OneBurst
  <2>4. PICK s \in Sessions : s = goal[b]
    BY <2>2
  <2> QED BY <1>0, <1>t, <2>1, <2>3, <2>4, Written
<1>7. ASSUME NEW b \in Bursts, NextChunk(b) PROVE IInv'
  <2>1. /\ pc[b] = "feeding" /\ Write(b, goal[b], "chunk", "chunk")
        /\ UNCHANGED <<socket, registered, sending, wire>> /\ goal' = goal
    BY <1>7 DEF NextChunk, network
  <2>2. PICK s \in Sessions : s = goal[b]
    BY <1>0, <2>1 DEF OneBurst, Inside
  <2>3. WritesNext(b, s, "chunk")
    BY <1>0, <2>1, <2>2 DEF WritesNext, OneBurst
  <2> QED BY <1>0, <1>t, <2>1, <2>2, <2>3, Written
<1>8. ASSUME NEW b \in Bursts, SendEnd(b) PROVE IInv'
  <2>1. CASE registered[goal[b]] = "yes"
    BY <1>0, <1>8, <2>1, EndQueued
  <2>2. CASE registered[goal[b]] # "yes"
    <3>1. /\ ender[b] = "new" /\ ender' = [ender EXCEPT ![b] = "done"] /\ pc[b] = "ending"
          /\ UNCHANGED <<write, sending, wire, socket, registered>>
          /\ audio' = audio /\ goal' = goal /\ pc' = pc
      BY <1>0, <1>8, <2>2 DEF SendEnd, network, EndersFollow
    <3>2. OnlyActs(b) /\ MovesOn(b)
      BY <1>0, <2>2, <3>1 DEF OnlyActs, MovesOn, TypeOK, Live
    <3>3. OneBurst'
      BY <1>0, <3>1 DEF OneBurst
    <3> QED BY <1>0, <1>t, <3>1, <3>2, <3>3, QuietStep
  <2> QED BY <2>1, <2>2
<1>9. ASSUME NEW b \in Bursts, Ended(b) \/ CancelQueued(b) \/ CancelEnding(b) PROVE IInv'
  <2>1. /\ pc[b] \in {"queued", "ending"} /\ Leave(b)
        /\ UNCHANGED <<write, sending, wire, socket, registered>>
        /\ goal' = goal /\ ender' = ender /\ ender[b] # "new"
    BY <1>0, <1>9 DEF Ended, CancelQueued, CancelEnding, network, EndersFollow
  <2>2. OnlyActs(b) /\ MovesOn(b) /\ pc'[b] = "done"
    BY <1>0, <1>t, <2>1 DEF OnlyActs, MovesOn, TypeOK, Leave
  <2>3. OneBurst'
    BY <1>0, <1>t, <2>1, <2>2, LineLeft DEF OnlyActs, Leave, InLine, Inside
  <2> QED BY <1>0, <1>t, <2>1, <2>2, <2>3, QuietStep
<1>10. ASSUME NEW b \in Bursts, NEW s \in Sessions, StreamAudio(b, s) PROVE IInv'
  <2>1. /\ pc[b] = "idle" /\ goal' = [goal EXCEPT ![b] = s] /\ ender' = ender
        /\ UNCHANGED <<write, sending, wire, socket, registered>>
        /\ \/ audio' = [audio EXCEPT ![s] = Append(@, b)] /\ pc' = [pc EXCEPT ![b] = "queued"]
           \/ audio' = audio /\ pc' = [pc EXCEPT ![b] = "done"]
    BY <1>10 DEF StreamAudio, network
  <2>2. OnlyActs(b) /\ MovesOn(b) /\ goal'[b] = s
    BY <1>0, <1>t, <2>1 DEF OnlyActs, MovesOn, TypeOK
  <2>3. OneBurst'
    <3>1. CASE audio' = [audio EXCEPT ![s] = Append(@, b)] /\ pc' = [pc EXCEPT ![b] = "queued"]
      <4>1. pc'[b] = "queued"
        BY <1>0, <1>t, <3>1 DEF TypeOK
      <4> QED BY <1>0, <1>t, <2>1, <2>2, <3>1, <4>1, LineGrows DEF OnlyActs, InLine, Inside
    <3>2. CASE audio' = audio /\ pc' = [pc EXCEPT ![b] = "done"]
      <4>1. pc'[b] = "done"
        BY <1>0, <1>t, <3>2 DEF TypeOK
      <4> QED BY <1>0, <1>t, <2>1, <2>2, <3>2, <4>1, LineStays DEF OnlyActs, InLine, Inside
    <3> QED BY <2>1, <3>1, <3>2
  <2> QED BY <1>0, <1>t, <2>1, <2>2, <2>3, QuietStep
<1>11. ASSUME NEW b \in Bursts, pc[b] = "feeding", pc' = [pc EXCEPT ![b] = "ending"],
              ender' = [ender EXCEPT ![b] = "new"], audio' = audio, goal' = goal,
              UNCHANGED <<write, sending, wire, socket, registered>>
       PROVE  IInv'
  <2>1. OnlyActs(b) /\ MovesOn(b) /\ pc'[b] = "ending"
    BY <1>0, <1>t, <1>11 DEF OnlyActs, MovesOn, TypeOK
  <2>2. OneBurst'
    BY <1>0, <1>t, <1>11, <2>1, LineStays DEF OnlyActs, Inside
  <2> QED BY <1>0, <1>t, <1>11, <2>1, <2>2, QuietStep
<1>12. ASSUME NEW b \in Bursts, ProducerEnds(b) PROVE IInv'
  BY <1>11, <1>12 DEF ProducerEnds, network
<1>13. ASSUME NEW b \in Bursts, CancelStarting(b) PROVE IInv'
  BY <1>0, <1>13, Withdrawn DEF CancelStarting, network
<1>14. ASSUME NEW b \in Bursts, CancelStreaming(b) PROVE IInv'
  <2>1. CASE pc[b] = "feeding"
    BY <1>11, <1>14, <2>1 DEF CancelStreaming, network
  <2>2. CASE pc[b] = "chunk"
    BY <1>0, <1>14, <2>2, Withdrawn DEF CancelStreaming, network
  <2> QED BY <1>14, <2>1, <2>2 DEF CancelStreaming
<1>15. ASSUME UNCHANGED <<audio, write, sending, wire, pc, goal, left, ender>>,
              \A r \in Sessions : Live(r)' => Live(r)
       PROVE  IInv'
  <2>1. QueueInv' /\ OneBurst'
    BY <1>0, <1>15, QueueStays
  <2>2. \A b \in Bursts : Went(b)
    BY <1>0, <1>15 DEF Went, EndersFollow
  <2>3. \A b \in Bursts : Open(b)' => pc[b] # "idle" /\ goal[b] \in Sessions /\ Open(b)
    BY <1>0, <1>15 DEF Open, OnWire, F, OneBurst, EndersFollow, Inside
  <2>4. WireInv'
    BY <1>0, <1>15, <2>2, <2>3, WireStays
  <2> QED BY <1>0, <2>1, <2>4 DEF IInv
<1>16. ASSUME NEW s \in Sessions, Lose(s) \/ Unregister(s) PROVE IInv'
  BY <1>0, <1>15, <1>16 DEF Lose, Unregister, Live, TypeOK
<1>17. CASE UNCHANGED vars
  BY <1>15, <1>17 DEF vars, Live
<1> QED
  BY <1>1, <1>2, <1>3, <1>4, <1>5, <1>6, <1>7, <1>8, <1>9, <1>10, <1>12, <1>13, <1>14,
     <1>16, <1>17 DEF Next, Loop, Cancel

LEMMA InvImplies == IInv => BurstsAreWhole
<1> SUFFICES ASSUME IInv PROVE BurstsAreWhole
  OBVIOUS
<1>0. TypeOK /\ EndersFollow /\ FramesKnown /\ EndsSent /\ BurstsDoNotOverlap
  BY DEF IInv, QueueInv, WireInv
<1>1. ASSUME NEW b \in Bursts, pc[b] = "done", Sent(b, "chunk"), Live(goal[b])
      PROVE  Sent(b, "end") \/ ender[b] \in {"new", "queued"}
  <2>0. PICK s \in Sessions : \E i \in DOMAIN wire[s] : wire[s][i] = F(b, "chunk")
    BY <1>1 DEF Sent
  <2>1. PICK i \in DOMAIN wire[s] : wire[s][i] = F(b, "chunk")
    BY <2>0
  <2>2. goal[b] = s /\ ender[b] # "none"
    BY <1>0, <1>1, <2>1 DEF FramesKnown, F
  <2>3. ender[b] = "done" => OnWire(s, F(b, "end"))
    BY <1>0, <1>1, <2>2 DEF EndsSent
  <2>4. ender[b] \in {"new", "queued", "done"}
    BY <1>0, <2>2 DEF TypeOK
  <2> QED BY <2>1, <2>3, <2>4 DEF Sent, OnWire
<1> QED BY <1>0, <1>1 DEF BurstsAreWhole, HeardIsEnded

THEOREM Inductive == Spec => []IInv
<1>1. Init => IInv
  BY InitInv
<1>2. IInv /\ [Next]_vars => IInv'
  BY StepInv
<1> QED BY <1>1, <1>2, PTL DEF Spec

(* Every variable keeps its type, and what is being sent is at the head of   *)
(* its queue (the write lock of send and _send_frame).                      *)
THEOREM TypeCorrect == Spec => []TypeOK
<1>1. IInv => TypeOK
  BY DEF IInv
<1> QED BY <1>1, Inductive, PTL

(* However bursts, messages and fan-outs interleave, wherever their tasks    *)
(* are cancelled and whenever clients go away: between a start and the next  *)
(* start or end a client is only sent chunks of that burst, and a burst it   *)
(* has heard part of is ended or about to be (stream_audio, _send_end_frame).*)
THEOREM BurstsCorrect == Spec => []BurstsAreWhole
BY Inductive, InvImplies, PTL
=============================================================================
