----------------------- MODULE RealtimeSessionsProofs -----------------------
(***************************************************************************)
(* What the pool of realtime sessions and its locks guarantee for every    *)
(* number of turns, conversations, locks and sessions.  One inductive      *)
(* invariant, IInv, carries what is said of the locks: who is past the     *)
(* acquire holds its lock, who waits is queued once and under its own      *)
(* lock, and a woken turn is the first of the queue of a free lock.  A     *)
(* second one, PoolInv, inductive on top of it, carries the pool.          *)
(***************************************************************************)
EXTENDS RealtimeSessions, SequenceTheorems, TLAPS

HoldersInside ==
    /\ \A t \in Turns : pc[t] \in Inside =>
            turn[t].lock \in Locks /\ holder[turn[t].lock] = t
    /\ \A l \in Locks : holder[l] # None =>
            pc[holder[l]] \in Inside /\ turn[holder[l]].lock = l

WaitersQueued ==
    /\ \A t \in Turns : pc[t] = "waiting" => turn[t].lock \in Locks
    /\ \A l \in Locks : \A i \in DOMAIN queue[l] :
            pc[queue[l][i]] = "waiting" /\ turn[queue[l][i]].lock = l
    /\ \A l \in Locks : \A i, j \in DOMAIN queue[l] : queue[l][i] = queue[l][j] => i = j

WokenFirst ==
    \A t \in woken : /\ turn[t].lock \in Locks
                     /\ queue[turn[t].lock] # <<>> /\ Head(queue[turn[t].lock]) = t
                     /\ holder[turn[t].lock] = None

LockInv == HoldersInside /\ WaitersQueued /\ WokenFirst /\ FreeLockWakesFirst

(* A turn under way knows its conversation, and has a session once it works. *)
TurnKnows ==
    \A t \in Turns : /\ pc[t] # "idle" => turn[t].key \in Keys
                     /\ pc[t] \in {"running", "settling", "discarding"} =>
                            turn[t].using \in Sessions

IInv == TypeOK /\ TurnKnows /\ LockInv

(* Removing a waiter keeps the others, their order at the head and their    *)
(* being distinct.                                                          *)
LEMMA WithoutFacts ==
    ASSUME NEW S, NEW q \in Seq(S), NEW t,
           \A i, j \in DOMAIN q : q[i] = q[j] => i = j
    PROVE  /\ Without(q, t) \in Seq(S)
           /\ \A i \in DOMAIN Without(q, t) :
                  Without(q, t)[i] # t /\ \E j \in DOMAIN q : Without(q, t)[i] = q[j]
           /\ \A i, j \in DOMAIN Without(q, t) : Without(q, t)[i] = Without(q, t)[j] => i = j
           /\ q # <<>> /\ Head(q) # t => Without(q, t) # <<>> /\ Head(Without(q, t)) = Head(q)
<1>1. CASE ~ \E i \in DOMAIN q : q[i] = t
  BY <1>1 DEF Without
<1>2. CASE \E i \in DOMAIN q : q[i] = t
  <2> DEFINE i0 == CHOOSE i \in DOMAIN q : q[i] = t
             r == RemoveAt(q, i0)
  <2>1. i0 \in 1 .. Len(q) /\ q[i0] = t
    BY <1>2
  <2>2. Without(q, t) = r
    BY <1>2 DEF Without
  <2> HIDE DEF i0
  <2>3. /\ r \in Seq(S) /\ Len(r) = Len(q) - 1
        /\ \A i \in 1 .. Len(r) : r[i] = IF i < i0 THEN q[i] ELSE q[i + 1]
    <3> DEFINE a == SubSeq(q, 1, i0 - 1)
               b == SubSeq(q, i0 + 1, Len(q))
    <3>1. a \in Seq(S) /\ Len(a) = i0 - 1 /\ \A i \in 1 .. i0 - 1 : a[i] = q[i]
      BY <2>1
    <3>2. b \in Seq(S) /\ Len(b) = Len(q) - i0 /\ \A i \in 1 .. Len(q) - i0 : b[i] = q[i0 + i]
      BY <2>1
    <3>3. r = a \o b
      BY DEF RemoveAt
    <3> HIDE DEF a, b, r
    <3>4. r \in Seq(S) /\ Len(r) = Len(a) + Len(b)
      BY <3>1, <3>2, <3>3
    <3>5. \A i \in 1 .. Len(r) : r[i] = IF i <= Len(a) THEN a[i] ELSE b[i - Len(a)]
      BY <3>1, <3>2, <3>3, <3>4
    <3>6. ASSUME NEW i \in 1 .. Len(r) PROVE r[i] = IF i < i0 THEN q[i] ELSE q[i + 1]
      <4>1. CASE i < i0
        BY <4>1, <3>1, <3>2, <3>4, <3>5, <2>1
      <4>2. CASE ~(i < i0)
        <5>1. i - Len(a) \in 1 .. Len(q) - i0 /\ i0 + (i - Len(a)) = i + 1
          BY <4>2, <3>1, <3>2, <3>4, <2>1
        <5> QED BY <4>2, <5>1, <3>1, <3>2, <3>4, <3>5, <2>1
      <4> QED BY <4>1, <4>2
    <3> QED BY <3>1, <3>2, <3>4, <3>6, <2>1
  <2> HIDE DEF r
  <2>4. DOMAIN r = 1 .. Len(r) /\ DOMAIN q = 1 .. Len(q)
    BY <2>3
  <2>5. \A i \in DOMAIN r : r[i] # t /\ \E j \in DOMAIN q : r[i] = q[j]
    BY <2>1, <2>3, <2>4
  <2>6. \A i, j \in DOMAIN r : r[i] = r[j] => i = j
    BY <2>1, <2>3, <2>4
  <2>7. q # <<>> /\ Head(q) # t => r # <<>> /\ Head(r) = Head(q)
    BY <2>1, <2>3, <2>4
  <2> QED BY <2>2, <2>3, <2>5, <2>6, <2>7
<1> QED BY <1>1, <1>2

(* What one turn's step leaves alone in the other turns.                    *)
OnlyMoves(t) == \A u \in Turns \ {t} : pc'[u] = pc[u] /\ turn'[u].lock = turn[u].lock
Outside == {"idle", "sweeping"}

LEMMA LockTypes ==
    ASSUME TypeOK
    PROVE  /\ None \notin Turns /\ None \notin Locks
           /\ \A l \in Locks : holder[l] \in Turns \cup {None} /\ queue[l] \in Seq(Turns)
           /\ \A l \in Locks : \A i \in DOMAIN queue[l] : queue[l][i] \in Turns
           /\ \A u \in woken : u \in Turns /\ pc[u] = "waiting"
           /\ holder = [l \in Locks |-> holder[l]] /\ queue = [l \in Locks |-> queue[l]]
BY RealtimeSessionsAssumption DEF TypeOK

(* The lock's life, one lemma per kind of step: a turn moves and keeps its  *)
(* lock or has none, takes a free one, queues, takes the one it was woken   *)
(* for, releases it, or stops waiting.                                      *)
LEMMA MoveKeepsLocks ==
    ASSUME TypeOK, TypeOK', LockInv, NEW t \in Turns, OnlyMoves(t),
           turn'[t].lock = turn[t].lock \/ pc'[t] \in Outside,
           \/ pc[t] \in Inside /\ pc'[t] \in Inside
           \/ pc[t] \in Outside /\ pc'[t] \in Outside,
           UNCHANGED <<holder, queue, woken>>
    PROVE  LockInv'
<1> USE LockTypes DEF LockInv, OnlyMoves, Inside, Outside
<1>1. HoldersInside'
  <2>1. \A u \in Turns : pc'[u] \in Inside =>
            turn'[u].lock \in Locks /\ holder[turn'[u].lock] = u
    BY DEF HoldersInside
  <2>2. ASSUME NEW l \in Locks, holder[l] # None
        PROVE  pc'[holder[l]] \in Inside /\ turn'[holder[l]].lock = l
    <3>1. holder[l] \in Turns /\ pc[holder[l]] \in Inside /\ turn[holder[l]].lock = l
      BY <2>2 DEF HoldersInside
    <3> QED BY <3>1
  <2> QED BY <2>1, <2>2 DEF HoldersInside
<1>2. WaitersQueued'
  <2>1. \A l \in Locks : \A i \in DOMAIN queue[l] :
            queue[l][i] \in Turns \ {t} /\ pc[queue[l][i]] = "waiting" /\ turn[queue[l][i]].lock = l
    BY DEF WaitersQueued
  <2>2. \A l \in Locks : \A i \in DOMAIN queue[l] :
            pc'[queue[l][i]] = "waiting" /\ turn'[queue[l][i]].lock = l
    BY <2>1
  <2>3. \A u \in Turns : pc'[u] = "waiting" => turn'[u].lock \in Locks
    BY DEF WaitersQueued
  <2> QED BY <2>2, <2>3 DEF WaitersQueued
<1>3. WokenFirst'
  <2>1. t \notin woken
    OBVIOUS
  <2> QED BY <2>1 DEF WokenFirst
<1>4. FreeLockWakesFirst'
  BY DEF FreeLockWakesFirst
<1> QED BY <1>1, <1>2, <1>3, <1>4

LEMMA TakeKeepsLocks ==
    ASSUME TypeOK, TypeOK', LockInv, NEW t \in Turns, OnlyMoves(t), NEW l \in Locks,
           holder[l] = None, queue[l] = <<>>,
           pc[t] \in Outside, pc'[t] \in Inside, turn'[t].lock = l,
           holder' = [holder EXCEPT ![l] = t], UNCHANGED <<queue, woken>>
    PROVE  LockInv'
<1> USE LockTypes DEF LockInv, OnlyMoves, Inside, Outside
<1>a. holder'[l] = t /\ \A k \in Locks \ {l} : holder'[k] = holder[k]
  OBVIOUS
<1>1. HoldersInside'
  <2>1. \A u \in Turns \ {t} : pc[u] \in Inside => turn[u].lock # l
    BY DEF HoldersInside
  <2>2. \A u \in Turns : pc'[u] \in Inside =>
            turn'[u].lock \in Locks /\ holder'[turn'[u].lock] = u
    BY <2>1, <1>a DEF HoldersInside
  <2>3. ASSUME NEW k \in Locks, holder'[k] # None
        PROVE  pc'[holder'[k]] \in Inside /\ turn'[holder'[k]].lock = k
    <3>1. k # l => holder[k] \in Turns /\ pc[holder[k]] \in Inside /\ turn[holder[k]].lock = k
      BY <2>3, <1>a DEF HoldersInside
    <3> QED BY <3>1, <1>a
  <2> QED BY <2>2, <2>3 DEF HoldersInside
<1>2. WaitersQueued'
  <2>1. \A k \in Locks : \A i \in DOMAIN queue[k] :
            queue[k][i] \in Turns \ {t} /\ pc[queue[k][i]] = "waiting" /\ turn[queue[k][i]].lock = k
    BY DEF WaitersQueued
  <2>2. \A k \in Locks : \A i \in DOMAIN queue[k] :
            pc'[queue[k][i]] = "waiting" /\ turn'[queue[k][i]].lock = k
    BY <2>1
  <2>3. \A u \in Turns : pc'[u] = "waiting" => turn'[u].lock \in Locks
    BY DEF WaitersQueued
  <2> QED BY <2>2, <2>3 DEF WaitersQueued
<1>3. WokenFirst'
  <2>1. \A u \in woken : u # t /\ turn[u].lock # l
    BY DEF WokenFirst
  <2> QED BY <2>1, <1>a DEF WokenFirst
<1>4. FreeLockWakesFirst'
  BY <1>a DEF FreeLockWakesFirst
<1> QED BY <1>1, <1>2, <1>3, <1>4

LEMMA QueueKeepsLocks ==
    ASSUME TypeOK, TypeOK', LockInv, NEW t \in Turns, OnlyMoves(t), NEW l \in Locks,
           ~(holder[l] = None /\ queue[l] = <<>>),
           pc[t] \in Outside, pc'[t] = "waiting", turn'[t].lock = l,
           queue' = [queue EXCEPT ![l] = Append(@, t)], UNCHANGED <<holder, woken>>
    PROVE  LockInv'
<1> USE LockTypes DEF LockInv, OnlyMoves, Inside, Outside
<1>a. /\ Append(queue[l], t) \in Seq(Turns) /\ Append(queue[l], t) # <<>>
      /\ Len(Append(queue[l], t)) = Len(queue[l]) + 1
      /\ \A i \in 1 .. Len(queue[l]) : Append(queue[l], t)[i] = queue[l][i]
      /\ Append(queue[l], t)[Len(queue[l]) + 1] = t
      /\ queue[l] # <<>> => Head(Append(queue[l], t)) = Head(queue[l])
  OBVIOUS
<1>b. queue'[l] = Append(queue[l], t) /\ \A k \in Locks \ {l} : queue'[k] = queue[k]
  OBVIOUS
<1>1. HoldersInside'
  <2>1. \A u \in Turns : pc'[u] \in Inside =>
            turn'[u].lock \in Locks /\ holder[turn'[u].lock] = u
    BY DEF HoldersInside
  <2>2. ASSUME NEW k \in Locks, holder[k] # None
        PROVE  pc'[holder[k]] \in Inside /\ turn'[holder[k]].lock = k
    <3>1. holder[k] \in Turns /\ pc[holder[k]] \in Inside /\ turn[holder[k]].lock = k
      BY <2>2 DEF HoldersInside
    <3> QED BY <3>1
  <2> QED BY <2>1, <2>2 DEF HoldersInside
<1>2. WaitersQueued'
  <2>1. \A k \in Locks : \A i \in DOMAIN queue[k] :
            queue[k][i] \in Turns \ {t} /\ pc[queue[k][i]] = "waiting" /\ turn[queue[k][i]].lock = k
    BY DEF WaitersQueued
  <2>0. ASSUME NEW k \in Locks, NEW i \in DOMAIN queue[k]
        PROVE  pc'[queue[k][i]] = "waiting" /\ turn'[queue[k][i]].lock = k
    <3> DEFINE u == queue[k][i]
    <3>1. u \in Turns \ {t} /\ pc[u] = "waiting" /\ turn[u].lock = k
      BY <2>1
    <3> HIDE DEF u
    <3>2. pc'[u] = "waiting" /\ turn'[u].lock = k
      BY <3>1
    <3> QED BY <3>2 DEF u
  <2>2. \A u \in Turns : pc'[u] = "waiting" => turn'[u].lock \in Locks
    BY DEF WaitersQueued
  <2>3. \A i \in DOMAIN queue'[l] : pc'[queue'[l][i]] = "waiting" /\ turn'[queue'[l][i]].lock = l
    <3> SUFFICES ASSUME NEW i \in 1 .. Len(queue[l]) + 1
                 PROVE  /\ pc'[Append(queue[l], t)[i]] = "waiting"
                        /\ turn'[Append(queue[l], t)[i]].lock = l
      BY <1>a, <1>b
    <3>1. CASE i \in 1 .. Len(queue[l])
      BY <3>1, <1>a, <2>0
    <3>2. CASE i = Len(queue[l]) + 1
      BY <3>2, <1>a
    <3> QED BY <3>1, <3>2
  <2>4. \A i, j \in DOMAIN queue'[l] : queue'[l][i] = queue'[l][j] => i = j
    BY <1>a, <1>b, <2>1 DEF WaitersQueued
  <2>5. ASSUME NEW k \in Locks \ {l}
        PROVE  /\ \A i \in DOMAIN queue'[k] :
                      pc'[queue'[k][i]] = "waiting" /\ turn'[queue'[k][i]].lock = k
               /\ \A i, j \in DOMAIN queue'[k] : queue'[k][i] = queue'[k][j] => i = j
    BY <1>b, <2>0 DEF WaitersQueued
  <2> QED BY <2>2, <2>3, <2>4, <2>5 DEF WaitersQueued
<1>3. WokenFirst'
  <2> SUFFICES ASSUME NEW u \in woken
               PROVE  /\ turn'[u].lock \in Locks
                      /\ queue'[turn'[u].lock] # <<>> /\ Head(queue'[turn'[u].lock]) = u
                      /\ holder'[turn'[u].lock] = None
    BY DEF WokenFirst
  <2>1. u \in Turns \ {t}
    OBVIOUS
  <2>2. turn'[u].lock = turn[u].lock
    BY <2>1
  <2>3. /\ turn[u].lock \in Locks /\ queue[turn[u].lock] # <<>>
        /\ Head(queue[turn[u].lock]) = u /\ holder[turn[u].lock] = None
    BY DEF WokenFirst
  <2>4. CASE turn[u].lock = l
    BY <2>2, <2>3, <2>4, <1>a, <1>b
  <2>5. CASE turn[u].lock # l
    BY <2>2, <2>3, <2>5, <1>b
  <2> QED BY <2>4, <2>5
<1>4. FreeLockWakesFirst'
  <2> SUFFICES ASSUME NEW k \in Locks, holder'[k] = None, queue'[k] # <<>>
               PROVE  Head(queue'[k]) \in woken'
    BY DEF FreeLockWakesFirst
  <2>1. CASE k = l
    BY <2>1, <1>a, <1>b DEF FreeLockWakesFirst
  <2>2. CASE k # l
    BY <2>2, <1>b DEF FreeLockWakesFirst
  <2> QED BY <2>1, <2>2
<1> QED BY <1>1, <1>2, <1>3, <1>4

LEMMA ResumeKeepsLocks ==
    ASSUME TypeOK, TypeOK', LockInv, NEW t \in woken, OnlyMoves(t),
           pc[t] = "waiting", pc'[t] \in Inside, turn'[t].lock = turn[t].lock,
           woken' = woken \ {t},
           queue' = [queue EXCEPT ![turn[t].lock] = Without(@, t)],
           holder' = [holder EXCEPT ![turn[t].lock] = t]
    PROVE  LockInv'
<1> DEFINE l == turn[t].lock
           q == queue[l]
           r == Without(q, t)
<1> USE LockTypes DEF LockInv, OnlyMoves, Inside
<1>0. None \notin Turns /\ t \in Turns
  OBVIOUS
<1>a. l \in Locks /\ holder[l] = None /\ q # <<>> /\ Head(q) = t
  BY DEF WokenFirst
<1>b. q \in Seq(Turns) /\ \A i, j \in DOMAIN q : q[i] = q[j] => i = j
  BY <1>a DEF WaitersQueued
<1> HIDE DEF l, q
<1>c. /\ r \in Seq(Turns)
      /\ \A i \in DOMAIN r : r[i] # t /\ \E j \in DOMAIN q : r[i] = q[j]
      /\ \A i, j \in DOMAIN r : r[i] = r[j] => i = j
  BY <1>b, WithoutFacts
<1>d. queue'[l] = r /\ holder'[l] = t
      /\ \A k \in Locks \ {l} : queue'[k] = queue[k] /\ holder'[k] = holder[k]
  BY <1>a DEF l, q
<1> HIDE DEF r
<1>1. HoldersInside'
  <2>1. \A u \in Turns \ {t} : pc[u] \in Inside => turn[u].lock # l
    BY <1>0, <1>a DEF HoldersInside
  <2>2. pc'[t] \in Inside /\ turn'[t].lock = l
    BY DEF l
  <2>3. \A u \in Turns : pc'[u] \in Inside =>
            turn'[u].lock \in Locks /\ holder'[turn'[u].lock] = u
    <3>1. ASSUME NEW u \in Turns \ {t}, pc[u] \in Inside
          PROVE  turn[u].lock \in Locks \ {l} /\ holder'[turn[u].lock] = u
      BY <3>1, <2>1, <1>d DEF HoldersInside
    <3> QED BY <3>1, <2>2, <1>a, <1>d
  <2>4. ASSUME NEW k \in Locks, holder'[k] # None
        PROVE  pc'[holder'[k]] \in Inside /\ turn'[holder'[k]].lock = k
    <3>1. k # l => holder[k] \in Turns \ {t} /\ pc[holder[k]] \in Inside
                   /\ turn[holder[k]].lock = k
      BY <2>4, <1>d DEF HoldersInside, l
    <3> QED BY <3>1, <2>2, <1>d
  <2> QED BY <2>3, <2>4 DEF HoldersInside
<1>2. WaitersQueued'
  <2>1. \A k \in Locks \ {l} : \A i \in DOMAIN queue[k] : queue[k][i] \in Turns \ {t}
    BY DEF WaitersQueued, l
  <2>2. \A u \in Turns : pc'[u] = "waiting" => turn'[u].lock \in Locks
    BY DEF WaitersQueued
  <2>3. ASSUME NEW i \in DOMAIN r
        PROVE  r[i] \in Turns \ {t} /\ pc[r[i]] = "waiting" /\ turn[r[i]].lock = l
    <3>1. PICK j \in DOMAIN q : r[i] = q[j] /\ r[i] # t
      BY <1>c
    <3> QED BY <3>1, <1>a DEF WaitersQueued, q
  <2>4. \A i \in DOMAIN r : pc'[r[i]] = "waiting" /\ turn'[r[i]].lock = l
    BY <2>3
  <2>5. ASSUME NEW k \in Locks \ {l}
        PROVE  /\ \A i \in DOMAIN queue'[k] :
                      pc'[queue'[k][i]] = "waiting" /\ turn'[queue'[k][i]].lock = k
               /\ \A i, j \in DOMAIN queue'[k] : queue'[k][i] = queue'[k][j] => i = j
    BY <1>d, <2>1 DEF WaitersQueued
  <2> QED BY <2>2, <2>4, <2>5, <1>c, <1>d DEF WaitersQueued
<1>3. WokenFirst'
  <2> SUFFICES ASSUME NEW u \in woken \ {t}
               PROVE  /\ turn'[u].lock \in Locks
                      /\ queue'[turn'[u].lock] # <<>> /\ Head(queue'[turn'[u].lock]) = u
                      /\ holder'[turn'[u].lock] = None
    BY DEF WokenFirst
  <2>1. turn[u].lock # l
    BY <1>a DEF WokenFirst, q
  <2>2. turn'[u].lock = turn[u].lock
    OBVIOUS
  <2> QED BY <2>1, <2>2, <1>d DEF WokenFirst
<1>4. FreeLockWakesFirst'
  <2> SUFFICES ASSUME NEW k \in Locks, holder'[k] = None, queue'[k] # <<>>
               PROVE  Head(queue'[k]) \in woken'
    BY DEF FreeLockWakesFirst
  <2>1. k # l
    BY <1>0, <1>d
  <2>2. Head(queue[k]) \in woken /\ queue[k] # <<>>
    BY <2>1, <1>d DEF FreeLockWakesFirst
  <2>3. Head(queue[k]) # t
    BY <2>1, <2>2 DEF WaitersQueued, l
  <2> QED BY <2>1, <2>2, <2>3, <1>d
<1> QED BY <1>1, <1>2, <1>3, <1>4

LEMMA ReleaseKeepsLocks ==
    ASSUME TypeOK, TypeOK', LockInv, NEW t \in Turns, OnlyMoves(t),
           pc[t] \in Inside, pc'[t] \in Outside, Release(t)
    PROVE  LockInv'
<1> DEFINE l == turn[t].lock
<1> USE LockTypes DEF LockInv, OnlyMoves, Inside, Outside
<1>0. None \notin Turns
  OBVIOUS
<1>a. l \in Locks /\ holder[l] = t
  BY DEF HoldersInside
<1>b. /\ holder'[l] = None /\ \A k \in Locks \ {l} : holder'[k] = holder[k]
      /\ queue' = queue
      /\ woken' = IF queue[l] = <<>> THEN woken ELSE woken \cup {Head(queue[l])}
  BY <1>a DEF Release
<1> HIDE DEF l
<1>1. HoldersInside'
  <2>1. \A u \in Turns \ {t} : pc[u] \in Inside => turn[u].lock # l
    BY <1>0, <1>a DEF HoldersInside
  <2>2. \A k \in Locks \ {l} : holder[k] # t
    BY <1>0 DEF HoldersInside, l
  <2>3. ASSUME NEW u \in Turns, pc'[u] \in Inside
        PROVE  turn'[u].lock \in Locks /\ holder'[turn'[u].lock] = u
    <3>1. u # t
      BY <2>3
    <3>2. turn[u].lock \in Locks \ {l} /\ holder[turn[u].lock] = u
      BY <3>1, <2>1, <2>3 DEF HoldersInside
    <3> QED BY <3>1, <3>2, <1>b
  <2>4. ASSUME NEW k \in Locks, holder'[k] # None
        PROVE  pc'[holder'[k]] \in Inside /\ turn'[holder'[k]].lock = k
    <3>1. k # l /\ holder'[k] = holder[k]
      BY <2>4, <1>b
    <3>2. holder[k] \in Turns \ {t} /\ pc[holder[k]] \in Inside /\ turn[holder[k]].lock = k
      BY <3>1, <2>2, <2>4 DEF HoldersInside
    <3> QED BY <3>1, <3>2
  <2> QED BY <2>3, <2>4 DEF HoldersInside
<1>2. WaitersQueued'
  <2>1. ASSUME NEW k \in Locks, NEW i \in DOMAIN queue[k]
        PROVE  pc'[queue[k][i]] = "waiting" /\ turn'[queue[k][i]].lock = k
    <3> DEFINE u == queue[k][i]
    <3>1. u \in Turns \ {t} /\ pc[u] = "waiting" /\ turn[u].lock = k
      BY DEF WaitersQueued
    <3> HIDE DEF u
    <3>2. pc'[u] = "waiting" /\ turn'[u].lock = k
      BY <3>1
    <3> QED BY <3>2 DEF u
  <2>2. \A u \in Turns : pc'[u] = "waiting" => turn'[u].lock \in Locks
    BY DEF WaitersQueued
  <2> QED BY <2>1, <2>2, <1>b DEF WaitersQueued
<1>3. WokenFirst'
  <2> SUFFICES ASSUME NEW u \in woken'
               PROVE  /\ turn'[u].lock \in Locks
                      /\ queue'[turn'[u].lock] # <<>> /\ Head(queue'[turn'[u].lock]) = u
                      /\ holder'[turn'[u].lock] = None
    BY DEF WokenFirst
  <2>1. CASE u \in woken
    <3>1. u \in Turns \ {t} /\ turn[u].lock # l
      BY <2>1, <1>0, <1>a DEF WokenFirst
    <3> QED BY <2>1, <3>1, <1>b DEF WokenFirst
  <2>2. CASE queue[l] # <<>> /\ u = Head(queue[l])
    <3>1. u \in Turns \ {t} /\ turn[u].lock = l
      BY <2>2, <1>a DEF WaitersQueued
    <3> QED BY <2>2, <3>1, <1>a, <1>b
  <2> QED BY <2>1, <2>2, <1>b
<1>4. FreeLockWakesFirst'
  BY <1>b DEF FreeLockWakesFirst
<1> QED BY <1>1, <1>2, <1>3, <1>4

LEMMA CancelKeepsLocks ==
    ASSUME TypeOK, TypeOK', LockInv, NEW t \in Turns, CancelWaiting(t)
    PROVE  LockInv'
<1> DEFINE l == turn[t].lock
           q == queue[l]
           r == Without(q, t)
<1> USE LockTypes DEF LockInv, Inside
<1>0. pc[t] = "waiting" /\ pc'[t] = "idle" /\ OnlyMoves(t) /\ holder' = holder
  BY DEF CancelWaiting, Leave, Goto, OnlyMoves, TypeOK
<1>a. l \in Locks
  BY <1>0 DEF WaitersQueued
<1>b. q \in Seq(Turns) /\ \A i, j \in DOMAIN q : q[i] = q[j] => i = j
  BY <1>a DEF WaitersQueued
<1>d. /\ queue'[l] = r /\ \A k \in Locks \ {l} : queue'[k] = queue[k]
      /\ woken' = (woken \ {t}) \cup (IF holder[l] = None /\ r # <<>> THEN {Head(r)} ELSE {})
  BY <1>a DEF CancelWaiting
<1> HIDE DEF l, q
<1>c. /\ r \in Seq(Turns)
      /\ \A i \in DOMAIN r : r[i] # t /\ \E j \in DOMAIN q : r[i] = q[j]
      /\ \A i, j \in DOMAIN r : r[i] = r[j] => i = j
      /\ q # <<>> /\ Head(q) # t => r # <<>> /\ Head(r) = Head(q)
  BY <1>b, WithoutFacts
<1> HIDE DEF r
<1>e. ASSUME NEW i \in DOMAIN r
      PROVE  r[i] \in Turns \ {t} /\ pc[r[i]] = "waiting" /\ turn[r[i]].lock = l
  <2>1. PICK j \in DOMAIN q : r[i] = q[j] /\ r[i] # t
    BY <1>c
  <2> QED BY <2>1, <1>a DEF WaitersQueued, q
<1>1. HoldersInside'
  <2>1. ASSUME NEW u \in Turns, pc'[u] \in Inside
        PROVE  turn'[u].lock \in Locks /\ holder[turn'[u].lock] = u
    <3>1. u # t
      BY <2>1, <1>0
    <3> QED BY <3>1, <2>1, <1>0 DEF HoldersInside, OnlyMoves
  <2>2. ASSUME NEW k \in Locks, holder[k] # None
        PROVE  pc'[holder[k]] \in Inside /\ turn'[holder[k]].lock = k
    <3>1. holder[k] \in Turns \ {t} /\ pc[holder[k]] \in Inside /\ turn[holder[k]].lock = k
      BY <2>2, <1>0 DEF HoldersInside
    <3> QED BY <3>1, <1>0 DEF OnlyMoves
  <2> QED BY <2>1, <2>2, <1>0 DEF HoldersInside
<1>2. WaitersQueued'
  <2>1. ASSUME NEW k \in Locks \ {l}, NEW i \in DOMAIN queue[k]
        PROVE  pc'[queue[k][i]] = "waiting" /\ turn'[queue[k][i]].lock = k
    <3> DEFINE u == queue[k][i]
    <3>1. u \in Turns \ {t} /\ pc[u] = "waiting" /\ turn[u].lock = k
      BY DEF WaitersQueued, l
    <3> HIDE DEF u
    <3>2. pc'[u] = "waiting" /\ turn'[u].lock = k
      BY <3>1, <1>0 DEF OnlyMoves
    <3> QED BY <3>2 DEF u
  <2>2. ASSUME NEW i \in DOMAIN r
        PROVE  pc'[r[i]] = "waiting" /\ turn'[r[i]].lock = l
    BY <1>e, <1>0 DEF OnlyMoves
  <2>3. \A u \in Turns : pc'[u] = "waiting" => turn'[u].lock \in Locks
    BY <1>0 DEF WaitersQueued, OnlyMoves
  <2>4. \A k \in Locks : \A i \in DOMAIN queue'[k] :
            pc'[queue'[k][i]] = "waiting" /\ turn'[queue'[k][i]].lock = k
    BY <2>1, <2>2, <1>d
  <2>5. \A k \in Locks : \A i, j \in DOMAIN queue'[k] : queue'[k][i] = queue'[k][j] => i = j
    BY <1>c, <1>d DEF WaitersQueued
  <2> QED BY <2>3, <2>4, <2>5 DEF WaitersQueued
<1>3. WokenFirst'
  <2> SUFFICES ASSUME NEW u \in woken'
               PROVE  /\ turn'[u].lock \in Locks
                      /\ queue'[turn'[u].lock] # <<>> /\ Head(queue'[turn'[u].lock]) = u
                      /\ holder'[turn'[u].lock] = None
    BY DEF WokenFirst
  <2>1. CASE u \in woken \ {t}
    <3>1. /\ u \in Turns \ {t} /\ turn[u].lock \in Locks /\ queue[turn[u].lock] # <<>>
          /\ Head(queue[turn[u].lock]) = u /\ holder[turn[u].lock] = None
      BY <2>1 DEF WokenFirst
    <3>2. turn'[u].lock = turn[u].lock
      BY <3>1, <1>0 DEF OnlyMoves
    <3>3. CASE turn[u].lock = l
      <4>1. q # <<>> /\ Head(q) = u
        BY <3>1, <3>3 DEF q
      <4> QED BY <4>1, <3>1, <3>2, <3>3, <1>c, <1>d, <1>0
    <3>4. CASE turn[u].lock # l
      BY <3>1, <3>2, <3>4, <1>d, <1>0
    <3> QED BY <3>3, <3>4
  <2>2. CASE holder[l] = None /\ r # <<>> /\ u = Head(r)
    <3>1. 1 \in DOMAIN r /\ r[1] = u
      BY <2>2, <1>c
    <3>2. u \in Turns \ {t} /\ turn[u].lock = l
      BY <3>1, <1>e
    <3> QED BY <2>2, <3>2, <1>a, <1>d, <1>0 DEF OnlyMoves
  <2> QED BY <2>1, <2>2, <1>d
<1>4. FreeLockWakesFirst'
  <2> SUFFICES ASSUME NEW k \in Locks, holder'[k] = None, queue'[k] # <<>>
               PROVE  Head(queue'[k]) \in woken'
    BY DEF FreeLockWakesFirst
  <2>1. CASE k = l
    BY <2>1, <1>d, <1>0
  <2>2. CASE k # l
    <3>1. queue'[k] = queue[k] /\ Head(queue[k]) \in woken
      BY <2>2, <1>d, <1>0 DEF FreeLockWakesFirst
    <3>2. Head(queue[k]) # t
      BY <3>1, <2>2 DEF WokenFirst, WaitersQueued, l
    <3> QED BY <3>1, <3>2, <1>d
  <2> QED BY <2>1, <2>2
<1> QED BY <1>1, <1>2, <1>3, <1>4

------------------------------------------------------------------------------
(* Types. *)

LEMMA NoTurnType ==
    NoTurn \in Turn /\ NoSession \in Session
BY RealtimeSessionsAssumption DEF NoTurn, Turn, NoSession, Session, Ends, Pasts

(* Replacing what is known of one session keeps the type of all, also when  *)
(* the name is nobody's.                                                    *)
LEMMA SessionUpdate ==
    ASSUME TypeOK, NEW s, NEW e, s \in Sessions => e \in Session
    PROVE  [session EXCEPT ![s] = e] \in [Sessions -> Session]
BY DEF TypeOK

LEMMA DiscardTypes ==
    ASSUME TypeOK, NEW k, Discard(k)
    PROVE  held' \in [Keys -> Sessions \cup {None}] /\ session' \in [Sessions -> Session]
<1> DEFINE s == held[k]
           e == [NoSession EXCEPT !.mode = session[s].mode]
<1>1. held' \in [Keys -> Sessions \cup {None}]
  BY DEF TypeOK, Discard
<1>2. s \in Sessions => e \in Session
  <2>1. ASSUME s \in Sessions PROVE session[s].mode \in Modes
    BY <2>1 DEF TypeOK, Session
  <2> QED BY <2>1, NoTurnType DEF NoSession, Session
<1>3. session' = session \/ session' = [session EXCEPT ![s] = e]
  BY DEF Discard
<1> HIDE DEF s, e
<1> QED BY <1>1, <1>2, <1>3, SessionUpdate DEF TypeOK

LEMMA SessionForTypes ==
    ASSUME TypeOK, NEW t \in Turns, NEW k \in Keys, NEW m \in Modes,
           NEW locals \in Turn, locals.key = k, SessionFor(t, k, m, locals)
    PROVE  /\ held' \in [Keys -> Sessions \cup {None}] /\ session' \in [Sessions -> Session]
           /\ pc' \in [Turns -> PCs] /\ turn' \in [Turns -> Turn]
           /\ pc'[t] \in Inside /\ turn'[t].lock = locals.lock
           /\ turn'[t].key \in Keys /\ (pc'[t] = "running" => turn'[t].using \in Sessions)
           /\ pc'[t] \notin {"settling", "discarding"}
           /\ \A u \in Turns \ {t} : pc'[u] = pc[u] /\ turn'[u] = turn[u]
<1> DEFINE used == [locals EXCEPT !.using = held[k]]
<1> USE DEF PCs, Inside
<1>0. pc \in [Turns -> PCs] /\ turn \in [Turns -> Turn]
  BY DEF TypeOK
<1>1. CASE held[k] # None /\ session[held[k]].mode = m
  <2>1. held[k] \in Sessions
    BY <1>1 DEF TypeOK
  <2>2. used \in Turn /\ used.lock = locals.lock /\ used.key = k /\ used.using = held[k]
    BY <2>1 DEF Turn
  <2>3. turn' = [turn EXCEPT ![t] = used] /\ pc' = [pc EXCEPT ![t] = "running"]
        /\ UNCHANGED <<held, session>>
    BY <1>1 DEF SessionFor, Goto
  <2> HIDE DEF used
  <2> QED BY <1>0, <2>1, <2>2, <2>3 DEF TypeOK
<1>2. CASE ~(held[k] # None /\ session[held[k]].mode = m)
  <2>1. turn' = [turn EXCEPT ![t] = locals]
        /\ \E label \in {"opening", "switching"} : pc' = [pc EXCEPT ![t] = label]
    BY <1>0, <1>2 DEF SessionFor, Goto
  <2>2. held' \in [Keys -> Sessions \cup {None}] /\ session' \in [Sessions -> Session]
    <3>1. UNCHANGED <<held, session>> \/ Discard(k)
      BY <1>2 DEF SessionFor
    <3> QED BY <3>1, DiscardTypes DEF TypeOK
  <2> QED BY <1>0, <2>1, <2>2
<1> QED BY <1>1, <1>2

------------------------------------------------------------------------------
(* The invariant is inductive: first the three shapes of a step, then the   *)
(* actions.                                                                 *)

OnlyTurn(t) == \A u \in Turns \ {t} : pc'[u] = pc[u] /\ turn'[u] = turn[u]
Pooled == held' \in [Keys -> Sessions \cup {None}] /\ session' \in [Sessions -> Session]
Shaped == pc' \in [Turns -> PCs] /\ turn' \in [Turns -> Turn]
Knows(t) == /\ pc'[t] # "idle" => turn'[t].key \in Keys
            /\ pc'[t] \in {"running", "settling", "discarding"} => turn'[t].using \in Sessions

LEMMA OthersKnow ==
    ASSUME TurnKnows, NEW t \in Turns, OnlyTurn(t), Knows(t)
    PROVE  TurnKnows' /\ OnlyMoves(t)
<1>1. ASSUME NEW u \in Turns
      PROVE  /\ pc'[u] # "idle" => turn'[u].key \in Keys
             /\ pc'[u] \in {"running", "settling", "discarding"} => turn'[u].using \in Sessions
  <2>1. CASE u = t
    BY <2>1 DEF Knows
  <2>2. CASE u # t
    BY <2>2 DEF OnlyTurn, TurnKnows
  <2> QED BY <2>1, <2>2
<1> QED BY <1>1 DEF TurnKnows, OnlyMoves, OnlyTurn

LEMMA MoveStep ==
    ASSUME IInv, NEW t \in Turns, OnlyTurn(t), Pooled, Shaped, Knows(t),
           turn'[t].lock = turn[t].lock \/ pc'[t] \in Outside,
           \/ pc[t] \in Inside /\ pc'[t] \in Inside
           \/ pc[t] \in Outside /\ pc'[t] \in Outside,
           UNCHANGED <<lockOf, holder, queue, woken>>
    PROVE  IInv'
<1>1. TurnKnows' /\ OnlyMoves(t)
  BY OthersKnow DEF IInv
<1>2. \A u \in woken : u \in Turns /\ pc'[u] = "waiting"
  BY LockTypes DEF IInv, OnlyTurn, Inside, Outside
<1>3. TypeOK'
  BY <1>2 DEF IInv, TypeOK, Pooled, Shaped
<1>4. LockInv'
  BY <1>1, <1>3, MoveKeepsLocks DEF IInv
<1> QED BY <1>1, <1>3, <1>4 DEF IInv

LEMMA ReleaseStep ==
    ASSUME IInv, NEW t \in Turns, pc[t] \in Inside, Release(t), Leave(t), Pooled,
           UNCHANGED lockOf
    PROVE  IInv'
<1>1. pc \in [Turns -> PCs] /\ turn \in [Turns -> Turn]
  BY DEF IInv, TypeOK
<1>2. OnlyTurn(t) /\ pc'[t] = "idle" /\ Shaped
  BY <1>1, NoTurnType DEF Leave, Goto, OnlyTurn, Shaped, PCs
<1>3. TurnKnows' /\ OnlyMoves(t)
  BY <1>2, OthersKnow DEF IInv, Knows
<1> DEFINE l == turn[t].lock
<1>4. l \in Locks /\ queue[l] \in Seq(Turns)
  BY DEF IInv, LockInv, HoldersInside, TypeOK
<1>5. holder' \in [Locks -> Turns \cup {None}] /\ queue' \in [Locks -> Seq(Turns)]
  BY DEF IInv, TypeOK, Release
<1>6. woken' \subseteq woken \cup (IF queue[l] = <<>> THEN {} ELSE {Head(queue[l])})
  BY DEF Release
<1>7. queue[l] # <<>> => Head(queue[l]) \in Turns \ {t} /\ pc[Head(queue[l])] = "waiting"
  BY <1>4 DEF IInv, LockInv, WaitersQueued, Inside
<1>8. \A u \in woken : u \in Turns \ {t} /\ pc[u] = "waiting"
  BY LockTypes DEF IInv, Inside
<1> HIDE DEF l
<1>9. \A u \in woken' : u \in Turns /\ pc'[u] = "waiting"
  BY <1>2, <1>6, <1>7, <1>8 DEF OnlyTurn
<1>10. TypeOK'
  BY <1>2, <1>5, <1>9 DEF IInv, TypeOK, Pooled, Shaped
<1>11. LockInv'
  BY <1>2, <1>3, <1>10, ReleaseKeepsLocks DEF IInv, Outside
<1> QED BY <1>3, <1>10, <1>11 DEF IInv

LEMMA EnterStep ==
    ASSUME IInv, NEW t \in Turns, NEW k \in Keys, NEW m \in Modes, pc[t] \in Outside,
           Enter(t, k, m)
    PROVE  IInv'
<1>1. PICK l \in LockFor(k) :
          /\ lockOf' = [Registered EXCEPT ![k] = l]
          /\ Acquire(t, k, m, [NoTurn EXCEPT !.key = k, !.mode = m, !.lock = l], l)
  BY DEF Enter
<1> DEFINE locals == [NoTurn EXCEPT !.key = k, !.mode = m, !.lock = l]
<1>2. Registered \in [Keys -> Locks \cup {None}]
  BY DEF IInv, TypeOK, Registered
<1>3. l \in Locks
  BY <1>1, <1>2 DEF LockFor
<1>4. lockOf' \in [Keys -> Locks \cup {None}]
  BY <1>1, <1>2, <1>3
<1>5. locals \in Turn /\ locals.key = k /\ locals.lock = l
  BY <1>3, NoTurnType DEF NoTurn, Turn
<1>6. Acquire(t, k, m, locals, l)
  BY <1>1
<1> HIDE DEF locals
<1>7. TypeOK /\ TurnKnows /\ LockInv
  BY DEF IInv
<1>8. \A u \in woken : u \in Turns \ {t} /\ pc[u] = "waiting"
  BY LockTypes, <1>7 DEF Outside
<1>9. CASE holder[l] = None /\ queue[l] = <<>>
  <2>1. holder' = [holder EXCEPT ![l] = t] /\ SessionFor(t, k, m, locals)
        /\ UNCHANGED <<queue, woken>>
    BY <1>6, <1>9 DEF Acquire
  <2>2. /\ Pooled /\ Shaped /\ pc'[t] \in Inside /\ turn'[t].lock = l
        /\ OnlyTurn(t) /\ Knows(t)
    BY <1>5, <1>7, <2>1, SessionForTypes DEF Pooled, Shaped, OnlyTurn, Knows
  <2>3. TurnKnows' /\ OnlyMoves(t)
    BY <1>7, <2>2, OthersKnow
  <2>4. \A u \in woken' : u \in Turns /\ pc'[u] = "waiting"
    BY <1>8, <2>1, <2>2 DEF OnlyTurn
  <2>5. holder' \in [Locks -> Turns \cup {None}] /\ queue' \in [Locks -> Seq(Turns)]
    BY <1>7, <2>1 DEF TypeOK
  <2>6. TypeOK'
    BY <1>4, <2>2, <2>4, <2>5 DEF TypeOK, Pooled, Shaped
  <2>7. LockInv'
    BY <1>3, <1>7, <1>9, <2>1, <2>2, <2>3, <2>6, TakeKeepsLocks
  <2> QED BY <2>3, <2>6, <2>7 DEF IInv
<1>10. CASE ~(holder[l] = None /\ queue[l] = <<>>)
  <2>1. /\ queue' = [queue EXCEPT ![l] = Append(@, t)]
        /\ turn' = [turn EXCEPT ![t] = locals] /\ pc' = [pc EXCEPT ![t] = "waiting"]
        /\ UNCHANGED <<held, session, holder, woken>>
    BY <1>6, <1>10 DEF Acquire, Goto
  <2>2. /\ Pooled /\ Shaped /\ pc'[t] = "waiting" /\ turn'[t].lock = l
        /\ OnlyTurn(t) /\ Knows(t)
    BY <1>5, <1>7, <2>1 DEF Pooled, Shaped, OnlyTurn, Knows, TypeOK, PCs
  <2>3. TurnKnows' /\ OnlyMoves(t)
    BY <1>7, <2>2, OthersKnow
  <2>4. \A u \in woken' : u \in Turns /\ pc'[u] = "waiting"
    BY <1>8, <2>1, <2>2 DEF OnlyTurn
  <2>5. queue[l] \in Seq(Turns) /\ Append(queue[l], t) \in Seq(Turns)
    BY <1>3, <1>7 DEF TypeOK
  <2>6. holder' \in [Locks -> Turns \cup {None}] /\ queue' \in [Locks -> Seq(Turns)]
    BY <1>7, <2>1, <2>5 DEF TypeOK
  <2>7. TypeOK'
    BY <1>4, <2>2, <2>4, <2>6 DEF TypeOK, Pooled, Shaped
  <2>8. LockInv'
    BY <1>3, <1>7, <1>10, <2>1, <2>2, <2>3, <2>7, QueueKeepsLocks
  <2> QED BY <2>3, <2>7, <2>8 DEF IInv
<1> QED BY <1>9, <1>10

LEMMA ResumeStep ==
    ASSUME IInv, NEW t \in Turns, Resume(t)
    PROVE  IInv'
<1> DEFINE l == turn[t].lock
<1>1. TypeOK /\ TurnKnows /\ LockInv /\ t \in woken /\ pc[t] = "waiting"
  BY DEF IInv, Resume
<1>2. /\ l \in Locks /\ turn[t] \in Turn /\ turn[t].key \in Keys /\ turn[t].mode \in Modes
      /\ queue[l] \in Seq(Turns) /\ \A i, j \in DOMAIN queue[l] : queue[l][i] = queue[l][j] => i = j
  BY <1>1 DEF TypeOK, Turn, TurnKnows, LockInv, WaitersQueued
<1>3. /\ woken' = woken \ {t} /\ holder' = [holder EXCEPT ![l] = t]
      /\ queue' = [queue EXCEPT ![l] = Without(@, t)]
      /\ SessionFor(t, turn[t].key, turn[t].mode, turn[t]) /\ lockOf' = lockOf
  BY DEF Resume
<1>4. /\ Pooled /\ Shaped /\ pc'[t] \in Inside /\ turn'[t].lock = l
      /\ OnlyTurn(t) /\ Knows(t)
  BY <1>1, <1>2, <1>3, SessionForTypes DEF Pooled, Shaped, OnlyTurn, Knows
<1>5. TurnKnows' /\ OnlyMoves(t)
  BY <1>1, <1>4, OthersKnow
<1>6. \A u \in woken' : u \in Turns /\ pc'[u] = "waiting"
  BY <1>1, <1>3, <1>4, LockTypes DEF OnlyTurn
<1>7. Without(queue[l], t) \in Seq(Turns)
  BY <1>2, WithoutFacts
<1>8. holder' \in [Locks -> Turns \cup {None}] /\ queue' \in [Locks -> Seq(Turns)]
  BY <1>1, <1>2, <1>3, <1>7 DEF TypeOK
<1>9. TypeOK'
  BY <1>1, <1>3, <1>4, <1>6, <1>8 DEF TypeOK, Pooled, Shaped
<1>10. LockInv'
  BY <1>1, <1>3, <1>4, <1>5, <1>9, ResumeKeepsLocks
<1> QED BY <1>5, <1>9, <1>10 DEF IInv

LEMMA CancelWaitingStep ==
    ASSUME IInv, NEW t \in Turns, CancelWaiting(t)
    PROVE  IInv'
<1> DEFINE l == turn[t].lock
           others == Without(queue[l], t)
<1>1. TypeOK /\ TurnKnows /\ LockInv /\ pc[t] = "waiting"
  BY DEF IInv, CancelWaiting
<1>2. /\ l \in Locks /\ queue[l] \in Seq(Turns)
      /\ \A i, j \in DOMAIN queue[l] : queue[l][i] = queue[l][j] => i = j
  BY <1>1 DEF TypeOK, LockInv, WaitersQueued
<1>3. /\ queue' = [queue EXCEPT ![l] = others] /\ holder' = holder /\ lockOf' = lockOf
      /\ woken' = (woken \ {t}) \cup (IF holder[l] = None /\ others # <<>>
                                      THEN {Head(others)} ELSE {})
      /\ UNCHANGED <<held, session>>
      /\ turn' = [turn EXCEPT ![t] = NoTurn] /\ pc' = [pc EXCEPT ![t] = "idle"]
  BY DEF CancelWaiting, Leave, Goto
<1>4. /\ others \in Seq(Turns)
      /\ \A i \in DOMAIN others : others[i] # t /\ \E j \in DOMAIN queue[l] : others[i] = queue[l][j]
  BY <1>2, WithoutFacts
<1> HIDE DEF others
<1>5. Pooled /\ Shaped /\ OnlyTurn(t) /\ pc'[t] = "idle" /\ Knows(t)
  BY <1>1, <1>3, NoTurnType DEF Pooled, Shaped, OnlyTurn, Knows, TypeOK, PCs
<1>6. TurnKnows'
  BY <1>1, <1>5, OthersKnow
<1>7. others # <<>> => Head(others) \in Turns \ {t} /\ pc[Head(others)] = "waiting"
  <2>1. others # <<>> => 1 \in DOMAIN others /\ Head(others) = others[1] /\ others[1] \in Turns
    BY <1>4
  <2> QED BY <2>1, <1>1, <1>2, <1>4 DEF LockInv, WaitersQueued
<1>8. \A u \in woken' : u \in Turns /\ pc'[u] = "waiting"
  BY <1>1, <1>3, <1>5, <1>7, LockTypes DEF OnlyTurn
<1>9. holder' \in [Locks -> Turns \cup {None}] /\ queue' \in [Locks -> Seq(Turns)]
  BY <1>1, <1>2, <1>3, <1>4 DEF TypeOK
<1>10. TypeOK'
  BY <1>1, <1>3, <1>5, <1>8, <1>9 DEF TypeOK, Pooled, Shaped
<1>11. LockInv'
  BY <1>1, <1>10, CancelKeepsLocks
<1> QED BY <1>6, <1>10, <1>11 DEF IInv

(* What a turn inside knows of itself.                                      *)
LEMMA InsideFacts ==
    ASSUME IInv, NEW t \in Turns
    PROVE  /\ pc \in [Turns -> PCs] /\ turn \in [Turns -> Turn] /\ turn[t] \in Turn
           /\ pc[t] # "idle" => turn[t].key \in Keys
           /\ pc[t] \in {"running", "settling", "discarding"} =>
                  turn[t].using \in Sessions /\ session[turn[t].using] \in Session
           /\ held \in [Keys -> Sessions \cup {None}] /\ session \in [Sessions -> Session]
BY DEF IInv, TypeOK, TurnKnows

(* A running turn keeps its locals and changes only how its two tasks ended. *)
LEMMA RunningStep ==
    ASSUME IInv, NEW t \in Turns, pc[t] = "running",
           NEW label \in {"running", "settling"}, NEW f \in Ends \ {"failed"}, NEW p \in Ends,
           NEW r \in {"yes", "no"},
           turn' = [turn EXCEPT ![t].forwarding = f, ![t].pumping = p, ![t].reusable = r],
           pc' = [pc EXCEPT ![t] = label], Pooled, UNCHANGED <<lockOf, holder, queue, woken>>
    PROVE  IInv'
<1> DEFINE e == [turn[t] EXCEPT !.forwarding = f, !.pumping = p, !.reusable = r]
<1>1. e \in Turn /\ e.key = turn[t].key /\ e.using = turn[t].using /\ e.lock = turn[t].lock
  BY InsideFacts DEF Turn
<1>2. turn' = [turn EXCEPT ![t] = e]
  BY InsideFacts DEF Turn
<1> HIDE DEF e
<1>3. OnlyTurn(t) /\ Shaped /\ pc'[t] = label /\ turn'[t] = e
  BY <1>1, <1>2, InsideFacts DEF OnlyTurn, Shaped, PCs
<1>4. Knows(t)
  BY <1>1, <1>3, InsideFacts DEF Knows
<1> QED BY <1>1, <1>3, <1>4, MoveStep DEF Inside

LEMMA InitIInv == Init => IInv
<1> SUFFICES ASSUME Init PROVE IInv
  OBVIOUS
<1>1. TypeOK
  <2>1. <<>> \in Seq(Turns)
    OBVIOUS
  <2> QED BY <2>1, NoTurnType DEF Init, TypeOK, PCs
<1>2. TurnKnows
  BY DEF Init, TurnKnows
<1>3. LockInv
  BY DEF Init, LockInv, HoldersInside, WaitersQueued, WokenFirst, FreeLockWakesFirst, Inside
<1> QED BY <1>1, <1>2, <1>3 DEF IInv

LEMMA StepIInv == IInv /\ [Next]_vars => IInv'
<1> SUFFICES ASSUME IInv, [Next]_vars PROVE IInv'
  OBVIOUS
<1> USE DEF Inside, Outside
<1>1. ASSUME NEW t \in Turns, NEW k \in Keys, NEW m \in Modes, Start(t, k, m) PROVE IInv'
  <2>1. CASE IdleSpent = {}
    BY <1>1, <2>1, EnterStep DEF Start
  <2>2. CASE IdleSpent # {}
    <3>1. PICK first \in IdleSpent :
              /\ turn' = [turn EXCEPT ![t] = [NoTurn EXCEPT !.key = k, !.mode = m,
                                                           !.spent = IdleSpent \ {first}]]
              /\ Discard(first)
              /\ pc' = [pc EXCEPT ![t] = "sweeping"]
              /\ UNCHANGED <<lockOf, holder, queue, woken>>
      BY <1>1, <2>2 DEF Start, Goto
    <3> DEFINE e == [NoTurn EXCEPT !.key = k, !.mode = m, !.spent = IdleSpent \ {first}]
    <3>2. e \in Turn /\ e.key = k
      BY NoTurnType DEF Turn, NoTurn, IdleSpent
    <3> HIDE DEF e
    <3>3. turn' = [turn EXCEPT ![t] = e]
      BY <3>1 DEF e
    <3>4. pc[t] = "idle" /\ pc'[t] = "sweeping" /\ turn'[t] = e /\ OnlyTurn(t) /\ Shaped
      BY <1>1, <3>1, <3>2, <3>3, InsideFacts DEF Start, OnlyTurn, Shaped, PCs
    <3>5. Pooled
      BY <3>1, DiscardTypes DEF IInv, Pooled
    <3>6. Knows(t)
      BY <3>2, <3>4 DEF Knows
    <3> QED BY <3>1, <3>4, <3>5, <3>6, MoveStep
  <2> QED BY <2>1, <2>2
<1>2. ASSUME NEW t \in Turns, Sweep(t) PROVE IInv'
  <2> DEFINE left == {k \in turn[t].spent : held[k] # None}
  <2>0. turn[t].key \in Keys /\ turn[t].mode \in Modes /\ turn[t].spent \in SUBSET Keys
    BY <1>2, InsideFacts DEF Sweep, Turn
  <2>1. CASE left = {}
    BY <1>2, <2>0, <2>1, EnterStep DEF Sweep
  <2>2. CASE left # {}
    <3>1. PICK k \in left : /\ turn' = [turn EXCEPT ![t].spent = @ \ {k}]
                            /\ Discard(k)
                            /\ UNCHANGED <<lockOf, holder, queue, woken, pc>>
      BY <1>2, <2>2 DEF Sweep
    <3> DEFINE e == [turn[t] EXCEPT !.spent = @ \ {k}]
    <3>2. e \in Turn /\ e.key = turn[t].key /\ e.using = turn[t].using /\ e.lock = turn[t].lock
      BY <2>0, InsideFacts DEF Turn
    <3>3. turn' = [turn EXCEPT ![t] = e]
      BY <3>1, InsideFacts DEF Turn
    <3> HIDE DEF e
    <3>4. pc'[t] = "sweeping" /\ pc[t] = "sweeping" /\ turn'[t] = e /\ OnlyTurn(t) /\ Shaped
      BY <1>2, <3>1, <3>2, <3>3, InsideFacts DEF Sweep, OnlyTurn, Shaped
    <3>5. Pooled
      BY <3>1, DiscardTypes DEF IInv, Pooled
    <3>6. Knows(t)
      BY <2>0, <3>2, <3>4 DEF Knows
    <3> QED BY <3>1, <3>4, <3>5, <3>6, MoveStep
  <2> QED BY <2>1, <2>2
<1>3. ASSUME NEW t \in Turns, Switched(t) PROVE IInv'
  <2>1. /\ pc[t] = "switching" /\ pc'[t] = "opening" /\ Shaped /\ OnlyTurn(t) /\ Pooled
        /\ turn' = turn /\ UNCHANGED <<lockOf, holder, queue, woken>>
    BY <1>3, InsideFacts DEF Switched, Goto, Shaped, OnlyTurn, Pooled, PCs
  <2> QED BY <2>1, MoveStep, InsideFacts DEF Knows
<1>4. ASSUME NEW t \in Turns, Opened(t) PROVE IInv'
  <2>1. PICK s \in Sessions :
            /\ session' = [session EXCEPT ![s] = [NoSession EXCEPT !.open = "yes",
                                                                  !.mode = turn[t].mode]]
            /\ held' = [held EXCEPT ![turn[t].key] = s]
            /\ turn' = [turn EXCEPT ![t].using = s]
    BY <1>4 DEF Opened
  <2> DEFINE e == [turn[t] EXCEPT !.using = s]
             n == [NoSession EXCEPT !.open = "yes", !.mode = turn[t].mode]
  <2>2. e \in Turn /\ e.key = turn[t].key /\ e.using = s /\ e.lock = turn[t].lock
    BY InsideFacts DEF Turn
  <2>3. n \in Session
    BY InsideFacts, NoTurnType DEF NoSession, Session, Turn
  <2>4. turn' = [turn EXCEPT ![t] = e] /\ session' = [session EXCEPT ![s] = n]
    BY <2>1, InsideFacts DEF Turn
  <2> HIDE DEF e, n
  <2>5. /\ pc[t] = "opening" /\ pc'[t] = "running" /\ turn'[t] = e /\ Shaped /\ OnlyTurn(t)
        /\ UNCHANGED <<lockOf, holder, queue, woken>>
    BY <1>4, <2>2, <2>4, InsideFacts DEF Opened, Goto, Shaped, OnlyTurn, PCs
  <2>6. Pooled
    BY <2>1, <2>3, <2>4, InsideFacts DEF Pooled
  <2>7. Knows(t)
    BY <2>2, <2>5, InsideFacts DEF Knows
  <2> QED BY <2>2, <2>5, <2>6, <2>7, MoveStep
<1>5. ASSUME NEW t \in Turns, OpenFails(t) \/ CancelOpening(t) \/ Discarded(t) PROVE IInv'
  BY <1>5, ReleaseStep, InsideFacts DEF OpenFails, CancelOpening, Discarded, Pooled
<1>6. ASSUME NEW t \in Turns, InputEnds(t) \/ InputBreaks(t) \/ Pump(t) PROVE IInv'
  <2>1. pc[t] = "running" /\ UNCHANGED <<held, session, lockOf, holder, queue, woken, pc>>
    BY <1>6 DEF InputEnds, InputBreaks, Pump, PumpEnds
  <2>2. turn[t].forwarding \in Ends \ {"failed"} /\ turn[t].pumping \in Ends
        /\ turn[t].reusable \in {"yes", "no"}
    BY InsideFacts DEF Turn
  <2>3. \E f \in Ends \ {"failed"}, p \in Ends, r \in {"yes", "no"} :
            turn' = [turn EXCEPT ![t].forwarding = f, ![t].pumping = p, ![t].reusable = r]
    <3>1. CASE InputEnds(t) \/ InputBreaks(t)
      <4>1. PICK f \in Ends \ {"failed"} : turn' = [turn EXCEPT ![t].forwarding = f]
        BY <3>1 DEF InputEnds, InputBreaks, Ends
      <4>2. turn' = [turn EXCEPT ![t].forwarding = f, ![t].pumping = turn[t].pumping,
                                 ![t].reusable = turn[t].reusable]
        BY <4>1, InsideFacts DEF Turn
      <4> QED BY <2>2, <4>2
    <3>2. CASE Pump(t)
      <4>1. PICK p \in Ends : turn' = [turn EXCEPT ![t].pumping = p]
        BY <3>2 DEF Pump, PumpEnds
      <4>2. turn' = [turn EXCEPT ![t].forwarding = turn[t].forwarding, ![t].pumping = p,
                                 ![t].reusable = turn[t].reusable]
        BY <4>1, InsideFacts DEF Turn
      <4> QED BY <2>2, <4>2
    <3> QED BY <1>6, <3>1, <3>2
  <2>4. pc' = [pc EXCEPT ![t] = "running"] /\ Pooled
    BY <2>1, InsideFacts DEF Pooled
  <2>5. PICK f \in Ends \ {"failed"}, p \in Ends, r \in {"yes", "no"} :
            turn' = [turn EXCEPT ![t].forwarding = f, ![t].pumping = p, ![t].reusable = r]
    BY <2>3
  <2>6. UNCHANGED <<lockOf, holder, queue, woken>>
    BY <2>1
  <2> QED BY <2>1, <2>4, <2>5, <2>6, RunningStep
<1>7. ASSUME NEW t \in Turns, Conclude(t) \/ CancelRunning(t) PROVE IInv'
  <2>1. PICK r \in {"yes", "no"} :
            /\ turn' = [turn EXCEPT ![t].reusable = r, ![t].forwarding = "on",
                                    ![t].pumping = "on"]
            /\ session' = [session EXCEPT ![turn[t].using].past = Past(t, r)]
    <3>1. Verdicts(t) \subseteq {"yes", "no"}
      BY DEF Verdicts
    <3> QED BY <1>7, <3>1 DEF Conclude, CancelRunning
  <2>2. /\ pc[t] = "running" /\ pc' = [pc EXCEPT ![t] = "settling"]
        /\ UNCHANGED <<held, lockOf, holder, queue, woken>>
    BY <1>7 DEF Conclude, CancelRunning, Goto
  <2>3. turn' = [turn EXCEPT ![t].forwarding = "on", ![t].pumping = "on", ![t].reusable = r]
    BY <2>1, InsideFacts DEF Turn
  <2> DEFINE s == turn[t].using
  <2>4. s \in Sessions /\ session[s] \in Session
    BY <2>2, InsideFacts
  <2>5. Past(t, r) \in Pasts
    BY <2>4 DEF Past, Pasts, Session
  <2>6. [session[s] EXCEPT !.past = Past(t, r)] \in Session
    BY <2>4, <2>5 DEF Session
  <2>7. session' = [session EXCEPT ![s] = [session[s] EXCEPT !.past = Past(t, r)]]
    BY <2>1, <2>4, InsideFacts
  <2> HIDE DEF s
  <2>8. Pooled
    BY <2>2, <2>6, <2>7, InsideFacts DEF Pooled
  <2> QED BY <2>2, <2>3, <2>8, RunningStep DEF Ends
<1>8. ASSUME NEW t \in Turns, Settle(t) PROVE IInv'
  <2>0. pc[t] = "settling" /\ UNCHANGED lockOf
    BY <1>8 DEF Settle
  <2>1. CASE turn[t].reusable = "yes"
    <3>1. /\ session' = [session EXCEPT ![turn[t].using].turns =
                             IF @ < TurnBudget /\ session[turn[t].using].open = "yes"
                             THEN @ + 1 ELSE @]
          /\ Release(t) /\ Leave(t) /\ UNCHANGED held
      BY <1>8, <2>1 DEF Settle
    <3> DEFINE s == turn[t].using
               n == IF session[s].turns < TurnBudget /\ session[s].open = "yes"
                    THEN session[s].turns + 1 ELSE session[s].turns
    <3>2. s \in Sessions /\ session[s] \in Session
      BY <2>0, InsideFacts
    <3>3. n \in 0 .. TurnBudget
      BY <3>2, RealtimeSessionsAssumption DEF Session
    <3>4. session' = [session EXCEPT ![s] = [session[s] EXCEPT !.turns = n]]
      BY <3>1, <3>2, InsideFacts
    <3> HIDE DEF s, n
    <3>5. [session[s] EXCEPT !.turns = n] \in Session
      BY <3>2, <3>3 DEF Session
    <3>6. Pooled
      BY <3>1, <3>4, <3>5, InsideFacts DEF Pooled
    <3> QED BY <2>0, <3>1, <3>6, ReleaseStep
  <2>2. CASE turn[t].reusable # "yes"
    <3>1. /\ Discard(turn[t].key)
          /\ IF held[turn[t].key] = None
             THEN Release(t) /\ Leave(t)
             ELSE Goto(t, "discarding") /\ UNCHANGED <<turn, holder, queue, woken>>
      BY <1>8, <2>2 DEF Settle
    <3>2. Pooled
      BY <3>1, DiscardTypes DEF IInv, Pooled
    <3>3. CASE held[turn[t].key] = None
      BY <2>0, <3>1, <3>2, <3>3, ReleaseStep
    <3>4. CASE held[turn[t].key] # None
      <4>1. /\ turn' = turn /\ pc'[t] = "discarding" /\ OnlyTurn(t) /\ Shaped
            /\ UNCHANGED <<lockOf, holder, queue, woken>>
        BY <2>0, <3>1, <3>4, InsideFacts DEF Goto, OnlyTurn, Shaped, PCs
      <4>2. Knows(t)
        BY <2>0, <4>1, InsideFacts DEF Knows
      <4> QED BY <2>0, <3>2, <4>1, <4>2, MoveStep
    <3> QED BY <3>3, <3>4
  <2> QED BY <2>1, <2>2
<1>9. ASSUME NEW t \in Turns, SettleRaises(t) PROVE IInv'
  <2> DEFINE s == turn[t].using
             p == IF session[s].open = "no" THEN session[s].past ELSE "unsettled"
  <2>1. pc[t] = "settling" /\ Release(t) /\ Leave(t) /\ UNCHANGED <<held, lockOf>>
    BY <1>9 DEF SettleRaises
  <2>2. s \in Sessions /\ session[s] \in Session
    BY <2>1, InsideFacts
  <2>3. session' = [session EXCEPT ![s] = [session[s] EXCEPT !.past = p]]
    BY <1>9, <2>2, InsideFacts DEF SettleRaises
  <2>4. [session[s] EXCEPT !.past = p] \in Session
    BY <2>2 DEF Session, Pasts
  <2> HIDE DEF s, p
  <2>5. Pooled
    BY <2>1, <2>3, <2>4, InsideFacts DEF Pooled
  <2> QED BY <2>1, <2>5, ReleaseStep
<1>10. ASSUME NEW t \in Turns, CancelSweeping(t) PROVE IInv'
  <2>1. /\ pc[t] = "sweeping" /\ pc'[t] = "idle" /\ OnlyTurn(t) /\ Shaped /\ Pooled
        /\ UNCHANGED <<lockOf, holder, queue, woken>>
    BY <1>10, InsideFacts, NoTurnType
    DEF CancelSweeping, Leave, Goto, OnlyTurn, Shaped, Pooled, PCs
  <2> QED BY <2>1, MoveStep DEF Knows
<1>11. ASSUME NEW s \in Sessions, Age(s) PROVE IInv'
  <2>1. /\ session' = [session EXCEPT ![s].aged = "yes"]
        /\ UNCHANGED <<held, lockOf, holder, queue, woken, pc, turn>>
    BY <1>11 DEF Age
  <2>2. session[s] \in Session /\ session \in [Sessions -> Session]
    BY DEF IInv, TypeOK
  <2>3. [session[s] EXCEPT !.aged = "yes"] \in Session
    BY <2>2 DEF Session
  <2>4. session' \in [Sessions -> Session]
    BY <2>1, <2>2, <2>3
  <2>5. TypeOK'
    BY <2>1, <2>4 DEF IInv, TypeOK
  <2> QED BY <2>1, <2>5 DEF IInv, TurnKnows, LockInv, HoldersInside, WaitersQueued,
                            WokenFirst, FreeLockWakesFirst
<1>12. CASE UNCHANGED vars
  BY <1>12 DEF vars, IInv, TypeOK, TurnKnows, LockInv, HoldersInside, WaitersQueued,
               WokenFirst, FreeLockWakesFirst
<1> QED
  BY <1>1, <1>2, <1>3, <1>4, <1>5, <1>6, <1>7, <1>8, <1>9, <1>10, <1>11, <1>12,
     ResumeStep, CancelWaitingStep
  DEF Next, Work, Cancel

THEOREM Inductive == Spec => []IInv
BY InitIInv, StepIInv, PTL DEF Spec

(* Every variable keeps its type, and only a waiting turn has a wake-up      *)
(* pending (asyncio.Lock's waiters, agent.py handle_audio).                  *)
THEOREM TypeCorrect == Spec => []TypeOK
<1>1. IInv => TypeOK
  BY DEF IInv
<1> QED BY <1>1, Inductive, PTL

(* Two turns are past the acquire of one conversation only when one of them  *)
(* has a lock that was dropped from the registry: what _forget_idle_locks    *)
(* keeps registered serializes (agent.py _lock_for).                         *)
THEOREM RegisteredLockExclusion == Spec => []RegisteredLockExcludes
<1>1. IInv => RegisteredLockExcludes
  <2> SUFFICES ASSUME IInv, NEW t \in Turns, NEW u \in Turns, t # u,
                      pc[t] \in Inside, pc[u] \in Inside, turn[t].key = turn[u].key,
                      turn[t].lock = lockOf[turn[t].key], turn[u].lock = lockOf[turn[u].key]
               PROVE  FALSE
    BY DEF RegisteredLockExcludes
  <2>1. holder[turn[t].lock] = t /\ holder[turn[u].lock] = u
    BY DEF IInv, LockInv, HoldersInside
  <2> QED BY <2>1
<1> QED BY <1>1, Inductive, PTL

(* A free lock somebody waits for has always woken the first of them, for    *)
(* any number of turns whose releases and cancelled waits interleave.        *)
THEOREM NoLostWakeUp == Spec => []FreeLockWakesFirst
<1>1. IInv => FreeLockWakesFirst
  BY DEF IInv, LockInv
<1> QED BY <1>1, Inductive, PTL

(* handle_audio's lock per conversation: exclusive while it is registered,   *)
(* and never free with a waiter asleep.                                     *)
THEOREM LocksCorrect == Spec => []LocksAreSound
BY RegisteredLockExclusion, NoLostWakeUp, PTL DEF LocksAreSound

------------------------------------------------------------------------------
(* What a turn takes from the pool it can use.  Beside the three parts of    *)
(* PoolIsSound: two conversations never share a session, a pooled session    *)
(* is used by its own conversation's turns only, a turn has a session only   *)
(* once it works, and a failed session still pooled is one a turn that is    *)
(* settling will discard.                                                    *)
HeldApart == \A j, k \in Keys : held[j] # None /\ held[j] = held[k] => j = k

UsesOwn == \A t \in Turns, k \in Keys :
    turn[t].using # None /\ held[k] = turn[t].using => turn[t].key = k

Working == {"running", "settling", "discarding"}
OnlyWorkersUse == \A t \in Turns : pc[t] \notin Working => turn[t].using = None

GivesUp(t, s) == pc[t] = "settling" /\ turn[t].using = s /\ turn[t].reusable = "no"
FailedIsGivenUp == \A k \in Keys :
    held[k] # None /\ session[held[k]].past = "failed" => \E t \in Turns : GivesUp(t, held[k])

PoolInv == /\ PooledIsOpen /\ ModeMatches
           /\ HeldApart /\ UsesOwn /\ OnlyWorkersUse /\ FailedIsGivenUp

(* How one turn's step treats the pool, opening a session apart: the pool    *)
(* only shrinks, and what stays in it stays open; the turn keeps its         *)
(* session, drops it, or takes its conversation's, open in its mode; and a   *)
(* failure that stays in the pool is given up by this turn or by another.    *)
PoolShrinks ==
    /\ \A k \in Keys : held'[k] \in {held[k], None}
    /\ \A k \in Keys : held'[k] # None => session'[held[k]].open = session[held[k]].open
    /\ \A s \in Sessions : session'[s].mode = session[s].mode

Keeps(t) == turn'[t].using = turn[t].using /\ turn'[t].key = turn[t].key
            /\ turn'[t].mode = turn[t].mode
Takes(t) == \E k \in Keys : turn'[t].using = held[k] /\ turn'[t].key = k
                             /\ session[held[k]].mode = turn'[t].mode
UsesFairly(t) == /\ turn'[t].using = None \/ Keeps(t) \/ Takes(t)
                 /\ pc'[t] \notin Working => turn'[t].using = None

FailuresFollowed(t) == \A k \in Keys :
    held'[k] # None /\ session'[held[k]].past = "failed" =>
        \/ session[held[k]].past = "failed" /\ ~GivesUp(t, held[k])
        \/ GivesUp(t, held[k])'

LEMMA PoolStep ==
    ASSUME TypeOK, TypeOK', PoolInv, NEW t \in Turns, OnlyTurn(t),
           PoolShrinks, UsesFairly(t), FailuresFollowed(t)
    PROVE  PoolInv'
<1>0. /\ None \notin Sessions /\ \A k \in Keys : held[k] \in Sessions \cup {None}
      /\ \A u \in Turns : turn[u].using \in Sessions \cup {None}
                          /\ turn'[u].using \in Sessions \cup {None}
  BY RealtimeSessionsAssumption DEF TypeOK, Turn
<1>1. PooledIsOpen'
  BY DEF PoolInv, PooledIsOpen, PoolShrinks
<1>2. ModeMatches'
  <2> SUFFICES ASSUME NEW u \in Turns, turn'[u].using # None
               PROVE  session'[turn'[u].using].mode = turn'[u].mode
    BY DEF ModeMatches
  <2>1. CASE u # t \/ Keeps(t)
    BY <1>0, <2>1 DEF PoolInv, ModeMatches, PoolShrinks, OnlyTurn, Keeps
  <2>2. CASE u = t /\ Takes(t)
    BY <1>0, <2>2 DEF PoolShrinks, Takes
  <2> QED BY <2>1, <2>2 DEF UsesFairly
<1>3. HeldApart'
  BY DEF PoolInv, HeldApart, PoolShrinks
<1>4. UsesOwn'
  <2> SUFFICES ASSUME NEW u \in Turns, NEW k \in Keys, turn'[u].using # None,
                      held'[k] = turn'[u].using
               PROVE  turn'[u].key = k
    BY DEF UsesOwn
  <2>0. held[k] = turn'[u].using
    BY DEF PoolShrinks
  <2>1. CASE u # t \/ Keeps(t)
    BY <2>0, <2>1 DEF PoolInv, UsesOwn, OnlyTurn, Keeps
  <2>2. CASE u = t /\ Takes(t)
    BY <2>0, <2>2 DEF PoolInv, HeldApart, Takes
  <2> QED BY <2>1, <2>2 DEF UsesFairly
<1>5. OnlyWorkersUse'
  BY DEF PoolInv, OnlyWorkersUse, OnlyTurn, UsesFairly
<1>6. FailedIsGivenUp'
  <2> SUFFICES ASSUME NEW k \in Keys, held'[k] # None, session'[held'[k]].past = "failed"
               PROVE  \E u \in Turns : GivesUp(u, held[k])'
    BY DEF FailedIsGivenUp, GivesUp
  <2>0. held'[k] = held[k]
    BY DEF PoolShrinks
  <2>1. CASE session[held[k]].past = "failed" /\ ~GivesUp(t, held[k])
    <3>1. PICK u \in Turns : GivesUp(u, held[k])
      BY <2>0, <2>1 DEF PoolInv, FailedIsGivenUp
    <3>2. u # t
      BY <2>1, <3>1
    <3> QED BY <2>0, <3>1, <3>2 DEF GivesUp, OnlyTurn
  <2>2. CASE GivesUp(t, held[k])'
    BY <2>2
  <2> QED BY <2>0, <2>1, <2>2 DEF FailuresFollowed
<1> QED BY <1>1, <1>2, <1>3, <1>4, <1>5, <1>6 DEF PoolInv

(* _discard: nobody else's session is touched, and its mode stays.           *)
LEMMA DiscardFacts ==
    ASSUME TypeOK, HeldApart, NEW k \in Keys, Discard(k)
    PROVE  /\ PoolShrinks /\ held'[k] = None
           /\ \A j \in Keys : held'[j] # None => session'[held[j]] = session[held[j]]
<1>1. held'[k] = None /\ \A j \in Keys \ {k} : held'[j] = held[j]
  BY DEF TypeOK, Discard
<1>2. CASE held[k] = None
  BY <1>1, <1>2 DEF Discard, PoolShrinks
<1>3. CASE held[k] # None
  <2>1. held[k] \in Sessions /\ session \in [Sessions -> Session]
    BY <1>3 DEF TypeOK
  <2>2. session' = [session EXCEPT ![held[k]] = [NoSession EXCEPT !.mode = session[held[k]].mode]]
    BY <1>3 DEF Discard
  <2>3. \A s \in Sessions \ {held[k]} : session'[s] = session[s]
    BY <2>1, <2>2
  <2>4. session'[held[k]].mode = session[held[k]].mode
    BY <2>1, <2>2 DEF NoSession
  <2>5. \A j \in Keys : held'[j] # None => held[j] \in Sessions \ {held[k]}
    BY <1>1 DEF TypeOK, HeldApart
  <2> QED BY <1>1, <2>3, <2>4, <2>5 DEF PoolShrinks
<1> QED BY <1>2, <1>3
(* A step of a turn that is not settling and discards at most one session.   *)
LEMMA DiscardingStep ==
    ASSUME TypeOK, TypeOK', PoolInv, NEW t \in Turns, OnlyTurn(t), pc[t] # "settling",
           UsesFairly(t), UNCHANGED <<held, session>> \/ \E k \in Keys : Discard(k)
    PROVE  PoolInv'
<1>1. PoolShrinks /\ \A j \in Keys : held'[j] # None => session'[held[j]] = session[held[j]]
  <2>1. CASE UNCHANGED <<held, session>>
    BY <2>1 DEF PoolShrinks
  <2>2. CASE \E k \in Keys : Discard(k)
    BY <2>2, DiscardFacts DEF PoolInv
  <2> QED BY <2>1, <2>2
<1>2. FailuresFollowed(t)
  BY <1>1 DEF FailuresFollowed, GivesUp
<1> QED BY <1>1, <1>2, PoolStep

(* _session_for: the pooled session in the turn's own mode, or none.         *)
LEMMA SessionForSound ==
    ASSUME TypeOK, TypeOK', PoolInv, NEW t \in Turns, NEW k \in Keys, NEW m \in Modes,
           NEW locals \in Turn, locals.key = k, locals.mode = m, locals.using = None,
           OnlyTurn(t), pc[t] # "settling", SessionFor(t, k, m, locals)
    PROVE  PoolInv'
<1>0. pc \in [Turns -> PCs] /\ turn \in [Turns -> Turn]
  BY DEF TypeOK
<1>1. CASE held[k] # None /\ session[held[k]].mode = m
  <2> DEFINE used == [locals EXCEPT !.using = held[k]]
  <2>1. used.key = k /\ used.mode = m /\ used.using = held[k]
    BY DEF Turn
  <2>2. turn' = [turn EXCEPT ![t] = used] /\ pc' = [pc EXCEPT ![t] = "running"]
        /\ UNCHANGED <<held, session>>
    BY <1>1 DEF SessionFor, Goto
  <2> HIDE DEF used
  <2>3. turn'[t] = used /\ pc'[t] = "running"
    BY <1>0, <2>2
  <2>4. UsesFairly(t)
    BY <1>1, <2>1, <2>3 DEF UsesFairly, Takes, Working
  <2> QED BY <2>2, <2>4, DiscardingStep
<1>2. CASE ~(held[k] # None /\ session[held[k]].mode = m)
  <2>1. turn' = [turn EXCEPT ![t] = locals]
        /\ \E label \in {"opening", "switching"} : pc' = [pc EXCEPT ![t] = label]
        /\ (UNCHANGED <<held, session>> \/ Discard(k))
    BY <1>2 DEF SessionFor, Goto
  <2>2. UsesFairly(t)
    BY <1>0, <2>1 DEF UsesFairly, Working
  <2> QED BY <2>1, <2>2, DiscardingStep
<1> QED BY <1>1, <1>2

LEMMA EnterSound ==
    ASSUME TypeOK, TypeOK', PoolInv, NEW t \in Turns, NEW k \in Keys, NEW m \in Modes,
           pc[t] \in Outside, Enter(t, k, m)
    PROVE  PoolInv'
<1>1. PICK l \in LockFor(k) :
          Acquire(t, k, m, [NoTurn EXCEPT !.key = k, !.mode = m, !.lock = l], l)
  BY DEF Enter
<1> DEFINE locals == [NoTurn EXCEPT !.key = k, !.mode = m, !.lock = l]
<1>2. l \in Locks
  BY DEF LockFor, Registered, TypeOK
<1>3. locals \in Turn /\ locals.key = k /\ locals.mode = m /\ locals.using = None
  BY <1>2, NoTurnType DEF NoTurn, Turn
<1>4. Acquire(t, k, m, locals, l)
  BY <1>1
<1> HIDE DEF locals
<1>5. CASE holder[l] = None /\ queue[l] = <<>>
  <2>1. SessionFor(t, k, m, locals)
    BY <1>4, <1>5 DEF Acquire
  <2>2. OnlyTurn(t)
    BY <1>3, <2>1, SessionForTypes DEF OnlyTurn
  <2> QED BY <1>3, <2>1, <2>2, SessionForSound DEF Outside
<1>6. CASE ~(holder[l] = None /\ queue[l] = <<>>)
  <2>1. /\ turn' = [turn EXCEPT ![t] = locals] /\ pc' = [pc EXCEPT ![t] = "waiting"]
        /\ UNCHANGED <<held, session>>
    BY <1>4, <1>6 DEF Acquire, Goto
  <2>2. OnlyTurn(t) /\ UsesFairly(t)
    BY <1>3, <2>1 DEF TypeOK, OnlyTurn, UsesFairly, Working
  <2> QED BY <2>1, <2>2, DiscardingStep DEF Outside
<1> QED BY <1>5, <1>6

(* A turn that leaves takes nothing with it; a failure it was settling is    *)
(* out of the pool by then, or no longer only a failure.                     *)
LEMMA LeaveStep ==
    ASSUME TypeOK, TypeOK', PoolInv, NEW t \in Turns, Leave(t), PoolShrinks,
           \A k \in Keys : held'[k] # None /\ session'[held[k]].past = "failed" =>
               session[held[k]].past = "failed" /\ ~GivesUp(t, held[k])
    PROVE  PoolInv'
<1>1. OnlyTurn(t) /\ turn'[t] = NoTurn
  BY DEF Leave, Goto, OnlyTurn, TypeOK
<1>2. UsesFairly(t)
  BY <1>1 DEF UsesFairly, NoTurn
<1>3. FailuresFollowed(t)
  BY DEF FailuresFollowed
<1> QED BY <1>1, <1>2, <1>3, PoolStep

(* A running or settling turn keeps its locals, and may change only what     *)
(* became of its session.                                                    *)
LEMMA SessionPast ==
    ASSUME TypeOK, NEW s \in Sessions, NEW p, session' = [session EXCEPT ![s].past = p],
           held' = held
    PROVE  /\ PoolShrinks /\ session'[s].past = p
           /\ \A r \in Sessions \ {s} : session'[r] = session[r]
<1>1. /\ session'[s].past = p /\ session'[s].open = session[s].open
      /\ session'[s].mode = session[s].mode /\ \A r \in Sessions \ {s} : session'[r] = session[r]
  BY DEF TypeOK, Session
<1>2. \A k \in Keys : held[k] # None => held[k] \in Sessions
  BY DEF TypeOK
<1> QED BY <1>1, <1>2 DEF PoolShrinks

LEMMA ConcludeSound ==
    ASSUME IInv, IInv', PoolInv, NEW t \in Turns, Conclude(t) \/ CancelRunning(t)
    PROVE  PoolInv'
<1>1. PICK r \in {"yes", "no"} :
          /\ turn[t].pumping = "failed" => r = "no"
          /\ turn' = [turn EXCEPT ![t].reusable = r, ![t].forwarding = "on",
                                  ![t].pumping = "on"]
          /\ session' = [session EXCEPT ![turn[t].using].past = Past(t, r)]
  <2>1. /\ Verdicts(t) \subseteq {"yes", "no"}
        /\ turn[t].pumping = "failed" => Verdicts(t) = {"no"}
    BY DEF Verdicts
  <2> QED BY <2>1 DEF Conclude, CancelRunning
<1> DEFINE s == turn[t].using
<1>2. /\ pc[t] = "running" /\ pc' = [pc EXCEPT ![t] = "settling"] /\ held' = held
      /\ s \in Sessions
  BY InsideFacts DEF Conclude, CancelRunning, Goto
<1>3. /\ OnlyTurn(t) /\ pc'[t] = "settling" /\ turn'[t].using = s
      /\ turn'[t].key = turn[t].key /\ turn'[t].mode = turn[t].mode
      /\ turn'[t].reusable = r
  BY <1>1, <1>2, InsideFacts DEF OnlyTurn, Turn
<1>4. /\ PoolShrinks /\ session'[s].past = Past(t, r)
      /\ \A q \in Sessions \ {s} : session'[q] = session[q]
  BY <1>1, <1>2, SessionPast DEF IInv
<1>5. Past(t, r) = "failed" => r = "no" \/ session[s].past = "failed"
  BY <1>1 DEF Past
<1>6. UsesFairly(t)
  BY <1>3 DEF UsesFairly, Keeps, Working
<1>7. FailuresFollowed(t)
  <2> SUFFICES ASSUME NEW k \in Keys, held'[k] # None, session'[held[k]].past = "failed"
               PROVE  \/ session[held[k]].past = "failed" /\ ~GivesUp(t, held[k])
                      \/ GivesUp(t, held[k])'
    BY DEF FailuresFollowed
  <2>1. ~GivesUp(t, held[k]) /\ held[k] \in Sessions /\ held'[k] = held[k]
    BY <1>2, InsideFacts DEF GivesUp
  <2>2. CASE held[k] = s /\ r = "no"
    BY <1>3, <2>1, <2>2 DEF GivesUp
  <2>3. CASE held[k] # s \/ r # "no"
    BY <1>4, <1>5, <2>1, <2>3
  <2> QED BY <2>2, <2>3
<1> QED BY <1>3, <1>4, <1>6, <1>7, PoolStep DEF IInv
(* A new session is nobody's: it was closed, so not pooled, and no turn      *)
(* still has it.                                                             *)
LEMMA OpenedSound ==
    ASSUME IInv, IInv', PoolInv, NEW t \in Turns, Opened(t)
    PROVE  PoolInv'
<1> DEFINE k == turn[t].key
<1>1. PICK s \in Sessions :
          /\ session[s].open = "no" /\ \A v \in Turns : turn[v].using # s
          /\ session' = [session EXCEPT ![s] = [NoSession EXCEPT !.open = "yes",
                                                                !.mode = turn[t].mode]]
          /\ held' = [held EXCEPT ![k] = s]
          /\ turn' = [turn EXCEPT ![t].using = s]
  BY DEF Opened
<1>2. pc[t] = "opening" /\ pc' = [pc EXCEPT ![t] = "running"] /\ k \in Keys
  BY InsideFacts DEF Opened, Goto
<1>3. /\ session'[s].open = "yes" /\ session'[s].mode = turn[t].mode
      /\ session'[s].past = "clean" /\ \A q \in Sessions \ {s} : session'[q] = session[q]
  BY <1>1, InsideFacts DEF NoSession
<1>4. held'[k] = s /\ \A j \in Keys \ {k} : held'[j] = held[j]
  BY <1>1, <1>2, InsideFacts
<1>5. /\ OnlyTurn(t) /\ pc'[t] = "running" /\ turn'[t].using = s
      /\ turn'[t].key = k /\ turn'[t].mode = turn[t].mode
  BY <1>1, <1>2, InsideFacts DEF OnlyTurn, Turn
<1>6. \A j \in Keys : held[j] # s /\ held[j] \in Sessions \cup {None}
  BY <1>1, RealtimeSessionsAssumption, InsideFacts DEF PoolInv, PooledIsOpen
<1>7. \A u \in Turns : turn[u].using \in Sessions \cup {None}
  BY DEF IInv, TypeOK, Turn
<1> HIDE DEF k
<1>8. PooledIsOpen'
  BY <1>3, <1>4, <1>6 DEF PoolInv, PooledIsOpen
<1>9. ModeMatches'
  BY <1>1, <1>3, <1>5, <1>7 DEF PoolInv, ModeMatches, OnlyTurn
<1>10. HeldApart'
  BY <1>4, <1>6 DEF PoolInv, HeldApart
<1>11. UsesOwn'
  BY <1>1, <1>4, <1>5, <1>6 DEF PoolInv, UsesOwn, OnlyTurn
<1>12. OnlyWorkersUse'
  BY <1>5 DEF PoolInv, OnlyWorkersUse, OnlyTurn, Working
<1>13. FailedIsGivenUp'
  <2> SUFFICES ASSUME NEW j \in Keys, held'[j] # None, session'[held'[j]].past = "failed"
               PROVE  \E u \in Turns : GivesUp(u, held[j])'
    BY DEF FailedIsGivenUp, GivesUp
  <2>1. j # k /\ held'[j] = held[j] /\ held[j] # s /\ session[held[j]].past = "failed"
    BY <1>3, <1>4, <1>6
  <2>2. PICK u \in Turns : GivesUp(u, held[j])
    BY <2>1 DEF PoolInv, FailedIsGivenUp
  <2>3. u # t
    BY <1>2, <2>2 DEF GivesUp
  <2> QED BY <1>5, <2>1, <2>2, <2>3 DEF GivesUp, OnlyTurn
<1> QED BY <1>8, <1>9, <1>10, <1>11, <1>12, <1>13 DEF PoolInv

LEMMA SettleSound ==
    ASSUME IInv, IInv', PoolInv, NEW t \in Turns, Settle(t)
    PROVE  PoolInv'
<1> DEFINE s == turn[t].using
<1>1. pc[t] = "settling" /\ s \in Sessions /\ turn[t].key \in Keys
  BY InsideFacts DEF Settle
<1>2. CASE turn[t].reusable = "yes"
  <2>1. PICK n : session' = [session EXCEPT ![s].turns = n]
    BY <1>2 DEF Settle
  <2>2. Leave(t) /\ held' = held
    BY <1>2 DEF Settle
  <2>3. \A q \in Sessions : /\ session'[q].open = session[q].open
                            /\ session'[q].mode = session[q].mode
                            /\ session'[q].past = session[q].past
    <3>1. session \in [Sessions -> Session]
      BY InsideFacts
    <3> HIDE DEF s
    <3> QED BY <1>1, <2>1, <3>1 DEF Session
  <2>4. PoolShrinks /\ \A k \in Keys : held'[k] # None => held[k] \in Sessions
    BY <2>2, <2>3, InsideFacts DEF PoolShrinks
  <2>5. \A k \in Keys : ~GivesUp(t, held[k])
    BY <1>2 DEF GivesUp
  <2> QED BY <2>2, <2>3, <2>4, <2>5, LeaveStep DEF IInv
<1>3. CASE turn[t].reusable # "yes"
  <2> DEFINE k == turn[t].key
  <2>1. /\ Discard(k)
        /\ \/ Leave(t)
           \/ Goto(t, "discarding") /\ turn' = turn
    BY <1>3 DEF Settle
  <2>2. /\ PoolShrinks /\ held'[k] = None
        /\ \A j \in Keys : held'[j] # None => session'[held[j]] = session[held[j]]
    BY <1>1, <2>1, DiscardFacts DEF PoolInv, IInv
  <2>3. \A j \in Keys : held'[j] # None => held[j] # s
    <3>1. ASSUME NEW j \in Keys, held[j] = s PROVE j = k
      BY <1>1, <3>1, RealtimeSessionsAssumption DEF PoolInv, UsesOwn
    <3>2. \A j \in Keys : held'[j] # None => held'[j] = held[j]
      BY <2>2 DEF PoolShrinks
    <3> QED BY <2>2, <3>1, <3>2
  <2>4. \A j \in Keys : held'[j] # None => ~GivesUp(t, held[j])
    BY <2>3 DEF GivesUp
  <2> HIDE DEF k
  <2>5. CASE Leave(t)
    BY <2>2, <2>4, <2>5, LeaveStep DEF IInv
  <2>6. CASE Goto(t, "discarding") /\ turn' = turn
    <3>1. OnlyTurn(t) /\ UsesFairly(t)
      BY <2>6, InsideFacts DEF Goto, OnlyTurn, UsesFairly, Keeps, Working
    <3>2. FailuresFollowed(t)
      BY <2>2, <2>4 DEF FailuresFollowed
    <3> QED BY <2>2, <3>1, <3>2, PoolStep DEF IInv
  <2> QED BY <2>1, <2>5, <2>6
<1> QED BY <1>2, <1>3

LEMMA SettleRaisesSound ==
    ASSUME IInv, IInv', PoolInv, NEW t \in Turns, SettleRaises(t)
    PROVE  PoolInv'
<1> DEFINE s == turn[t].using
           p == IF session[s].open = "no" THEN session[s].past ELSE "unsettled"
<1>1. /\ pc[t] = "settling" /\ s \in Sessions /\ session[s] \in Session
      /\ Leave(t) /\ held' = held
  BY InsideFacts DEF SettleRaises
<1>2. session' = [session EXCEPT ![s].past = p]
  BY <1>1, InsideFacts DEF SettleRaises
<1>3. /\ PoolShrinks /\ session'[s].past = p
      /\ \A q \in Sessions \ {s} : session'[q] = session[q]
  <2> HIDE DEF p
  <2> QED BY <1>1, <1>2, SessionPast DEF IInv
<1>4. ASSUME NEW k \in Keys, held'[k] # None, session'[held[k]].past = "failed"
      PROVE  session[held[k]].past = "failed" /\ ~GivesUp(t, held[k])
  <2>1. held[k] \in Sessions /\ session[held[k]].open = "yes"
    BY <1>1, <1>4, InsideFacts DEF PoolInv, PooledIsOpen
  <2>2. held[k] # s
    BY <1>3, <1>4, <2>1
  <2> QED BY <1>3, <1>4, <2>1, <2>2 DEF GivesUp
<1> QED BY <1>1, <1>3, <1>4, LeaveStep DEF IInv

LEMMA InitPoolInv == Init => PoolInv
BY DEF Init, PoolInv, PooledIsOpen, ModeMatches, HeldApart, UsesOwn, OnlyWorkersUse,
       FailedIsGivenUp, NoTurn

LEMMA StepPoolInv == IInv /\ IInv' /\ PoolInv /\ [Next]_vars => PoolInv'
<1> SUFFICES ASSUME IInv, IInv', PoolInv, [Next]_vars PROVE PoolInv'
  OBVIOUS
<1>0. TypeOK /\ TypeOK'
  BY DEF IInv
<1>1. ASSUME NEW t \in Turns, NEW k \in Keys, NEW m \in Modes, Start(t, k, m) PROVE PoolInv'
  <2>1. CASE IdleSpent = {}
    BY <1>0, <1>1, <2>1, EnterSound DEF Start, Outside
  <2>2. CASE IdleSpent # {}
    <3>1. PICK first \in IdleSpent :
              /\ turn' = [turn EXCEPT ![t] = [NoTurn EXCEPT !.key = k, !.mode = m,
                                                           !.spent = IdleSpent \ {first}]]
              /\ Discard(first) /\ pc' = [pc EXCEPT ![t] = "sweeping"]
      BY <1>1, <2>2 DEF Start, Goto
    <3>2. /\ first \in Keys /\ pc[t] = "idle" /\ OnlyTurn(t)
          /\ turn'[t].using = None
      BY <1>1, <3>1, InsideFacts DEF IdleSpent, Start, OnlyTurn, NoTurn
    <3> QED BY <1>0, <3>1, <3>2, DiscardingStep DEF UsesFairly
  <2> QED BY <2>1, <2>2
<1>2. ASSUME NEW t \in Turns, Sweep(t) PROVE PoolInv'
  <2> DEFINE left == {k \in turn[t].spent : held[k] # None}
  <2>0. /\ turn[t].key \in Keys /\ turn[t].mode \in Modes /\ turn[t].spent \in SUBSET Keys
        /\ pc[t] = "sweeping" /\ turn[t].using = None
    BY <1>2, InsideFacts DEF Sweep, Turn, PoolInv, OnlyWorkersUse, Working
  <2>1. CASE left = {}
    BY <1>0, <1>2, <2>0, <2>1, EnterSound DEF Sweep, Outside
  <2>2. CASE left # {}
    <3>1. PICK k \in left : /\ turn' = [turn EXCEPT ![t].spent = @ \ {k}]
                            /\ Discard(k) /\ pc' = pc
      BY <1>2, <2>2 DEF Sweep
    <3>2. k \in Keys /\ OnlyTurn(t) /\ turn'[t].using = None
      BY <2>0, <3>1, InsideFacts DEF OnlyTurn, Turn
    <3> QED BY <1>0, <2>0, <3>1, <3>2, DiscardingStep DEF UsesFairly
  <2> QED BY <2>1, <2>2
<1>3. ASSUME NEW t \in Turns, Resume(t) PROVE PoolInv'
  <2>1. /\ pc[t] = "waiting" /\ turn[t] \in Turn /\ turn[t].key \in Keys
        /\ turn[t].mode \in Modes /\ turn[t].using = None
        /\ SessionFor(t, turn[t].key, turn[t].mode, turn[t])
    BY <1>3, InsideFacts DEF Resume, Turn, PoolInv, OnlyWorkersUse, Working
  <2>2. OnlyTurn(t)
    BY <1>0, <2>1, SessionForTypes DEF OnlyTurn
  <2> QED BY <1>0, <2>1, <2>2, SessionForSound
<1>4. ASSUME NEW t \in Turns, Switched(t) PROVE PoolInv'
  <2>1. /\ OnlyTurn(t) /\ pc[t] = "switching" /\ turn' = turn /\ UNCHANGED <<held, session>>
        /\ turn[t].using = None
    BY <1>4, InsideFacts DEF Switched, Goto, OnlyTurn, PoolInv, OnlyWorkersUse, Working
  <2> QED BY <1>0, <2>1, DiscardingStep DEF UsesFairly
<1>5. ASSUME NEW t \in Turns,
             \/ OpenFails(t) \/ Discarded(t) \/ CancelSweeping(t)
             \/ CancelWaiting(t) \/ CancelOpening(t)
      PROVE  PoolInv'
  <2>1. /\ Leave(t) /\ UNCHANGED <<held, session>> /\ pc[t] # "settling"
    BY <1>5 DEF OpenFails, Discarded, CancelSweeping, CancelWaiting, CancelOpening
  <2> QED BY <1>0, <2>1, LeaveStep DEF PoolShrinks, GivesUp
<1>6. ASSUME NEW t \in Turns, InputEnds(t) \/ InputBreaks(t) \/ Pump(t) PROVE PoolInv'
  <2>1. pc[t] = "running" /\ UNCHANGED <<held, session, pc>>
    BY <1>6 DEF InputEnds, InputBreaks, Pump, PumpEnds
  <2>2. \/ \E f \in Ends : turn' = [turn EXCEPT ![t].forwarding = f]
        \/ \E p \in Ends : turn' = [turn EXCEPT ![t].pumping = p]
    BY <1>6 DEF InputEnds, InputBreaks, Pump, PumpEnds, Ends
  <2>3. OnlyTurn(t) /\ Keeps(t)
    BY <2>1, <2>2, InsideFacts DEF OnlyTurn, Keeps, Turn
  <2> QED BY <1>0, <2>1, <2>3, DiscardingStep DEF UsesFairly, Working
<1>7. ASSUME NEW s \in Sessions, Age(s) PROVE PoolInv'
  <2>1. /\ session' = [session EXCEPT ![s].aged = "yes"] /\ UNCHANGED <<held, pc, turn>>
    BY <1>7 DEF Age
  <2>2. \A q \in Sessions : /\ session'[q].open = session[q].open
                            /\ session'[q].mode = session[q].mode
                            /\ session'[q].past = session[q].past
    BY <1>0, <2>1 DEF TypeOK, Session
  <2>3. /\ \A k \in Keys : held[k] # None => held[k] \in Sessions
        /\ \A u \in Turns : turn[u].using # None => turn[u].using \in Sessions
    BY <1>0 DEF TypeOK, Turn
  <2> QED BY <2>1, <2>2, <2>3
      DEF PoolInv, PooledIsOpen, ModeMatches, HeldApart, UsesOwn, OnlyWorkersUse,
          FailedIsGivenUp, GivesUp
<1>8. CASE UNCHANGED vars
  BY <1>8 DEF vars, PoolInv, PooledIsOpen, ModeMatches, HeldApart, UsesOwn, OnlyWorkersUse,
              FailedIsGivenUp, GivesUp
<1> QED
  BY <1>1, <1>2, <1>3, <1>4, <1>5, <1>6, <1>7, <1>8,
     OpenedSound, ConcludeSound, SettleSound, SettleRaisesSound
  DEF Next, Work, Cancel

(* The pool never offers a session somebody closed, a turn never speaks to a *)
(* session opened for the other voice mode, and a failed session is out of   *)
(* the pool before its last user has gone: however many turns, conversations *)
(* and locks, and though two turns may be at work on one conversation        *)
(* (agent.py handle_audio, _session_for, _discard, _close_spent).            *)
THEOREM PoolCorrect == Spec => []PoolIsSound
<1>1. IInv /\ PoolInv => FailureNotPooled
  <2> SUFFICES ASSUME IInv, PoolInv, NEW s \in Sessions, Idle(s), session[s].past = "failed"
               PROVE  FALSE
    BY DEF FailureNotPooled
  <2>1. PICK k \in Keys : held[k] = s
    BY DEF Idle
  <2>2. s # None
    BY RealtimeSessionsAssumption
  <2>3. \E t \in Turns : GivesUp(t, s)
    BY <2>1, <2>2 DEF PoolInv, FailedIsGivenUp
  <2> QED BY <2>3 DEF Idle, InUse, GivesUp
<1>2. IInv /\ PoolInv => PoolIsSound
  BY <1>1 DEF PoolInv, PoolIsSound
<1> QED BY <1>2, InitPoolInv, StepPoolInv, Inductive, PTL DEF Spec
=============================================================================
