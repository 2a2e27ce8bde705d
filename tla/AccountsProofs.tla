--------------------------- MODULE AccountsProofs ---------------------------
(***************************************************************************)
(* Who is served as which account, for any number of requests, clients,    *)
(* usernames and passwords.  The invariant says what a request holds       *)
(* between its transactions: a committed account, or a name that is free   *)
(* and that it alone has inserted; and, of the limiter, an entry in a      *)
(* queue for every admission that is still in the window.                  *)
(***************************************************************************)
EXTENDS Accounts, FiniteSetTheorems, WellFoundedInduction, TLAPS

Naming == {"reread", "insert", "commit", "winner", "verify", "created"}

(* What a request carries at each of its steps.                            *)
Carried ==
    \A r \in Requests :
        /\ req[r].pc \in Waiting => req[r].from \in Clients /\ req[r].pass \in Passwords
        /\ req[r].pc \in {"admit", "read"} => req[r].name \in Spellings
        /\ req[r].pc \in Naming => req[r].name \in Usernames

(* The account a request holds is committed and has the name it sent, and  *)
(* the password too when the request made it.                              *)
Held ==
    \A r \in Requests :
        /\ req[r].pc \in {"verify", "created"} =>
              req[r].seen \in accounts /\ req[r].seen.username = req[r].name
        /\ req[r].pc = "created" => req[r].seen.hash = req[r].pass

(* A name that is inserted and not committed is free, and inserted once.   *)
Reserved ==
    /\ \A r \in Requests : req[r].pc = "commit" => Named(req[r].name) = {}
    /\ \A r, o \in Requests :
          req[r].pc = "commit" /\ req[o].pc = "commit" /\ req[r].name = req[o].name => r = o

IInv == TypeOK /\ Carried /\ Held /\ Reserved /\ ConflictsResolve /\ AccessIsEarned

(* One step of the request r, without its effect on the limiter.           *)
Moves(r) == Arrive(r) \/ Step(r) \/ DatabaseFails(r)

LEMMA Least == ASSUME NEW T \in SUBSET Nat, T # {} PROVE \E i \in T : \A j \in T : i <= j
<1> DEFINE R == OpToRel(<, Nat)
<1>1. \E x \in T : \A y \in T : ~ (<<y, x>> \in R)
  <2>1. IsWellFoundedOn(R, Nat)
    BY NatLessThanWellFounded
  <2> HIDE DEF R
  <2> QED
    BY <2>1, WFMin
<1>2. \A x, y \in Nat : y < x => <<y, x>> \in R
  BY DEF OpToRel
<1> HIDE DEF R
<1>3. PICK x \in T : \A y \in T : ~ (<<y, x>> \in R)
  BY <1>1
<1>4. \A y \in T : ~ (y < x)
  BY <1>2, <1>3
<1>5. \A y \in T : x <= y
  BY <1>4, SMT
<1> QED
  BY <1>5

LEMMA PruneType == ASSUME NEW q \in Seq(Nat) PROVE Prune(q) \in Seq(Nat)
<1> DEFINE newer == {i \in 1..Len(q) : q[i] > now - Window}
<1>1. CASE newer = {}
  BY <1>1 DEF Prune
<1>2. CASE newer # {}
  <2> DEFINE first == CHOOSE i \in newer : \A j \in newer : i <= j
  <2>1. \E i \in newer : \A j \in newer : i <= j
    <3>1. newer \in SUBSET Nat
      OBVIOUS
    <3> HIDE DEF newer
    <3> QED
      BY <1>2, <3>1, Least
  <2>2. first \in newer
    BY <2>1
  <2>3. first \in 1..Len(q)
    BY <2>2
  <2> HIDE DEF first
  <2>4. SubSeq(q, first, Len(q)) \in Seq(Nat)
    BY <2>3
  <2> QED
    BY <1>2, <2>4 DEF Prune, first
<1> QED
  BY <1>1, <1>2

LEMMA InitIInv == Init => IInv
BY ConstantsAssumption
DEF Init, IInv, TypeOK, Carried, Held, Reserved, ConflictsResolve, AccessIsEarned, Idle, Waiting,
    Naming, Answered, Request, Account, Claims, Proved

(* A step of a request touches no other request, and only adds accounts    *)
(* and tokens.                                                             *)
LEMMA Frame ==
    ASSUME TypeOK, NEW r \in Requests, Moves(r)
    PROVE  /\ \A o \in Requests \ {r} : req'[o] = req[o]
           /\ accounts \subseteq accounts' /\ tokens \subseteq tokens'
           /\ UNCHANGED session
BY DEF TypeOK, Moves, Arrive, Step, Admit, Allow, ReadFirst, Acceptable, Found, Reread, Insert, Commit,
       ReadConflictWinner, Answer, Issued, DatabaseFails, End, limiter, session

LEMMA LimiterType ==
    ASSUME IInv, NEW r \in Requests, Moves(r)
    PROVE  /\ global' \in Seq(Nat) /\ client' \in [Clients -> Seq(Nat)]
           /\ admitted' \subseteq Requests \X Clients \X Nat
<1> DEFINE q == [k \in Clients |-> Prune(client[k])]
<1>0. now \in Nat /\ global \in Seq(Nat) /\ client \in [Clients -> Seq(Nat)]
      /\ admitted \subseteq Requests \X Clients \X Nat
  BY DEF IInv, TypeOK
<1>1. CASE Admit(r)
  <2>1. req[r].from \in Clients
    BY <1>1 DEF IInv, Carried, Admit, Waiting
  <2>2. Prune(global) \in Seq(Nat) /\ q \in [Clients -> Seq(Nat)]
    BY <1>0, PruneType
  <2>3. Append(Prune(global), now) \in Seq(Nat) /\ Append(q[req[r].from], now) \in Seq(Nat)
    BY <1>0, <2>1, <2>2
  <2>4. /\ global' \in {Prune(global), Append(Prune(global), now)}
        /\ client' \in {q, [q EXCEPT ![req[r].from] = Append(@, now)]}
        /\ admitted' \subseteq admitted \cup {<<r, req[r].from, now>>}
    BY <1>1 DEF Admit, Allow
  <2> HIDE DEF q
  <2>5. [q EXCEPT ![req[r].from] = Append(@, now)] \in [Clients -> Seq(Nat)]
    BY <2>2, <2>3
  <2>6. <<r, req[r].from, now>> \in Requests \X Clients \X Nat
    BY <1>0, <2>1
  <2> QED
    BY <1>0, <2>2, <2>3, <2>4, <2>5, <2>6
<1>2. CASE ~ Admit(r)
  BY <1>0, <1>2
  DEF Moves, Step, Arrive, ReadFirst, Acceptable, Reread, Insert, Commit, ReadConflictWinner, Answer,
      DatabaseFails, limiter
<1> QED
  BY <1>1, <1>2

(* What the step leaves its own request with.                              *)
Settled(r, q) ==
    /\ q \in Request
    /\ q.pc \in Waiting => q.from \in Clients /\ q.pass \in Passwords
    /\ q.pc \in {"admit", "read"} => q.name \in Spellings
    /\ q.pc \in Naming => q.name \in Usernames

LEMMA OwnRequest ==
    ASSUME IInv, NEW r \in Requests, Moves(r)
    PROVE  req' \in [Requests -> Request] /\ Settled(r, req'[r])
<1> USE ConstantsAssumption
<1>0. /\ req \in [Requests -> Request] /\ accounts \subseteq Account
      /\ Settled(r, req[r])
  BY DEF IInv, TypeOK, Carried, Settled
<1>1. ASSUME NEW why \in Answered, End(r, why)
      PROVE  req' \in [Requests -> Request] /\ Settled(r, req'[r])
  BY <1>0, <1>1 DEF End, Idle, Settled, Request, Answered, Waiting, Naming
<1>2. ASSUME NEW u \in Usernames, NEW a \in accounts, Found(r, u, a), req[r].pc \in Waiting
      PROVE  req' \in [Requests -> Request] /\ Settled(r, req'[r])
  BY <1>0, <1>2 DEF Found, Settled, Request, Waiting, Naming
<1>3. CASE Arrive(r)
  <2> DEFINE q(in) == [pc |-> "admit", from |-> in[2], name |-> in[3], pass |-> in[4], seen |-> None]
  <2>1. PICK in \in Inputs : req' = [req EXCEPT ![r] = q(in)]
    BY <1>3 DEF Arrive
  <2>2. in[2] \in Clients /\ in[3] \in Spellings /\ in[4] \in Passwords
    OBVIOUS
  <2>4. Settled(r, q(in))
    BY <2>2 DEF Settled, Request, Waiting, Naming
  <2> HIDE DEF q
  <2> QED
    BY <1>0, <2>1, <2>4 DEF q, Settled
<1>4. CASE Admit(r)
  <2>1. End(r, "limited") \/ req' = [req EXCEPT ![r].pc = "read"]
    BY <1>4 DEF Admit, Allow
  <2>2. ASSUME req' = [req EXCEPT ![r].pc = "read"]
        PROVE  req' \in [Requests -> Request] /\ Settled(r, req'[r])
    BY <1>0, <1>4, <2>2 DEF Admit, Settled, Request, Waiting, Naming
  <2> QED
    BY <1>1, <2>1, <2>2 DEF Answered
<1>5. CASE ReadFirst(r)
  <2> DEFINE u == Stripped[req[r].name]
  <2>1. req[r].pc = "read" /\ req[r].pc \in Waiting /\ req[r].name \in Spellings
    BY <1>0, <1>5 DEF ReadFirst, Acceptable, Settled, Waiting
  <2>2. CASE End(r, "bad_request")
    BY <1>1, <2>2 DEF Answered
  <2>3. CASE ~ End(r, "bad_request")
    <3>1. u \in Usernames
      BY <1>5, <2>1, <2>3 DEF ReadFirst, Acceptable, Usernames
    <3>2. CASE \E a \in Named(u) : Found(r, u, a)
      BY <1>2, <2>1, <3>1, <3>2 DEF Named
    <3>3. CASE req' = [req EXCEPT ![r].pc = "reread", ![r].name = u]
      <4> HIDE DEF u
      <4> QED
        BY <1>0, <2>1, <3>1, <3>3 DEF Settled, Request, Waiting, Naming
    <3> QED
      BY <1>5, <2>3, <3>2, <3>3 DEF ReadFirst, Acceptable
  <2> QED
    BY <2>2, <2>3
<1>6. CASE Reread(r) \/ Insert(r) \/ Answer(r)
  <2>1. req[r].pc \in Naming /\ req[r].pc \in Waiting /\ req[r].name \in Usernames
    BY <1>0, <1>6 DEF Reread, Insert, Answer, Issued, Settled, Naming, Waiting
  <2>2. CASE \E a \in Named(req[r].name) : Found(r, req[r].name, a)
    BY <1>2, <2>1, <2>2 DEF Named
  <2>3. ASSUME NEW l \in {"insert", "commit", "winner", "ok", "refused"},
               req' = [req EXCEPT ![r].pc = l]
        PROVE  req' \in [Requests -> Request] /\ Settled(r, req'[r])
    BY <1>0, <2>1, <2>3 DEF Settled, Request, Waiting, Naming, Answered
  <2> QED
    BY <1>6, <2>2, <2>3 DEF Reread, Insert, Answer, Issued
<1>7. CASE Commit(r)
  <2>1. req[r].name \in Usernames /\ req[r].pass \in Passwords /\ req[r].pc \in Waiting
    BY <1>0, <1>7 DEF Commit, Settled, Naming, Waiting
  <2> DEFINE row == [id |-> r, username |-> req[r].name, hash |-> req[r].pass]
  <2>2. row \in Account
    BY <2>1 DEF Account
  <2>3. CASE End(r, "failed")
    BY <1>1, <2>3 DEF Answered
  <2>4. CASE req' = [req EXCEPT ![r].pc = "created", ![r].seen = row]
    <3> HIDE DEF row
    <3> QED
      BY <1>0, <2>1, <2>2, <2>4 DEF Settled, Request, Waiting, Naming
  <2> QED
    BY <1>7, <2>3, <2>4 DEF Commit
<1>8. CASE ReadConflictWinner(r)
  <2>1. req[r].pc \in Waiting /\ req[r].name \in Usernames
    BY <1>0, <1>8 DEF ReadConflictWinner, Settled, Naming, Waiting
  <2> QED
    BY <1>1, <1>2, <1>8, <2>1 DEF ReadConflictWinner, Named, Answered
<1>9. CASE DatabaseFails(r)
  BY <1>1, <1>9 DEF DatabaseFails, Answered
<1> QED
  BY <1>3, <1>4, <1>5, <1>6, <1>7, <1>8, <1>9 DEF Moves, Step

LEMMA Relabelled ==
    ASSUME req \in [Requests -> Request], NEW r \in Requests, NEW l,
           req' = [req EXCEPT ![r].pc = l]
    PROVE  /\ req'[r].pc = l /\ req'[r].seen = req[r].seen
           /\ req'[r].name = req[r].name /\ req'[r].pass = req[r].pass
BY DEF Request

(* An answer keeps what the request holds, and says whether it has proved  *)
(* the password.                                                           *)
LEMMA Answering ==
    ASSUME req \in [Requests -> Request], NEW r \in Requests, Answer(r)
    PROVE  /\ req'[r].seen = req[r].seen /\ req'[r].name = req[r].name
           /\ req'[r].pass = req[r].pass
           /\ \/ /\ req'[r].pc = "ok"
                 /\ req[r].pc = "created" \/ req[r].seen.hash = req[r].pass
                 /\ tokens' = tokens \cup {[sub |-> req[r].seen.id, iat |-> now, exp |-> now + ttl]}
              \/ /\ req'[r].pc = "refused" /\ req[r].seen.hash # req[r].pass
                 /\ tokens' = tokens
<1>1. CASE req' = [req EXCEPT ![r].pc = "ok"]
  BY <1>1, Relabelled DEF Answer, Issued
<1>2. CASE req' = [req EXCEPT ![r].pc = "refused"]
  BY <1>2, Relabelled DEF Answer, Issued
<1> QED
  BY <1>1, <1>2 DEF Answer, Issued

(* The kinds of step, by what they leave the request with.                 *)
LEMMA Forms ==
    ASSUME IInv, NEW r \in Requests, Moves(r)
    PROVE  \/ req'[r].pc \in {"bad_request", "limited", "failed"}
           \/ req'[r].pc \in {"admit", "read", "reread", "insert"}
           \/ \E u \in Usernames : \E a \in Named(u) :
                 req'[r].pc = "verify" /\ req'[r].name = u /\ req'[r].seen = a
           \/ Insert(r)
           \/ Commit(r) /\ accounts' # accounts
           \/ Answer(r)
<1> USE ConstantsAssumption
<1>0. req \in [Requests -> Request] /\ (req[r].pc \in Naming => req[r].name \in Usernames)
      /\ (req[r].pc = "read" => req[r].name \in Spellings)
  BY DEF IInv, TypeOK, Carried
<1>1. ASSUME NEW why, End(r, why) PROVE req'[r].pc = why
  BY <1>0, <1>1 DEF End, Idle
<1>2. ASSUME NEW u, NEW a, Found(r, u, a)
      PROVE  req'[r].pc = "verify" /\ req'[r].name = u /\ req'[r].seen = a
  BY <1>0, <1>2 DEF Found, Request
<1>3. CASE Arrive(r)
  BY <1>0, <1>3 DEF Arrive
<1>4. CASE Admit(r)
  <2>1. End(r, "limited") \/ req' = [req EXCEPT ![r].pc = "read"]
    BY <1>4 DEF Admit, Allow
  <2> QED
    BY <1>0, <1>1, <2>1, Relabelled
<1>5. CASE ReadFirst(r)
  <2>1. CASE End(r, "bad_request")
    BY <1>1, <2>1
  <2>2. CASE ~ End(r, "bad_request")
    <3>1. req[r].name \in Spellings /\ Stripped[req[r].name] \in Usernames
      BY <1>0, <1>5, <2>2 DEF ReadFirst, Acceptable, Usernames
    <3>2. \/ \E a \in Named(Stripped[req[r].name]) : Found(r, Stripped[req[r].name], a)
          \/ req' = [req EXCEPT ![r].pc = "reread", ![r].name = Stripped[req[r].name]]
      BY <1>5, <2>2 DEF ReadFirst, Acceptable
    <3>3. CASE req' = [req EXCEPT ![r].pc = "reread", ![r].name = Stripped[req[r].name]]
      BY <1>0, <3>3 DEF Request
    <3> QED
      BY <1>2, <3>1, <3>2, <3>3
  <2> QED
    BY <2>1, <2>2
<1>6. CASE Reread(r)
  <2>1. \/ \E a \in Named(req[r].name) : Found(r, req[r].name, a)
        \/ req' = [req EXCEPT ![r].pc = "insert"]
    BY <1>6 DEF Reread
  <2> QED
    <3>1. req[r].name \in Usernames
      BY <1>0, <1>6 DEF Reread, Naming
    <3>2. CASE req' = [req EXCEPT ![r].pc = "insert"]
      BY <1>0, <3>2, Relabelled
    <3>3. CASE \E a \in Named(req[r].name) : Found(r, req[r].name, a)
      BY <1>2, <3>1, <3>3
    <3> QED
      BY <2>1, <3>2, <3>3
<1>7. CASE Commit(r)
  <2> DEFINE row == [id |-> r, username |-> req[r].name, hash |-> req[r].pass]
  <2>1. row \notin accounts
    BY <1>7 DEF Commit, IInv, Reserved, Named
  <2>2. End(r, "failed") \/ accounts' = accounts \cup {row}
    BY <1>7 DEF Commit
  <2> HIDE DEF row
  <2> QED
    BY <1>1, <1>7, <2>1, <2>2
<1>8. CASE ReadConflictWinner(r)
  BY <1>0, <1>1, <1>2, <1>8 DEF ReadConflictWinner, Naming
<1>9. CASE DatabaseFails(r)
  BY <1>1, <1>9 DEF DatabaseFails
<1> QED
  BY <1>3, <1>4, <1>5, <1>6, <1>7, <1>8, <1>9 DEF Moves, Step

LEMMA MovesIInv == ASSUME IInv, NEW r \in Requests, Moves(r) PROVE IInv'
<1> USE ConstantsAssumption
<1>0. /\ \A o \in Requests \ {r} : req'[o] = req[o]
      /\ accounts \subseteq accounts' /\ tokens \subseteq tokens' /\ UNCHANGED session
  BY Frame DEF IInv
<1>1. req' \in [Requests -> Request] /\ Settled(r, req'[r])
  BY OwnRequest
<1>2. Carried'
  BY <1>0, <1>1 DEF IInv, Carried, Settled
<1>3. /\ \A a \in accounts : a \in Account
      /\ req[r].pc = "commit" => req[r].name \in Usernames /\ req[r].pass \in Passwords
      /\ req[r].pc \in {"verify", "created"} => req[r].seen \in accounts
  BY DEF IInv, TypeOK, Carried, Held, Naming, Waiting
<1>4. /\ \A o \in Requests : req'[o].pc = "ok" /\ o # r => req[o].pc = "ok"
      /\ \A o \in Requests, a \in accounts : o # r /\ Proved(o, a) => Proved(o, a)'
      /\ req[r].pc # "ok"
  BY <1>0 DEF Proved, Moves, Arrive, Step, Admit, ReadFirst, Acceptable, Reread, Insert, Commit,
     ReadConflictWinner, Answer, Issued, DatabaseFails
<1>r. req \in [Requests -> Request]
  BY DEF IInv, TypeOK
<1>d. accounts' # accounts => Commit(r)
  BY DEF Moves, Arrive, Step, Admit, ReadFirst, Acceptable, Reread, Insert, ReadConflictWinner, Answer,
     DatabaseFails
<1>5. ASSUME accounts' = accounts
      PROVE  TypeOK' /\ ConflictsResolve' /\ Reserved' /\ Held' /\ AccessIsEarned'
  <2>0. \A u : Named(u)' = Named(u)
    BY <1>5 DEF Named
  <2>1. tokens' \subseteq tokens \cup {[sub |-> req[r].seen.id, iat |-> now, exp |-> now + ttl]}
        /\ (tokens' # tokens => req'[r].pc = "ok" /\ Answer(r))
    <3>1. CASE Answer(r)
      BY <1>r, <3>1, Answering
    <3>2. CASE ~ Answer(r)
      BY <3>2
      DEF Moves, Arrive, Step, Admit, ReadFirst, Acceptable, Reread, Insert, Commit, ReadConflictWinner,
          DatabaseFails
    <3> QED
      BY <3>1, <3>2
  <2>2. TypeOK'
    <3>1. now \in Nat /\ ttl \in Nat /\ tokens \subseteq Claims /\ accounts \subseteq Account
      BY DEF IInv, TypeOK
    <3>2. tokens' \subseteq Claims
      <4>1. CASE tokens' = tokens
        BY <3>1, <4>1
      <4>2. CASE tokens' # tokens
        <5>1. req[r].seen \in Account
          BY <1>3, <2>1, <4>2 DEF Answer, Issued
        <5> QED
          BY <2>1, <3>1, <5>1 DEF Claims, Account
      <4> QED
        BY <4>1, <4>2
    <3> QED
      BY <1>0, <1>1, <1>5, <3>2, LimiterType DEF IInv, TypeOK, session
  <2>3. /\ req'[r].pc = "winner" => Named(req'[r].name) # {}
        /\ req'[r].pc = "commit" => Named(req'[r].name) = {} /\ Uncommitted(req'[r].name) = {}
    <3>1. CASE Insert(r)
      <4> DEFINE l == IF Named(req[r].name) = {} THEN "commit" ELSE "winner"
      <4>1. req' = [req EXCEPT ![r].pc = l] /\ Uncommitted(req[r].name) = {}
        BY <3>1 DEF Insert
      <4>2. req'[r].pc = l /\ req'[r].name = req[r].name
        BY <1>r, <4>1, Relabelled
      <4> QED
        BY <4>1, <4>2
    <3>2. CASE Answer(r)
      BY <1>r, <3>2, Answering
    <3> QED
      BY <1>5, <3>1, <3>2, Forms
  <2>4. ConflictsResolve'
    BY <1>0, <1>5, <2>0, <2>3 DEF IInv, ConflictsResolve
  <2>5. Reserved'
    BY <1>0, <2>0, <2>3 DEF IInv, Reserved, Uncommitted
  <2>6. /\ req'[r].pc \in {"verify", "created"} =>
              req'[r].seen \in accounts /\ req'[r].seen.username = req'[r].name
        /\ req'[r].pc = "created" => req'[r].seen.hash = req'[r].pass
    <3>1. CASE Insert(r)
      BY <1>r, <3>1, Relabelled DEF Insert
    <3>2. CASE Answer(r)
      BY <1>r, <3>2, Answering
    <3> QED
      BY <1>5, <3>1, <3>2, Forms DEF Named
  <2>7. Held'
    BY <1>0, <1>5, <2>6 DEF IInv, Held
  <2>8. /\ req'[r].pc = "ok" => \E a \in accounts : a = req[r].seen /\ Proved(r, a)'
        /\ req'[r].pc = "refused" =>
              \E a \in accounts : a.username = req'[r].name /\ a.hash # req'[r].pass
    <3>1. CASE Answer(r)
      <4>1. /\ req[r].seen \in accounts /\ req[r].seen.username = req[r].name
            /\ req[r].pc = "created" => req[r].seen.hash = req[r].pass
        BY <3>1 DEF IInv, Held, Answer, Issued
      <4> QED
        BY <1>5, <1>r, <3>1, <4>1, Answering DEF Proved
    <3>2. CASE Insert(r)
      <4>1. req'[r].pc \in {"commit", "winner"}
        BY <1>r, <3>2, Relabelled DEF Insert
      <4> QED
        BY <4>1
    <3> QED
      BY <1>5, <3>1, <3>2, Forms
  <2>9. AccessIsEarned'
    <3>1. \A o \in Requests : req'[o].pc = "ok" => \E a \in accounts' : Proved(o, a)'
      BY <1>0, <1>4, <1>5, <2>8 DEF IInv, AccessIsEarned
    <3>2. \A o \in Requests : req'[o].pc = "refused" =>
            \E a \in accounts' : a.username = req'[o].name /\ a.hash # req'[o].pass
      BY <1>0, <1>5, <2>8 DEF IInv, AccessIsEarned
    <3>3. \A t \in tokens' : \E a \in accounts', o \in Requests : a.id = t.sub /\ Proved(o, a)'
      <4>1. \A t \in tokens : \E a \in accounts, o \in Requests \ {r} : a.id = t.sub /\ Proved(o, a)
        BY <1>4 DEF IInv, AccessIsEarned, Proved
      <4>2. \A t \in tokens : \E a \in accounts', o \in Requests : a.id = t.sub /\ Proved(o, a)'
        BY <1>4, <1>5, <4>1
      <4>3. ASSUME NEW t \in tokens', t \notin tokens
            PROVE  \E a \in accounts' : a.id = t.sub /\ Proved(r, a)'
        BY <1>5, <2>1, <2>8, <4>3
      <4> QED
        BY <4>2, <4>3
    <3>4. caller' # None => \E t \in tokens' : t.sub = caller'
      BY <1>0 DEF IInv, AccessIsEarned, session
    <3> QED
      BY <3>1, <3>2, <3>3, <3>4 DEF AccessIsEarned
  <2> QED
    BY <2>2, <2>4, <2>5, <2>7, <2>9
<1>6. ASSUME Commit(r), accounts' # accounts
      PROVE  TypeOK' /\ ConflictsResolve' /\ Reserved' /\ Held' /\ AccessIsEarned'
  <2> DEFINE row == [id |-> r, username |-> req[r].name, hash |-> req[r].pass]
  <2>1. /\ row \in Account /\ row.username = req[r].name /\ row.hash = req[r].pass
        /\ Named(req[r].name) = {}
    BY <1>3, <1>6 DEF Commit, Account, IInv, Reserved
  <2>2. /\ accounts' = accounts \cup {row} /\ tokens' = tokens
        /\ \/ req' = [req EXCEPT ![r].pc = "created", ![r].seen = row]
           \/ End(r, "failed")
    BY <1>6 DEF Commit
  <2> HIDE DEF row
  <2>3. \/ /\ req'[r].pc = "created" /\ req'[r].seen = row
           /\ req'[r].name = req[r].name /\ req'[r].pass = req[r].pass
        \/ req'[r].pc = "failed"
    BY <1>r, <2>2 DEF End, Idle, Request
  <2>4. \A o \in Requests \ {r} : req[o].pc = "commit" => req[o].name # req[r].name
    BY <1>6 DEF IInv, Reserved, Commit
  <2>5. TypeOK'
    BY <1>0, <1>1, <2>1, <2>2, LimiterType DEF IInv, TypeOK, session
  <2>6. ConflictsResolve'
    <3>1. \A a, b \in accounts' : a.username = b.username => a = b
      BY <2>1, <2>2 DEF IInv, ConflictsResolve, Named
    <3>2. \A o \in Requests : req'[o].pc = "winner" => Named(req[o].name)' # {}
      BY <1>0, <2>2, <2>3 DEF IInv, ConflictsResolve, Named
    <3> QED
      BY <3>1, <3>2 DEF ConflictsResolve
  <2>7. Reserved'
    <3>1. \A o \in Requests : req'[o].pc = "commit" => o # r /\ req[o].pc = "commit" /\ req'[o] = req[o]
      BY <1>0, <2>3
    <3>2. \A o \in Requests : req'[o].pc = "commit" => Named(req[o].name)' = {}
      BY <2>1, <2>2, <2>4, <3>1 DEF IInv, Reserved, Named
    <3> QED
      BY <3>1, <3>2 DEF IInv, Reserved
  <2>8. Held'
    BY <1>0, <2>1, <2>2, <2>3 DEF IInv, Held
  <2>9. AccessIsEarned'
    <3>1. \A o \in Requests : req'[o].pc = "ok" => \E a \in accounts' : Proved(o, a)'
      BY <1>0, <1>4, <2>2, <2>3 DEF IInv, AccessIsEarned
    <3>2. \A o \in Requests : req'[o].pc = "refused" =>
            \E a \in accounts' : a.username = req'[o].name /\ a.hash # req'[o].pass
      BY <1>0, <2>2, <2>3 DEF IInv, AccessIsEarned
    <3>3. \A t \in tokens' : \E a \in accounts', o \in Requests : a.id = t.sub /\ Proved(o, a)'
      <4>1. \A t \in tokens : \E a \in accounts, o \in Requests \ {r} : a.id = t.sub /\ Proved(o, a)
        BY <1>4 DEF IInv, AccessIsEarned, Proved
      <4> QED
        BY <1>4, <2>2, <4>1
    <3>4. caller' # None => \E t \in tokens' : t.sub = caller'
      BY <1>0 DEF IInv, AccessIsEarned, session
    <3> QED
      BY <3>1, <3>2, <3>3, <3>4 DEF AccessIsEarned
  <2> QED
    BY <2>5, <2>6, <2>7, <2>8, <2>9
<1> QED
  BY <1>2, <1>5, <1>6, <1>d DEF IInv

LEMMA RestartIInv == ASSUME IInv, Restart PROVE IInv'
<1> USE ConstantsAssumption
<1>1. /\ accounts' = accounts /\ tokens' = tokens /\ now' = now /\ caller' = None
      /\ global' = <<>> /\ client' = [c \in Clients |-> <<>>] /\ admitted' = {}
      /\ restarts' = restarts + 1 /\ ttl' \in TTLs
  BY DEF Restart
<1> DEFINE lost == [Idle EXCEPT !.pc = "lost"]
<1>3. lost \in Request /\ lost.pc = "lost"
  BY DEF Idle, Request, Answered
<1>e. req' = [r \in Requests |-> IF req[r].pc \in Waiting THEN lost ELSE req[r]]
  BY DEF Restart
<1> HIDE DEF lost
<1>2. \A r \in Requests : /\ req[r].pc \in Waiting => req'[r] = lost
                          /\ req[r].pc \notin Waiting => req'[r] = req[r]
  <2> TAKE r \in Requests
  <2>1. req'[r] = IF req[r].pc \in Waiting THEN lost ELSE req[r]
    BY <1>e, Zenon
  <2> QED
    BY <2>1, Zenon
<1>4. req' \in [Requests -> Request]
  BY <1>3, <1>e DEF IInv, TypeOK
<1>5. \A r \in Requests : /\ req'[r].pc \notin Waiting /\ req'[r].pc \notin Naming
                           /\ (req[r].pc \notin Waiting => req'[r] = req[r])
                           /\ (req[r].pc \in Waiting => req'[r].pc = "lost")
  BY <1>2, <1>3 DEF Waiting, Naming
<1>6. TypeOK'
  BY <1>1, <1>4 DEF IInv, TypeOK
<1>7. Carried' /\ Held' /\ Reserved'
  BY <1>5 DEF Carried, Held, Reserved, Waiting, Naming
<1>8. ConflictsResolve'
  BY <1>1, <1>5 DEF IInv, ConflictsResolve, Waiting
<1>9. AccessIsEarned'
  <2>1. \A r \in Requests : req'[r].pc \in {"ok", "refused"} => req'[r] = req[r]
    BY <1>5
  <2>2. \A r \in Requests : req[r].pc \in {"ok", "refused"} => req'[r] = req[r]
    BY <1>5 DEF Waiting
  <2>3. \A r \in Requests, a \in accounts : Proved(r, a) => Proved(r, a)'
    BY <2>2 DEF Proved
  <2>4. \A r \in Requests : req'[r].pc = "ok" => \E a \in accounts' : Proved(r, a)'
    BY <1>1, <2>1, <2>3 DEF IInv, AccessIsEarned
  <2>5. \A r \in Requests : req'[r].pc = "refused" =>
          \E a \in accounts' : a.username = req'[r].name /\ a.hash # req'[r].pass
    BY <1>1, <2>1 DEF IInv, AccessIsEarned
  <2>6. \A t \in tokens' : \E a \in accounts', r \in Requests : a.id = t.sub /\ Proved(r, a)'
    BY <1>1, <2>3 DEF IInv, AccessIsEarned
  <2> QED
    BY <1>1, <2>4, <2>5, <2>6 DEF AccessIsEarned
<1> QED
  BY <1>6, <1>7, <1>8, <1>9 DEF IInv

LEMMA StepIInv == IInv /\ [Next]_vars => IInv'
<1> SUFFICES ASSUME IInv, [Next]_vars PROVE IInv'
  OBVIOUS
<1>1. ASSUME NEW t \in tokens, Authorise(t) PROVE IInv'
  <2>1. caller' \in {t.sub, None} /\ t.sub \in Requests
    BY <1>1 DEF Authorise, Subject, IInv, TypeOK, Claims
  <2>2. UNCHANGED <<now, restarts, ttl, limiter, accounts, req, tokens>>
    BY <1>1 DEF Authorise
  <2> QED
    BY <1>1, <2>1, <2>2
    DEF IInv, TypeOK, Carried, Held, Reserved, ConflictsResolve, AccessIsEarned, Named, Proved,
        limiter
<1>2. CASE Tick
  BY <1>2
  DEF Tick, IInv, TypeOK, Carried, Held, Reserved, ConflictsResolve, AccessIsEarned, Named, Proved,
      limiter
<1>3. CASE UNCHANGED vars
  BY <1>3
  DEF vars, IInv, TypeOK, Carried, Held, Reserved, ConflictsResolve, AccessIsEarned, Named, Proved
<1> QED
  BY <1>1, <1>2, <1>3, MovesIInv, RestartIInv DEF Next, Moves

THEOREM Invariant == Spec => []IInv
BY InitIInv, StepIInv, PTL DEF Spec

(* Every reachable state is well typed.                                    *)
THEOREM TypeCorrect == Spec => []TypeOK
<1>1. IInv => TypeOK
  BY DEF IInv
<1> QED
  BY <1>1, Invariant, PTL

(* However many requests race for a username, whoever is served as an      *)
(* account has proved its password (AuthAccessService.access).             *)
THEOREM AccessCorrect == Spec => []AccessIsEarned
<1>1. IInv => AccessIsEarned
  BY DEF IInv
<1> QED
  BY <1>1, Invariant, PTL

(* A username never gets two accounts, and _read_conflict_winner always    *)
(* finds the one that won.                                                 *)
THEOREM ConflictsCorrect == Spec => []ConflictsResolve
<1>1. IInv => ConflictsResolve
  BY DEF IInv
<1> QED
  BY <1>1, Invariant, PTL


(* AuthAccessService.access: one account per username, and only for those who know its password. *)
THEOREM AccountsCorrect == Spec => []AccountsAreSound
BY AccessCorrect, ConflictsCorrect, PTL DEF AccountsAreSound
-----------------------------------------------------------------------------
(***************************************************************************)
(* The limiter's windows.  A queue that has been pruned may have forgotten *)
(* admissions, but never one that is still in the window that ends now:    *)
(* each of those has an entry of its own in the queue, with its time.  So  *)
(* a queue shorter than the limit means that the window has room for one   *)
(* admission more, and windows that end earlier are not touched by it.     *)
(***************************************************************************)
Tracks(q, events) ==
    \E entry \in [events -> 1 .. Len(q)] :
        /\ \A e \in events : q[entry[e]] = e[3]
        /\ \A d, e \in events : entry[d] = entry[e] => d = e

Recent == {e \in admitted : e[3] > now - Window}
RecentOf(c) == {e \in Recent : e[2] = c}

QueuesKnow == Tracks(global, Recent) /\ \A c \in Clients : Tracks(client[c], RecentOf(c))

WindowInv == QueuesKnow /\ WindowBounds

LEMMA TracksFewer ==
    ASSUME NEW q, NEW events, NEW fewer \in SUBSET events, Tracks(q, events)
    PROVE  Tracks(q, fewer)
<1>1. PICK entry \in [events -> 1 .. Len(q)] :
        /\ \A e \in events : q[entry[e]] = e[3]
        /\ \A d, e \in events : entry[d] = entry[e] => d = e
  BY DEF Tracks
<1>2. [e \in fewer |-> entry[e]] \in [fewer -> 1 .. Len(q)]
  BY <1>1
<1> QED BY <1>1, <1>2 DEF Tracks

LEMMA TracksBound ==
    ASSUME NEW q \in Seq(Nat), NEW events, Tracks(q, events)
    PROVE  IsFiniteSet(events) /\ Cardinality(events) \in Nat /\ Cardinality(events) <= Len(q)
<1>1. PICK entry \in [events -> 1 .. Len(q)] :
        /\ \A e \in events : q[entry[e]] = e[3]
        /\ \A d, e \in events : entry[d] = entry[e] => d = e
  BY DEF Tracks
<1>2. entry \in Injection(events, 1 .. Len(q))
  BY <1>1 DEF Injection, IsInjective
<1>3. IsFiniteSet(1 .. Len(q)) /\ Cardinality(1 .. Len(q)) = Len(q)
  <2>1. Len(q) \in Nat
    OBVIOUS
  <2>2. IsFiniteSet(1 .. Len(q)) /\ Cardinality(1 .. Len(q)) = IF 1 > Len(q) THEN 0 ELSE Len(q) - 1 + 1
    BY <2>1, FS_Interval
  <2> QED BY <2>1, <2>2
<1> QED BY <1>2, <1>3, FS_Injection, FS_CardinalityType

(* Pruning drops the entry of no admission that is still in the window.     *)
LEMMA TracksPrune ==
    ASSUME now \in Nat, NEW q \in Seq(Nat), NEW events, Tracks(q, events),
           \A e \in events : e[3] > now - Window
    PROVE  Tracks(Prune(q), events)
<1> DEFINE newer == {i \in 1..Len(q) : q[i] > now - Window}
           first == CHOOSE i \in newer : \A j \in newer : i <= j
           shifted(entry) == [e \in events |-> entry[e] - first + 1]
<1>1. PICK entry \in [events -> 1 .. Len(q)] :
        /\ \A e \in events : q[entry[e]] = e[3]
        /\ \A d, e \in events : entry[d] = entry[e] => d = e
  BY DEF Tracks
<1>2. \A e \in events : entry[e] \in newer
  BY <1>1
<1>3. CASE newer = {}
  <2>1. events = {}
    BY <1>2, <1>3
  <2>2. [e \in events |-> 1] \in [events -> 1 .. Len(Prune(q))]
    BY <2>1
  <2> QED BY <2>1, <2>2 DEF Tracks
<1>4. CASE newer # {}
  <2>1. newer \in SUBSET Nat
    OBVIOUS
  <2>2. first \in newer /\ \A j \in newer : first <= j
    <3> HIDE DEF newer
    <3> QED BY <1>4, <2>1, Least
  <2>3. first \in 1 .. Len(q) /\ Prune(q) = SubSeq(q, first, Len(q))
    BY <1>4, <2>2 DEF Prune
  <2> HIDE DEF newer, first
  <2>4. /\ Len(Prune(q)) = Len(q) - first + 1
        /\ \A i \in 1 .. Len(q) - first + 1 : Prune(q)[i] = q[first + i - 1]
    BY <2>3
  <2>5. \A e \in events : entry[e] \in Nat /\ first <= entry[e] /\ entry[e] <= Len(q)
    BY <1>1, <1>2, <2>2
  <2>6. \A e \in events : /\ entry[e] - first + 1 \in 1 .. Len(Prune(q))
                          /\ Prune(q)[entry[e] - first + 1] = q[entry[e]]
    BY <2>3, <2>4, <2>5
  <2>7. shifted(entry) \in [events -> 1 .. Len(Prune(q))]
    BY <2>6
  <2>8. \A d, e \in events : shifted(entry)[d] = shifted(entry)[e] => d = e
    BY <1>1, <2>3, <2>5
  <2>9. \A e \in events : Prune(q)[shifted(entry)[e]] = e[3]
    BY <1>1, <2>6
  <2> HIDE DEF shifted
  <2> QED BY <2>7, <2>8, <2>9 DEF Tracks
<1> QED BY <1>3, <1>4

LEMMA TracksAppend ==
    ASSUME NEW q \in Seq(Nat), NEW events, Tracks(q, events), NEW time \in Nat,
           NEW x, x[3] = time
    PROVE  Tracks(Append(q, time), events \cup {x})
<1> DEFINE longer == Append(q, time)
           add(entry) == [e \in events \cup {x} |-> IF e = x THEN Len(q) + 1 ELSE entry[e]]
<1>1. PICK entry \in [events -> 1 .. Len(q)] :
        /\ \A e \in events : q[entry[e]] = e[3]
        /\ \A d, e \in events : entry[d] = entry[e] => d = e
  BY DEF Tracks
<1>2. /\ Len(longer) = Len(q) + 1 /\ longer[Len(q) + 1] = time
      /\ \A i \in 1 .. Len(q) : longer[i] = q[i]
  OBVIOUS
<1>3. add(entry) \in [events \cup {x} -> 1 .. Len(longer)]
  BY <1>1, <1>2
<1>4. \A d, e \in events \cup {x} : add(entry)[d] = add(entry)[e] => d = e
  BY <1>1
<1>5. \A e \in events \cup {x} : longer[add(entry)[e]] = e[3]
  BY <1>1, <1>2
<1> HIDE DEF longer, add
<1> QED BY <1>3, <1>4, <1>5 DEF Tracks, longer

LEMMA OneMore ==
    ASSUME NEW S, IsFiniteSet(S), NEW x
    PROVE  /\ IsFiniteSet(S \cup {x}) /\ Cardinality(S) \in Nat
           /\ Cardinality(S \cup {x}) \in Nat /\ Cardinality(S \cup {x}) <= Cardinality(S) + 1
<1>1. IsFiniteSet(S \cup {x}) /\ Cardinality(S) \in Nat /\ Cardinality(S \cup {x}) \in Nat
  BY FS_AddElement, FS_CardinalityType
<1>2. Cardinality(S \cup {x}) = IF x \in S THEN Cardinality(S) ELSE Cardinality(S) + 1
  BY FS_AddElement
<1> QED BY <1>1, <1>2

(* No other step shortens a queue, and time only takes admissions out of    *)
(* the window.                                                              *)
LEMMA WaitWindow ==
    ASSUME TypeOK, WindowInv, now' \in Nat, now <= now', UNCHANGED limiter
    PROVE  WindowInv'
<1>1. Recent' \in SUBSET Recent /\ \A c \in Clients : RecentOf(c)' \in SUBSET RecentOf(c)
  <2>1. \A e \in admitted : e[3] \in Nat
    BY DEF TypeOK
  <2>2. now \in Nat /\ Window \in Nat
    BY ConstantsAssumption DEF TypeOK
  <2> QED BY <2>1, <2>2 DEF Recent, RecentOf, limiter
<1>2. Tracks(global, Recent') /\ \A c \in Clients : Tracks(client[c], RecentOf(c)')
  BY <1>1, TracksFewer DEF WindowInv, QueuesKnow
<1>3. QueuesKnow'
  BY <1>2 DEF QueuesKnow, limiter, Tracks
<1>4. WindowBounds'
  BY DEF WindowInv, WindowBounds, limiter
<1> QED BY <1>3, <1>4 DEF WindowInv

LEMMA AdmitWindow ==
    ASSUME IInv, WindowInv, NEW r \in Requests, Admit(r)
    PROVE  WindowInv'
<1> SUFFICES ASSUME NEW from, from = req[r].from, NEW x, x = <<r, from, now>> PROVE WindowInv'
  OBVIOUS
<1> DEFINE g == Prune(global)
           q(c) == Prune(client[c])
<1>0. /\ now \in Nat /\ global \in Seq(Nat) /\ client \in [Clients -> Seq(Nat)] /\ now' = now
      /\ Window \in Nat /\ Window > 0 /\ ClientLimit \in Nat /\ GlobalLimit \in Nat
      /\ \A e \in admitted : e[3] \in Nat
  BY ConstantsAssumption DEF IInv, TypeOK, Admit, session
<1>1. from \in Clients
  BY DEF IInv, Carried, Admit, Waiting
<1>2. /\ g \in Seq(Nat) /\ Tracks(g, Recent)
      /\ \A c \in Clients : q(c) \in Seq(Nat) /\ Tracks(q(c), RecentOf(c))
  <2>1. \A e \in Recent : e[3] > now - Window
    BY DEF Recent
  <2>2. \A c \in Clients : \A e \in RecentOf(c) : e[3] > now - Window
    BY DEF RecentOf, Recent
  <2> QED BY <1>0, <2>1, <2>2, TracksPrune, PruneType DEF WindowInv, QueuesKnow
<1> HIDE DEF g, q
<1>3. CASE Len(g) < GlobalLimit /\ Len(q(from)) < ClientLimit
  <2>1. /\ global' = Append(g, now) /\ admitted' = admitted \cup {x}
        /\ client' = [[c \in Clients |-> q(c)] EXCEPT ![from] = Append(@, now)]
    BY <1>1, <1>3 DEF Admit, Allow, g, q
  <2>2. \A c \in Clients : client'[c] = IF c = from THEN Append(q(c), now) ELSE q(c)
    BY <2>1
  <2>3. Recent' = Recent \cup {x}
    BY <1>0, <2>1 DEF Recent
  <2>4. \A c \in Clients : RecentOf(c)' = IF c = from THEN RecentOf(c) \cup {x} ELSE RecentOf(c)
    BY <2>3 DEF RecentOf
  <2>5. QueuesKnow'
    <3>1. Tracks(Append(g, now), Recent \cup {x})
      BY <1>0, <1>2, TracksAppend
    <3>2. Tracks(Append(q(from), now), RecentOf(from) \cup {x})
      BY <1>0, <1>1, <1>2, TracksAppend
    <3>3. \A c \in Clients : Tracks(client'[c], RecentOf(c)')
      <4> QED BY <1>2, <2>2, <2>4, <3>2
    <3>4. Tracks(global', Recent')
      BY <2>1, <2>3, <3>1
    <3> QED BY <3>3, <3>4 DEF QueuesKnow, Tracks
  <2>6. /\ IsFiniteSet(Recent') /\ Cardinality(Recent') \in Nat
        /\ Cardinality(Recent') <= GlobalLimit
    <3>1. IsFiniteSet(Recent) /\ Cardinality(Recent) \in Nat /\ Cardinality(Recent) <= Len(g)
      BY <1>2, TracksBound
    <3>2. /\ IsFiniteSet(Recent \cup {x}) /\ Cardinality(Recent \cup {x}) \in Nat
          /\ Cardinality(Recent \cup {x}) <= Cardinality(Recent) + 1
      BY <3>1, OneMore
    <3>3. Len(g) \in Nat
      BY <1>2
    <3> QED BY <1>0, <1>3, <2>3, <3>1, <3>2, <3>3
  <2>7. /\ IsFiniteSet(RecentOf(from)') /\ Cardinality(RecentOf(from)') <= ClientLimit
        /\ Cardinality(RecentOf(from)') \in Nat
    <3>1. /\ IsFiniteSet(RecentOf(from)) /\ Cardinality(RecentOf(from)) \in Nat
          /\ Cardinality(RecentOf(from)) <= Len(q(from))
      BY <1>1, <1>2, TracksBound
    <3>2. /\ IsFiniteSet(RecentOf(from) \cup {x}) /\ Cardinality(RecentOf(from) \cup {x}) \in Nat
          /\ Cardinality(RecentOf(from) \cup {x}) <= Cardinality(RecentOf(from)) + 1
      BY <3>1, OneMore
    <3>3. Len(q(from)) \in Nat
      BY <1>1, <1>2
    <3>4. RecentOf(from)' = RecentOf(from) \cup {x}
      BY <2>3 DEF RecentOf
    <3> QED BY <1>0, <1>3, <3>1, <3>2, <3>3, <3>4
  <2>8. WindowBounds'
    <3> SUFFICES ASSUME NEW t \in 0 .. MaxTime
                 PROVE  LET inside == {e \in admitted' : t - Window < e[3] /\ e[3] <= t} IN
                        /\ Cardinality(inside) <= GlobalLimit
                        /\ \A c \in Clients : Cardinality({e \in inside : e[2] = c}) <= ClientLimit
      BY DEF WindowBounds
    <3> DEFINE inside == {e \in admitted : t - Window < e[3] /\ e[3] <= t}
               after == {e \in admitted' : t - Window < e[3] /\ e[3] <= t}
    <3>1. CASE t < now
      <4>1. after = inside
        BY <1>0, <2>1, <3>1
      <4> QED BY <4>1 DEF WindowInv, WindowBounds
    <3>2. CASE t >= now
      <4>1. after \in SUBSET Recent'
        BY <1>0, <2>1, <3>2 DEF Recent
      <4>2. Cardinality(after) <= GlobalLimit
        <5>1. Cardinality(after) \in Nat /\ Cardinality(after) <= Cardinality(Recent')
          BY <2>6, <4>1, FS_Subset, FS_CardinalityType
        <5> HIDE DEF after
        <5> QED BY <1>0, <2>6, <5>1
      <4>3. ASSUME NEW c \in Clients PROVE Cardinality({e \in after : e[2] = c}) <= ClientLimit
        <5>1. CASE c = from
          <6>1. {e \in after : e[2] = c} \in SUBSET RecentOf(c)'
            BY <4>1 DEF RecentOf
          <6>2. /\ IsFiniteSet(RecentOf(c)') /\ Cardinality(RecentOf(c)') <= ClientLimit
                /\ Cardinality(RecentOf(c)') \in Nat
            BY <2>7, <5>1
          <6> DEFINE mine == {e \in after : e[2] = c}
          <6>3. Cardinality(mine) \in Nat /\ Cardinality(mine) <= Cardinality(RecentOf(c)')
            BY <6>1, <6>2, FS_Subset, FS_CardinalityType
          <6> HIDE DEF mine
          <6>4. Cardinality(mine) <= ClientLimit
            BY <1>0, <6>2, <6>3
          <6> QED BY <6>4 DEF mine
        <5>2. CASE c # from
          <6>1. {e \in after : e[2] = c} = {e \in inside : e[2] = c}
            BY <2>1, <5>2
          <6> QED BY <6>1 DEF WindowInv, WindowBounds
        <5> QED BY <5>1, <5>2
      <4> QED BY <4>2, <4>3
    <3>3. t < now \/ t >= now
      BY <1>0
    <3> QED BY <3>1, <3>2, <3>3
  <2> QED BY <2>5, <2>8 DEF WindowInv
<1>4. CASE ~ (Len(g) < GlobalLimit /\ Len(q(from)) < ClientLimit)
  <2>1. /\ global' = g /\ admitted' = admitted
        /\ client' = [c \in Clients |-> q(c)]
    BY <1>1, <1>4 DEF Admit, Allow, g, q
  <2>2. Recent' = Recent /\ \A c \in Clients : RecentOf(c)' = RecentOf(c)
    BY <1>0, <2>1 DEF Recent, RecentOf
  <2>3. QueuesKnow'
    <3>1. \A c \in Clients : Tracks(client'[c], RecentOf(c)')
      BY <1>2, <2>1, <2>2
    <3>2. Tracks(global', Recent')
      BY <1>2, <2>1, <2>2
    <3> QED BY <3>1, <3>2 DEF QueuesKnow, Tracks
  <2>4. WindowBounds'
    BY <2>1 DEF WindowInv, WindowBounds
  <2> QED BY <2>3, <2>4 DEF WindowInv
<1> QED BY <1>3, <1>4

(* A limiter that starts, with the process, has admitted nobody.            *)
Fresh == global = <<>> /\ client = [c \in Clients |-> <<>>] /\ admitted = {}

LEMMA FreshWindow == Fresh => WindowInv
<1> SUFFICES ASSUME Fresh PROVE WindowInv
  OBVIOUS
<1> USE DEF Fresh
<1>1. Recent = {} /\ \A c \in Clients : RecentOf(c) = {}
  BY DEF Recent, RecentOf
<1>2. \A q : Tracks(q, {})
  <2> TAKE q
  <2>1. [e \in {} |-> 1] \in [{} -> 1 .. Len(q)]
    OBVIOUS
  <2> QED BY <2>1 DEF Tracks
<1>3. WindowBounds
  <2> SUFFICES ASSUME NEW t \in 0 .. MaxTime
               PROVE  LET inside == {e \in admitted : t - Window < e[3] /\ e[3] <= t} IN
                      /\ Cardinality(inside) <= GlobalLimit
                      /\ \A c \in Clients : Cardinality({e \in inside : e[2] = c}) <= ClientLimit
    BY DEF WindowBounds
  <2> DEFINE inside == {e \in admitted : t - Window < e[3] /\ e[3] <= t}
  <2>1. inside = {} /\ \A c : {e \in inside : e[2] = c} = {}
    OBVIOUS
  <2>2. Cardinality({}) = 0 /\ 0 <= GlobalLimit /\ 0 <= ClientLimit
    BY FS_EmptySet, ConstantsAssumption
  <2> HIDE DEF inside
  <2> QED BY <2>1, <2>2 DEF inside
<1> QED BY <1>1, <1>2, <1>3 DEF WindowInv, QueuesKnow

LEMMA RestartWindow == Fresh' => WindowInv'
BY FreshWindow, PTL

LEMMA StepWindow ==
    ASSUME IInv, IInv', WindowInv, [Next]_vars
    PROVE  WindowInv'
<1>0. now \in Nat /\ now' \in Nat
  BY DEF IInv, TypeOK
<1>1. ASSUME NEW r \in Requests, Moves(r) PROVE WindowInv'
  <2>1. CASE Admit(r)
    BY <2>1, AdmitWindow
  <2>2. CASE ~ Admit(r)
    <3>1. UNCHANGED limiter /\ now' = now
      BY <1>1, <2>2
      DEF Moves, Step, Arrive, ReadFirst, Reread, Insert, Commit, ReadConflictWinner, Answer,
          DatabaseFails, session
    <3> QED BY <1>0, <3>1, WaitWindow DEF IInv
  <2> QED BY <2>1, <2>2
<1>2. ASSUME (\E t \in tokens : Authorise(t)) \/ Tick \/ UNCHANGED vars PROVE WindowInv'
  <2>1. UNCHANGED limiter /\ now <= now'
    BY <1>0, <1>2 DEF Authorise, Tick, vars, limiter
  <2> QED BY <1>0, <2>1, WaitWindow DEF IInv
<1>3. CASE Restart
  <2>1. Fresh'
    BY <1>3 DEF Restart, Fresh
  <2> QED BY <2>1, RestartWindow
<1> QED BY <1>1, <1>2, <1>3 DEF Next, Moves

(* AuthRateLimiter: no window, wherever it ends, holds more admissions than *)
(* the policy allows, although the queues forget what has left the window.  *)
THEOREM WindowsCorrect == Spec => []WindowBounds
<1>1. Init => WindowInv
  BY FreshWindow DEF Init, Fresh
<1>2. WindowInv => WindowBounds
  BY DEF WindowInv
<1> QED BY <1>1, <1>2, StepWindow, Invariant, PTL DEF Spec
=============================================================================
