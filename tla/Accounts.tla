------------------------------ MODULE Accounts ------------------------------
(***************************************************************************)
(* POST /api/v1/auth/access: the sliding-window limiter in front of it,     *)
(* AuthAccessService.access behind it, and the access tokens it issues.     *)
(* A request runs in a thread of its own; what it reads of the database is  *)
(* read in one transaction and used in a later one, with a slow hash in     *)
(* between, so that two first logins of one username race.                  *)
(*                                                                         *)
(* A hash is represented by the password it was made of: all the code does  *)
(* with one is ask whether a password verifies against it.  An account id   *)
(* is the request that generated it: ids are fresh.                         *)
(***************************************************************************)
EXTENDS Integers, Sequences, FiniteSets

CONSTANTS
    Requests,     \* HTTP requests, each of them made once
    Clients,      \* remote hosts, the keys of the limiter
    Spellings,    \* usernames as they are sent
    Stripped,     \* [Spellings -> usernames or None]: strip(), None when too short or long
    Passwords,    \* passwords as they are sent
    Unacceptable, \* the passwords AuthCredentials refuses
    Inputs,       \* what a request may carry, as <<request, client, spelling, password>>
    None,         \* no account, no username
    ClientLimit, GlobalLimit, Window,  \* RateLimitPolicy
    TTLs,         \* configured token lifetimes, one per start of the server
    MaxTime,      \* bound: the clock stops here
    MaxRestarts   \* bound: how often the server restarts

ASSUME ConstantsAssumption ==
    /\ ClientLimit \in Nat \ {0}
    /\ GlobalLimit \in Nat \ {0}
    /\ Window \in Nat \ {0}
    /\ TTLs \subseteq Nat \ {0}
    /\ MaxTime \in Nat
    /\ MaxRestarts \in Nat
    /\ Unacceptable \subseteq Passwords
    /\ Inputs \subseteq Requests \X Clients \X Spellings \X Passwords
    /\ None \notin Requests

VARIABLES
    now,       \* the clock, in ticks
    restarts,  \* how often the server has restarted
    ttl,       \* the configured lifetime of a token
    global,    \* _global_events: times of admitted requests, oldest first
    client,    \* _client_events: the same per client, <<>> when it has no entry
    admitted,  \* every admission since the start, as <<request, client, time>>
    accounts,  \* the committed rows
    req,       \* the requests
    tokens,    \* the tokens handed out, as claims
    caller     \* the account the last protected call ran as

vars == <<now, restarts, ttl, global, client, admitted, accounts, req, tokens, caller>>
limiter == <<global, client, admitted>>
session == <<restarts, ttl, now, caller>>

Usernames == {Stripped[s] : s \in Spellings} \ {None}
Account == [id : Requests, username : Usernames, hash : Passwords]
Claims == [sub : Requests, iat : Nat, exp : Nat]

Waiting == {"admit", "read", "reread", "insert", "commit", "winner", "verify", "created"}
Answered == {"ok", "bad_request", "refused", "limited", "failed", "lost"}

Idle == [pc |-> "idle", from |-> None, name |-> None, pass |-> None, seen |-> None]

Init ==
    /\ now = 0 /\ restarts = 0 /\ ttl \in TTLs
    /\ global = <<>> /\ client = [c \in Clients |-> <<>>] /\ admitted = {}
    /\ accounts = {} /\ tokens = {} /\ caller = None
    /\ req = [r \in Requests |-> Idle]

\* The request is answered without an account.
End(r, why) == req' = [req EXCEPT ![r] = [Idle EXCEPT !.pc = why]]

-----------------------------------------------------------------------------
(* AuthRateLimiter. *)

(* A plausible bug: an event is dropped one tick before it leaves the window. *)
PruneEarly(events) ==
    LET newer == {i \in 1..Len(events) : events[i] > now - Window + 1} IN
    IF newer = {} THEN <<>>
    ELSE SubSeq(events, CHOOSE i \in newer : \A j \in newer : i <= j, Len(events))

\* Entries are dropped from the head while they are not newer than the cutoff.
Prune(events) ==
    LET newer == {i \in 1..Len(events) : events[i] > now - Window} IN
    IF newer = {} THEN <<>>
    ELSE SubSeq(events, CHOOSE i \in newer : \A j \in newer : i <= j, Len(events))

\* allow(): prune every queue, then admit or not, under one lock.
Allow(r, c) ==
    LET g == Prune(global)
        q == [k \in Clients |-> Prune(client[k])] IN
    IF Len(g) < GlobalLimit /\ Len(q[c]) < ClientLimit
    THEN /\ global' = Append(g, now)
         /\ client' = [q EXCEPT ![c] = Append(@, now)]
         /\ admitted' = admitted \cup {<<r, c, now>>}
         /\ req' = [req EXCEPT ![r].pc = "read"]
    ELSE /\ global' = g
         /\ client' = q
         /\ UNCHANGED admitted
         /\ End(r, "limited")

-----------------------------------------------------------------------------
(* The route and AuthAccessService.access, one action per transaction. *)

Named(u) == {a \in accounts : a.username = u}

Arrive(r) ==
    /\ req[r].pc = "idle"
    /\ \E in \in Inputs :
         /\ in[1] = r
         /\ req' = [req EXCEPT ![r] = [pc |-> "admit", from |-> in[2], name |-> in[3],
                                       pass |-> in[4], seen |-> None]]
    /\ UNCHANGED <<limiter, accounts, tokens, session>>

Admit(r) ==
    /\ req[r].pc = "admit"
    /\ Allow(r, req[r].from)
    /\ UNCHANGED <<accounts, tokens, session>>

\* To hold an account found by username: its password is to be verified.
Found(r, u, a) == req' = [req EXCEPT ![r].pc = "verify", ![r].name = u, ![r].seen = a]

\* AuthCredentials: the stripped username and the password have acceptable lengths.
Acceptable(u, p) == u # None /\ p \notin Unacceptable

(* A plausible bug: the length of the stripped username is not checked. *)
ReadFirstUnchecked(r) ==
    /\ req[r].pc = "read"
    /\ LET u == Stripped[req[r].name] IN
       \/ \E a \in Named(u) : Found(r, u, a)
       \/ Named(u) = {} /\ req' = [req EXCEPT ![r].pc = "reread", ![r].name = u]
    /\ UNCHANGED <<limiter, accounts, tokens, session>>

\* AuthCredentials strips and checks the credentials, then _read_account reads.
ReadFirst(r) ==
    /\ req[r].pc = "read"
    /\ LET u == Stripped[req[r].name] IN
       \/ /\ ~Acceptable(u, req[r].pass)
          /\ End(r, "bad_request")
       \/ /\ Acceptable(u, req[r].pass)
          /\ \/ \E a \in Named(u) : Found(r, u, a)
             \/ Named(u) = {} /\ req' = [req EXCEPT ![r].pc = "reread", ![r].name = u]
    /\ UNCHANGED <<limiter, accounts, tokens, session>>

\* The hash has been made with no transaction open; the next one begins by reading again.
Reread(r) ==
    /\ req[r].pc = "reread"
    /\ \/ \E a \in Named(req[r].name) : Found(r, req[r].name, a)
       \/ Named(req[r].name) = {} /\ req' = [req EXCEPT ![r].pc = "insert"]
    /\ UNCHANGED <<limiter, accounts, tokens, session>>

\* The rows other transactions have inserted and not committed yet.
Uncommitted(u) == {o \in Requests : req[o].pc = "commit" /\ req[o].name = u}

(* A plausible bug: a conflict is met by trying the insert again. *)
InsertAgain(r) ==
    /\ req[r].pc = "insert"
    /\ Uncommitted(req[r].name) = {}
    /\ req' = [req EXCEPT ![r].pc = IF Named(req[r].name) = {} THEN "commit" ELSE "insert"]
    /\ UNCHANGED <<limiter, accounts, tokens, session>>

\* The flush waits for a transaction that holds the name; a committed one is a conflict.
Insert(r) ==
    /\ req[r].pc = "insert"
    /\ Uncommitted(req[r].name) = {}
    /\ req' = [req EXCEPT ![r].pc = IF Named(req[r].name) = {} THEN "commit" ELSE "winner"]
    /\ UNCHANGED <<limiter, accounts, tokens, session>>

\* A commit may be answered or not, and one that is not may have been made or not.
Commit(r) ==
    /\ req[r].pc = "commit"
    /\ LET row == [id |-> r, username |-> req[r].name, hash |-> req[r].pass] IN
       \/ /\ accounts' = accounts \cup {row}
          /\ req' = [req EXCEPT ![r].pc = "created", ![r].seen = row]
       \/ /\ accounts' = accounts \cup {row}
          /\ End(r, "failed")
       \/ /\ UNCHANGED accounts
          /\ End(r, "failed")
    /\ UNCHANGED <<limiter, tokens, session>>

(* A plausible bug: the winner's account is taken for the one the request made. *)
ReadWinnerTrusting(r) ==
    /\ req[r].pc = "winner"
    /\ \/ \E a \in Named(req[r].name) :
            req' = [req EXCEPT ![r].pc = "created", ![r].seen = a]
       \/ Named(req[r].name) = {} /\ End(r, "failed")
    /\ UNCHANGED <<limiter, accounts, tokens, session>>

\* UsernameConflictError: the winner is read in a transaction of its own, and verified.
ReadConflictWinner(r) ==
    /\ req[r].pc = "winner"
    /\ \/ \E a \in Named(req[r].name) : Found(r, req[r].name, a)
       \/ Named(req[r].name) = {} /\ End(r, "failed")
    /\ UNCHANGED <<limiter, accounts, tokens, session>>

\* JwtAccessTokenService.issue: the claims the signature covers.
Issued(a) == [sub |-> a.id, iat |-> now, exp |-> now + ttl]

\* The password is verified unless the request made the account itself; then
\* a token is issued for the account it holds.
Answer(r) ==
    /\ req[r].pc \in {"verify", "created"}
    /\ LET a == req[r].seen IN
       \/ /\ req[r].pc = "created" \/ a.hash = req[r].pass
          /\ tokens' = tokens \cup {Issued(a)}
          /\ req' = [req EXCEPT ![r].pc = "ok"]
       \/ /\ req[r].pc = "verify" /\ a.hash # req[r].pass
          /\ req' = [req EXCEPT ![r].pc = "refused"]
          /\ UNCHANGED tokens
    /\ UNCHANGED <<limiter, accounts, session>>

\* A database call fails: the transaction rolls back and the route answers 500.
DatabaseFails(r) ==
    /\ req[r].pc \in {"read", "reread", "insert", "winner"}
    /\ End(r, "failed")
    /\ UNCHANGED <<limiter, accounts, tokens, session>>

-----------------------------------------------------------------------------
(* Tokens in use, the clock, and the server's restart. *)

\* JwtAccessTokenService.verify: in its time, and issued under the lifetime now configured.
Subject(t) == IF t.iat <= now /\ now < t.exp /\ t.exp - t.iat = ttl THEN t.sub ELSE None

\* A protected route or session.hello resolves a token the server has handed out.
Authorise(t) ==
    /\ caller' = Subject(t)
    /\ UNCHANGED <<now, restarts, ttl, limiter, accounts, req, tokens>>

Tick ==
    /\ now < MaxTime
    /\ now' = now + 1
    /\ UNCHANGED <<restarts, ttl, limiter, accounts, req, tokens, caller>>

\* The process ends: its requests are never answered, its transactions roll back and
\* its limiter starts anew; the rows and the tokens remain.
Restart ==
    /\ restarts < MaxRestarts
    /\ restarts' = restarts + 1
    /\ ttl' \in TTLs
    /\ global' = <<>> /\ client' = [c \in Clients |-> <<>>] /\ admitted' = {}
    /\ req' = [r \in Requests |-> IF req[r].pc \in Waiting
                                  THEN [Idle EXCEPT !.pc = "lost"] ELSE req[r]]
    /\ caller' = None
    /\ UNCHANGED <<now, accounts, tokens>>

Step(r) ==
    \/ Admit(r) \/ ReadFirst(r) \/ Reread(r) \/ Insert(r)
    \/ Commit(r) \/ ReadConflictWinner(r) \/ Answer(r)

Next ==
    \/ \E r \in Requests : Arrive(r) \/ Step(r) \/ DatabaseFails(r)
    \/ \E t \in tokens : Authorise(t)
    \/ Tick
    \/ Restart

\* A request's thread keeps running.
Fairness == \A r \in Requests : WF_vars(Step(r))

Spec == Init /\ [][Next]_vars /\ Fairness

-----------------------------------------------------------------------------
(* Properties. *)

Request == [pc : {"idle"} \cup Waiting \cup Answered, from : Clients \cup {None},
            name : Spellings \cup Usernames \cup {None}, pass : Passwords \cup {None},
            seen : Account \cup {None}]

\* The type of the state.
TypeOK ==
    /\ now \in Nat /\ restarts \in Nat /\ ttl \in TTLs
    /\ global \in Seq(Nat)
    /\ client \in [Clients -> Seq(Nat)]
    /\ admitted \subseteq Requests \X Clients \X Nat
    /\ accounts \subseteq Account
    /\ tokens \subseteq Claims
    /\ caller \in Requests \cup {None}
    /\ req \in [Requests -> Request]

\* r proved that it knows the password of the account a.
Proved(r, a) == req[r].pc = "ok" /\ req[r].seen = a /\ req[r].name = a.username /\ req[r].pass = a.hash

\* Of the requests racing for one username, however they read and write: 200 goes to those
\* whose password is that of the one committed account, 401 only to others, and every token,
\* and every call made with one, is of an account whose password a request has proved.
AccessIsEarned ==
    /\ \A r \in Requests : req[r].pc = "ok" => \E a \in accounts : Proved(r, a)
    /\ \A r \in Requests : req[r].pc = "refused" =>
          \E a \in accounts : a.username = req[r].name /\ a.hash # req[r].pass
    /\ \A t \in tokens : \E a \in accounts, r \in Requests : a.id = t.sub /\ Proved(r, a)
    /\ caller # None => \E t \in tokens : t.sub = caller

\* A username has one account, and whoever lost the race for it finds the winner in the
\* transaction it opens to read it: _read_conflict_winner never raises.
ConflictsResolve ==
    /\ \A a, b \in accounts : a.username = b.username => a = b
    /\ \A r \in Requests : req[r].pc = "winner" => Named(req[r].name) # {}

\* Whatever races for it, an account is one person's.
AccountsAreSound == AccessIsEarned /\ ConflictsResolve

\* No window of Window ticks, wherever it ends, holds more admissions than the policy allows,
\* for one client or for all of them, while one process runs.
WindowBounds ==
    \A t \in 0..MaxTime :
        LET inside == {e \in admitted : t - Window < e[3] /\ e[3] <= t} IN
        /\ Cardinality(inside) <= GlobalLimit
        /\ \A c \in Clients : Cardinality({e \in inside : e[2] = c}) <= ClientLimit

\* Every request that arrives is answered, or lost with the process.
RequestsEnd == \A r \in Requests : (req[r].pc \in Waiting) ~> (req[r].pc \in Answered)

=============================================================================
