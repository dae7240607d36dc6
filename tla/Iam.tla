--------------------------------- MODULE Iam ---------------------------------
(***************************************************************************)
(* The IAM service: Register, Login, Whoami and Logout over the users      *)
(* table in PostgreSQL and the session hashes in Redis.                    *)
(*                                                                         *)
(* A slot is one running handler; several run at once, in one or several   *)
(* clients' interest.  Each access to a store is one step: between two of  *)
(* them other handlers run, time passes, and the handler may be cut off (a *)
(* store's error, a cancelled context, a crash).  Storing a session takes  *)
(* two commands, HSET and then EXPIREAT.                                   *)
(*                                                                         *)
(* bcrypt is modelled by what its comparison tells: the stored hash matches*)
(* the password it was made from and no other.                             *)
(***************************************************************************)
EXTENDS Naturals, FiniteSets

CONSTANTS
  Logins, Passwords,
  Empty,        \* the empty string
  Weak,         \* passwords of fewer than eight bytes
  Unhashable,   \* passwords of more than 72 bytes, which bcrypt refuses
  Sessions,     \* session uuids: Login draws a fresh one
  Slots,
  None,
  TTL,          \* session lifetime, in ticks
  MaxTime,      \* bound: the last tick
  MaxFaults     \* bound: handlers cut off

ASSUME IamAssumption ==
  /\ Weak \subseteq Passwords /\ Unhashable \subseteq Passwords
  /\ None \notin Logins \cup Passwords \cup Sessions
  /\ TTL \in Nat /\ MaxTime \in Nat /\ MaxFaults \in Nat

VARIABLES
  users,    \* the users table: a login and the password behind the hash
  store,    \* the session hashes in Redis: the user's row and Redis's own expiry
  opened,   \* what each session was opened with, and the expiresAt Login computed
  issued,   \* sessions handed to a client
  revoked,  \* sessions whose Logout has been answered
  task,     \* the handler in each slot
  reply,    \* the last answer of each slot
  clock,
  faults

vars == <<users, store, opened, issued, revoked, task, reply, clock, faults>>

Codes == {"OK", "InvalidArgument", "AlreadyExists", "Unauthenticated", "Internal"}

Ops == {"Register", "Login", "Whoami", "Logout"}

User == [login : Logins, password : Passwords]

\* expires is the field of the hash, ttl what EXPIREAT has set on the key.
Stored == [user : User, expires : Nat, ttl : Nat \cup {None}]

Opened == [user : User, expires : Nat]

ASSUME NoneAssumption == None \notin Nat /\ None \notin Stored /\ None \notin Opened

Idle == [op |-> "none", user |-> None, session |-> None, pc |-> "idle", dead |-> FALSE]

\* dead: the session had been revoked when the request came in.
TaskSet == [op : Ops, user : User \cup {None},
            session : Sessions \cup {None}, pc : {"insert", "get", "hset", "expire", "read", "del"},
            dead : BOOLEAN]

NoReply == [op |-> "none", code |-> "none", session |-> None, user |-> None, at |-> 0, dead |-> FALSE]

ReplySet == [op : Ops \cup {"none"}, code : Codes, session : Sessions \cup {None},
             user : User \cup {None}, at : Nat, dead : BOOLEAN]

Init ==
  /\ users = {}
  /\ store = [s \in Sessions |-> None]
  /\ opened = [s \in Sessions |-> None]
  /\ issued = {} /\ revoked = {}
  /\ task = [k \in Slots |-> Idle]
  /\ reply = [k \in Slots |-> NoReply]
  /\ clock = 0
  /\ faults = 0

\* Redis shows a key until its expiry, and for ever if it has none.
Visible(s) == store[s] # None /\ (store[s].ttl # None => clock < store[s].ttl)

Begin(k, op, u, s, pc) ==
  /\ task[k] = Idle
  /\ task' = [task EXCEPT ![k] =
                [op |-> op, user |-> u, session |-> s, pc |-> pc, dead |-> s \in revoked]]
  /\ reply' = [reply EXCEPT ![k] = NoReply]

Reply(k, code, u) ==
  /\ reply' = [reply EXCEPT ![k] =
                 [op |-> task[k].op, code |-> code, session |-> task[k].session, user |-> u,
                  at |-> clock, dead |-> task[k].dead]]
  /\ task' = [task EXCEPT ![k] = Idle]

Goto(k, s, pc) ==
  /\ task' = [task EXCEPT ![k] =
                [op |-> @.op, user |-> @.user, session |-> s, pc |-> pc, dead |-> @.dead]]
  /\ UNCHANGED reply

\* The store has done its part, but the handler does not learn of it.
Lost(k) ==
  /\ faults < MaxFaults /\ faults' = faults + 1
  /\ Reply(k, "Internal", None)

\* The answer to a request that is turned away before any store is asked.
Refuse(k, code) ==
  /\ task[k] = Idle
  /\ Reply(k, code, None)
  /\ UNCHANGED <<users, store, opened, issued, revoked, clock, faults>>
-----------------------------------------------------------------------------
(* Register *)

RegisterRefused(k, u) ==
  \/ (u.login = Empty \/ u.password = Empty \/ u.password \in Weak) /\ Refuse(k, "InvalidArgument")
  \/ u.login # Empty /\ u.password \in Unhashable /\ Refuse(k, "Internal")

Register(k, u) ==
  /\ u.login # Empty /\ u.password \notin {Empty} \cup Weak \cup Unhashable
  /\ Begin(k, "Register", u, None, "insert")
  /\ UNCHANGED <<users, store, opened, issued, revoked, clock, faults>>

Taken(login) == \E v \in users : v.login = login

\* Mutant: the table has no unique index on the login.
CreateUserAgain(k) ==
  /\ task[k].pc = "insert"
  /\ users' = users \cup {task[k].user}
  /\ Reply(k, "OK", task[k].user)
  /\ UNCHANGED <<store, opened, issued, revoked, clock, faults>>

\* INSERT INTO users, under the unique index on the login.
CreateUser(k) ==
  /\ task[k].pc = "insert"
  /\ ~Taken(task[k].user.login)
  /\ users' = users \cup {task[k].user}
  /\ \/ Reply(k, "OK", task[k].user) /\ UNCHANGED faults
     \/ Lost(k)
  /\ UNCHANGED <<store, opened, issued, revoked, clock>>

\* The index refuses the row: SQLSTATE 23505.
UserExists(k) ==
  /\ task[k].pc = "insert"
  /\ Taken(task[k].user.login)
  /\ Reply(k, "AlreadyExists", None)
  /\ UNCHANGED <<users, store, opened, issued, revoked, clock, faults>>
-----------------------------------------------------------------------------
(* Login *)

LoginRefused(k, u) == (u.login = Empty \/ u.password = Empty) /\ Refuse(k, "InvalidArgument")

\* Bound: uuids are left for the logins under way.
UuidsLeft ==
  Cardinality({s \in Sessions : opened[s] = None}) > Cardinality({k \in Slots : task[k].pc = "get"})

Login(k, u) ==
  /\ UuidsLeft
  /\ u.login # Empty /\ u.password # Empty
  /\ Begin(k, "Login", u, None, "get")
  /\ UNCHANGED <<users, store, opened, issued, revoked, clock, faults>>

\* GetByLogin finds no row, or the password does not match the hash.
LoginDenied(k) ==
  /\ task[k].pc = "get"
  /\ task[k].user \notin users
  /\ Reply(k, "Unauthenticated", None)
  /\ UNCHANGED <<users, store, opened, issued, revoked, clock, faults>>

\* The password matches; a session uuid is drawn and Set computes expiresAt.
LoginMatched(k, s) ==
  /\ task[k].pc = "get"
  /\ task[k].user \in users
  /\ opened[s] = None
  /\ opened' = [opened EXCEPT ![s] = [user |-> task[k].user, expires |-> clock + TTL]]
  /\ Goto(k, s, "hset")
  /\ UNCHANGED <<users, store, issued, revoked, clock, faults>>

HSet(k) ==
  LET s == task[k].session IN
  /\ task[k].pc = "hset"
  /\ store' = [store EXCEPT ![s] =
                 [user |-> opened[s].user, expires |-> opened[s].expires, ttl |-> None]]
  /\ Goto(k, s, "expire")
  /\ UNCHANGED <<users, opened, issued, revoked, clock, faults>>

\* Mutant: the session is stored and answered without EXPIREAT.
ExpireAtForgotten(k) ==
  /\ task[k].pc = "expire"
  /\ issued' = issued \cup {task[k].session}
  /\ Reply(k, "OK", task[k].user)
  /\ UNCHANGED <<users, store, opened, revoked, clock, faults>>

\* Mutant: the expiry counts from now, not from the time in the hash.
ExpireAtFromNow(k) ==
  LET s == task[k].session IN
  /\ task[k].pc = "expire"
  /\ store' = [store EXCEPT ![s] = [user |-> @.user, expires |-> @.expires, ttl |-> clock + TTL]]
  /\ issued' = issued \cup {s}
  /\ Reply(k, "OK", task[k].user)
  /\ UNCHANGED <<users, opened, revoked, clock, faults>>

\* EXPIREAT, and the session goes to the client.
ExpireAt(k) ==
  LET s == task[k].session IN
  /\ task[k].pc = "expire"
  /\ store' = [store EXCEPT ![s] = [user |-> @.user, expires |-> @.expires, ttl |-> @.expires]]
  /\ \/ Reply(k, "OK", task[k].user) /\ issued' = issued \cup {s} /\ UNCHANGED faults
     \/ Lost(k) /\ UNCHANGED issued
  /\ UNCHANGED <<users, opened, revoked, clock>>
-----------------------------------------------------------------------------
(* Whoami and Logout *)

\* A session id that is empty or no uuid.
SessionRefused(k) == Refuse(k, "InvalidArgument")

Whoami(k, s) ==
  /\ Begin(k, "Whoami", None, s, "read")
  /\ UNCHANGED <<users, store, opened, issued, revoked, clock, faults>>

\* HGETALL finds the hash.
SessionFound(k) ==
  LET s == task[k].session IN
  /\ task[k].pc = "read"
  /\ Visible(s)
  /\ Reply(k, "OK", store[s].user)
  /\ UNCHANGED <<users, store, opened, issued, revoked, clock, faults>>

\* HGETALL returns nothing: the view has no session uuid.
SessionNotFound(k) ==
  /\ task[k].pc = "read"
  /\ ~Visible(task[k].session)
  /\ Reply(k, "Unauthenticated", None)
  /\ UNCHANGED <<users, store, opened, issued, revoked, clock, faults>>

Logout(k, s) ==
  /\ Begin(k, "Logout", None, s, "del")
  /\ UNCHANGED <<users, store, opened, issued, revoked, clock, faults>>

\* Mutant: Logout leaves the hash to its expiry.
DeleteNothing(k) ==
  /\ task[k].pc = "del"
  /\ revoked' = revoked \cup {task[k].session}
  /\ Reply(k, "OK", None)
  /\ UNCHANGED <<users, store, opened, issued, clock, faults>>

\* DEL, whether or not the key exists.
Delete(k) ==
  /\ task[k].pc = "del"
  /\ store' = [store EXCEPT ![task[k].session] = None]
  /\ \/ Reply(k, "OK", None) /\ revoked' = revoked \cup {task[k].session} /\ UNCHANGED faults
     \/ Lost(k) /\ UNCHANGED revoked
  /\ UNCHANGED <<users, opened, issued, clock>>
-----------------------------------------------------------------------------
\* Mutant: the interceptor has no default branch.
CutUnmapped(k) ==
  /\ task[k] # Idle
  /\ faults < MaxFaults /\ faults' = faults + 1
  /\ Reply(k, "Unknown", None)
  /\ UNCHANGED <<users, store, opened, issued, revoked, clock>>

\* A store fails, the caller goes away or the process dies.  A Login whose
\* GetByLogin fails answers as for a wrong password.
Cut(k) ==
  /\ task[k] # Idle
  /\ faults < MaxFaults /\ faults' = faults + 1
  /\ Reply(k, IF task[k].pc = "get" THEN "Unauthenticated" ELSE "Internal", None)
  /\ UNCHANGED <<users, store, opened, issued, revoked, clock>>

Tick ==
  /\ clock < MaxTime
  /\ clock' = clock + 1
  /\ UNCHANGED <<users, store, opened, issued, revoked, task, reply, faults>>

Next ==
  \/ \E k \in Slots, u \in User :
       RegisterRefused(k, u) \/ Register(k, u) \/ LoginRefused(k, u) \/ Login(k, u)
  \/ \E k \in Slots, s \in issued : Whoami(k, s) \/ Logout(k, s)
  \/ \E k \in Slots, s \in Sessions : LoginMatched(k, s)
  \/ \E k \in Slots :
       \/ CreateUser(k) \/ UserExists(k) \/ LoginDenied(k) \/ HSet(k) \/ ExpireAt(k)
       \/ SessionRefused(k) \/ SessionFound(k) \/ SessionNotFound(k) \/ Delete(k)
       \/ Cut(k)
  \/ Tick

Spec == Init /\ [][Next]_vars
-----------------------------------------------------------------------------
TypeOK ==
  /\ users \subseteq User
  /\ store \in [Sessions -> Stored \cup {None}]
  /\ opened \in [Sessions -> Opened \cup {None}]
  /\ issued \subseteq Sessions /\ revoked \subseteq Sessions
  /\ task \in [Slots -> TaskSet \cup {Idle}]
  /\ reply \in [Slots -> ReplySet \cup {NoReply}]
  /\ clock \in 0 .. MaxTime
  /\ faults \in 0 .. MaxFaults

\* Of two registrations of a login that race, one wins, and only its password
\* opens sessions (register.go, login.go): all that Whoami vouches for under
\* one login comes from the same registration.
OneRegistrant ==
  \A k \in Slots, v \in users :
    reply[k].code = "OK" /\ reply[k].user # None /\ reply[k].user.login = v.login
      => reply[k].user = v

\* A session that a client has got expires, in Redis as in its expires_at,
\* whatever was cut off on the way (set.go: two commands).
IssuedExpire ==
  \A s \in issued : store[s] # None => store[s].ttl = opened[s].expires

\* Whoami has vouched for the session.
Vouched(k) == reply[k].op = "Whoami" /\ reply[k].code = "OK"

\* Whoami vouches for a session only within TTL of its Login.
VouchedInTime ==
  \A k \in Slots : Vouched(k) => reply[k].at < opened[reply[k].session].expires

\* A revoked session stops working at once (docs/auth.md): a Whoami that comes
\* in after the answer to a Logout is not vouched for.
RevokedAtOnce == \A k \in Slots : Vouched(k) => ~reply[k].dead
=============================================================================
