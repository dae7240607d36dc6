-------------------------- MODULE SessionChainProofs --------------------------
(***************************************************************************)
(* Proofs about Iam, for any number of logins, passwords, sessions and     *)
(* handlers, any lifetime of a session and any number of faults; and,      *)
(* based on its invariant, about SessionChain for any number of orders,    *)
(* sessions and handlers.                                                  *)
(***************************************************************************)
EXTENDS SessionChain, TLAPS
-----------------------------------------------------------------------------
(* The IAM service. *)

\* What each handler has to do with its session.
TaskShape ==
  \A k \in Slots :
    /\ task[k].pc \in {"insert", "get"} => task[k].user \in User /\ task[k].session = None
    /\ task[k].pc \in {"hset", "expire"} =>
         /\ task[k].user \in users
         /\ task[k].session \in Sessions \ issued
         /\ opened[task[k].session] # None
    /\ task[k].pc = "expire" => store[task[k].session] # None
    /\ task[k].pc \in {"read", "del"} => task[k].session \in issued
    /\ task[k].pc \in {"insert", "get", "hset", "expire", "del"} => task[k].op # "Whoami"
    /\ task[k].dead => task[k].session \in revoked

\* No two handlers store the same session.
OneWriter ==
  \A k, l \in Slots :
    /\ task[k].pc \in {"hset", "expire"} /\ task[l].pc \in {"hset", "expire"}
    /\ task[k].session = task[l].session
    => k = l

\* A stored session is one that was opened, with the expiry it was opened with.
StoreMatches ==
  \A s \in Sessions : store[s] # None =>
    /\ opened[s] # None
    /\ store[s].user = opened[s].user
    /\ store[s].expires = opened[s].expires

\* A session in a client's hands was opened, and is gone once it is revoked.
IssuedOpened ==
  /\ \A s \in issued : opened[s] # None
  /\ revoked \subseteq issued
  /\ \A s \in revoked : store[s] = None

\* A login has one registration, and sessions are opened for registered users.
UsersUnique ==
  /\ \A v, w \in users : v.login = w.login => v = w
  /\ \A s \in Sessions : opened[s] # None => opened[s].user \in users

\* What the answers say.
RepliesTrue ==
  \A k \in Slots :
    /\ reply[k].code = "OK" /\ reply[k].user # None => reply[k].user \in users
    /\ Vouched(k) =>
         /\ reply[k].session \in Sessions /\ opened[reply[k].session] # None
         /\ reply[k].at < opened[reply[k].session].expires
         /\ ~reply[k].dead

IInv ==
  /\ TypeOK
  /\ TaskShape
  /\ OneWriter
  /\ StoreMatches
  /\ IssuedOpened
  /\ IssuedExpire
  /\ UsersUnique
  /\ RepliesTrue
-----------------------------------------------------------------------------
\* The empty stores and idle handlers satisfy the invariant.
LEMMA InitIInv == Init => IInv
<1> SUFFICES ASSUME Init PROVE IInv
  OBVIOUS
<1>1. TypeOK
  BY IamAssumption DEF Init, TypeOK
<1>2. TaskShape /\ OneWriter
  BY DEF Init, TaskShape, OneWriter, Idle
<1>3. StoreMatches /\ IssuedOpened /\ IssuedExpire /\ UsersUnique
  BY DEF Init, StoreMatches, IssuedOpened, IssuedExpire, UsersUnique
<1>4. RepliesTrue
  BY DEF Init, RepliesTrue, Vouched, NoReply
<1> QED BY <1>1, <1>2, <1>3, <1>4 DEF IInv

\* What an answer does to the handlers and their replies.
LEMMA ReplyFacts ==
  ASSUME TypeOK, NEW k \in Slots, NEW code \in Codes, NEW u \in User \cup {None}, Reply(k, code, u)
  PROVE  /\ reply' \in [Slots -> ReplySet \cup {NoReply}]
         /\ task' \in [Slots -> TaskSet \cup {Idle}]
         /\ task'[k] = Idle
         /\ reply'[k].code = code /\ reply'[k].user = u /\ reply'[k].op = task[k].op
         /\ reply'[k].session = task[k].session
         /\ reply'[k].at = clock /\ reply'[k].dead = task[k].dead
         /\ \A l \in Slots \ {k} : task'[l] = task[l] /\ reply'[l] = reply[l]
<1>1. task[k] \in TaskSet \cup {Idle} /\ clock \in Nat
  BY IamAssumption DEF TypeOK
<1>2. /\ task[k].op \in Ops \cup {"none"} /\ task[k].session \in Sessions \cup {None}
      /\ task[k].dead \in BOOLEAN
  <2>1. CASE task[k] \in TaskSet
    BY <2>1 DEF TaskSet
  <2>2. CASE task[k] = Idle
    BY <2>2 DEF Idle
  <2> QED BY <1>1, <2>1, <2>2
<1>3. [op |-> task[k].op, code |-> code, session |-> task[k].session, user |-> u,
       at |-> clock, dead |-> task[k].dead] \in ReplySet
  BY <1>1, <1>2 DEF ReplySet
<1> QED BY <1>3 DEF Reply, TypeOK

\* An answer that is not OK, with the stores as they were, keeps the invariant.
LEMMA QuietStep ==
  ASSUME IInv, NEW k \in Slots, NEW code \in Codes \ {"OK"}, Reply(k, code, None),
         faults' \in 0 .. MaxFaults,
         UNCHANGED <<users, store, opened, issued, revoked, clock>>
  PROVE  IInv'
<1> USE DEF IInv
<1>1. TypeOK'
  BY ReplyFacts DEF TypeOK
<1>2. TaskShape' /\ OneWriter'
  BY ReplyFacts DEF TaskShape, OneWriter, Idle
<1>3. StoreMatches' /\ IssuedOpened' /\ IssuedExpire' /\ UsersUnique'
  BY DEF StoreMatches, IssuedOpened, IssuedExpire, UsersUnique
<1>4. RepliesTrue'
  BY ReplyFacts DEF RepliesTrue, Vouched
<1> QED BY <1>1, <1>2, <1>3, <1>4

\* A request that is taken in keeps the invariant.
LEMMA BeginStep ==
  ASSUME IInv, NEW k \in Slots, NEW op \in Ops, NEW u \in User \cup {None},
         NEW s \in issued \cup {None}, NEW pc \in {"insert", "get", "read", "del"},
         Begin(k, op, u, s, pc),
         pc \in {"insert", "get"} => u \in User /\ s = None,
         pc \in {"read", "del"} => s \in issued,
         pc # "read" => op # "Whoami",
         UNCHANGED <<users, store, opened, issued, revoked, clock, faults>>
  PROVE  IInv'
<1> DEFINE t == [op |-> op, user |-> u, session |-> s, pc |-> pc, dead |-> s \in revoked]
<1>1. t \in TaskSet
  BY DEF TaskSet, IInv, TypeOK
<1>2. /\ task' \in [Slots -> TaskSet \cup {Idle}] /\ reply' \in [Slots -> ReplySet \cup {NoReply}]
      /\ task'[k] = t /\ reply'[k] = NoReply
      /\ \A l \in Slots \ {k} : task'[l] = task[l] /\ reply'[l] = reply[l]
  BY <1>1 DEF Begin, IInv, TypeOK
<1>3. TypeOK'
  BY <1>2 DEF IInv, TypeOK
<1>4. /\ task'[k].op = op /\ task'[k].user = u /\ task'[k].session = s /\ task'[k].pc = pc
      /\ task'[k].dead = (s \in revoked)
  BY <1>2
<1>5. TaskShape'
  BY <1>2, <1>4 DEF TaskShape, IInv
<1>6. OneWriter'
  BY <1>2, <1>4 DEF OneWriter, IInv
<1>7. StoreMatches' /\ IssuedOpened' /\ IssuedExpire' /\ UsersUnique'
  BY DEF StoreMatches, IssuedOpened, IssuedExpire, UsersUnique, IInv
<1>8. RepliesTrue'
  BY <1>2 DEF RepliesTrue, Vouched, NoReply, IInv
<1> QED BY <1>3, <1>5, <1>6, <1>7, <1>8 DEF IInv

\* What a handler that is at work looks like.
LEMMA TaskTyped ==
  ASSUME TypeOK, NEW k \in Slots, task[k].pc # "idle"
  PROVE  task[k] \in TaskSet
BY DEF TypeOK, Idle

\* Register's INSERT keeps the invariant.
LEMMA CreateUserStep ==
  ASSUME IInv, NEW k \in Slots, CreateUser(k)
  PROVE  IInv'
<1> DEFINE u == task[k].user
<1>1. u \in User /\ ~Taken(u.login) /\ users' = users \cup {u} /\ task[k].op # "Whoami"
  BY DEF CreateUser, IInv, TaskShape
<1>2. PICK code \in Codes, w \in {u, None} :
        Reply(k, code, w) /\ faults' \in 0 .. MaxFaults
  <2>1. CASE Reply(k, "OK", u) /\ UNCHANGED faults
    BY <2>1 DEF Codes, IInv, TypeOK
  <2>2. CASE Lost(k)
    BY <2>2, IamAssumption DEF Lost, Codes, IInv, TypeOK
  <2> QED BY <2>1, <2>2 DEF CreateUser
<1>3. UNCHANGED <<store, opened, issued, revoked, clock>>
  BY DEF CreateUser
<1>4. TypeOK'
  BY <1>1, <1>2, <1>3, ReplyFacts DEF IInv, TypeOK
<1>5. TaskShape' /\ OneWriter'
  BY <1>1, <1>2, <1>3, ReplyFacts DEF IInv, TaskShape, OneWriter, Idle
<1>6. StoreMatches' /\ IssuedOpened' /\ IssuedExpire'
  BY <1>3 DEF IInv, StoreMatches, IssuedOpened, IssuedExpire
<1>7. UsersUnique'
  BY <1>1, <1>3 DEF IInv, UsersUnique, Taken
<1>8. RepliesTrue'
  BY <1>1, <1>2, <1>3, ReplyFacts DEF IInv, RepliesTrue, Vouched
<1> QED BY <1>4, <1>5, <1>6, <1>7, <1>8 DEF IInv

\* What going on to the next command does to the handlers.
LEMMA GotoFacts ==
  ASSUME TypeOK, NEW k \in Slots, task[k].pc # "idle", NEW s \in Sessions,
         NEW pc \in {"hset", "expire"}, Goto(k, s, pc)
  PROVE  /\ task' \in [Slots -> TaskSet \cup {Idle}] /\ reply' = reply
         /\ task'[k].op = task[k].op /\ task'[k].user = task[k].user
         /\ task'[k].session = s /\ task'[k].pc = pc /\ task'[k].dead = task[k].dead
         /\ \A l \in Slots \ {k} : task'[l] = task[l]
<1> DEFINE t == [op |-> task[k].op, user |-> task[k].user, session |-> s, pc |-> pc,
                 dead |-> task[k].dead]
<1>1. t \in TaskSet
  BY TaskTyped DEF TaskSet
<1>2. task' = [task EXCEPT ![k] = t] /\ reply' = reply
  BY DEF Goto
<1>3. task'[k] = t
  BY <1>2 DEF TypeOK
<1> QED BY <1>1, <1>2, <1>3 DEF TypeOK

\* Drawing a session uuid keeps the invariant.
LEMMA LoginMatchedStep ==
  ASSUME IInv, NEW k \in Slots, NEW s \in Sessions, LoginMatched(k, s)
  PROVE  IInv'
<1> DEFINE o == [user |-> task[k].user, expires |-> clock + TTL]
<1>1. /\ task[k].pc = "get" /\ task[k].user \in users /\ task[k].user \in User
      /\ task[k].op # "Whoami" /\ ~task[k].dead
  BY IamAssumption DEF LoginMatched, IInv, TaskShape, TypeOK
<1>2. /\ opened[s] = None /\ opened' = [opened EXCEPT ![s] = o]
      /\ UNCHANGED <<users, store, issued, revoked, clock, faults>>
  BY DEF LoginMatched
<1>3. o \in Opened /\ o # None
  BY <1>1, IamAssumption, NoneAssumption DEF Opened, IInv, TypeOK
<1>4. /\ opened' \in [Sessions -> Opened \cup {None}] /\ opened'[s] = o
      /\ \A r \in Sessions \ {s} : opened'[r] = opened[r]
  BY <1>2, <1>3 DEF IInv, TypeOK
<1>5. /\ task' \in [Slots -> TaskSet \cup {Idle}] /\ reply' = reply
      /\ task'[k].op = task[k].op /\ task'[k].user = task[k].user
      /\ task'[k].session = s /\ task'[k].pc = "hset" /\ task'[k].dead = task[k].dead
      /\ \A l \in Slots \ {k} : task'[l] = task[l]
  BY <1>1, GotoFacts DEF LoginMatched, IInv
<1>6. s \notin issued /\ store[s] = None
  BY <1>2 DEF IInv, IssuedOpened, StoreMatches
<1>7. TypeOK'
  BY <1>2, <1>4, <1>5 DEF IInv, TypeOK
<1>8. TaskShape'
  BY <1>1, <1>2, <1>3, <1>4, <1>5, <1>6 DEF IInv, TaskShape
<1>9. OneWriter'
  BY <1>1, <1>2, <1>5 DEF IInv, OneWriter, TaskShape
<1>10. StoreMatches' /\ IssuedOpened' /\ IssuedExpire'
  BY <1>2, <1>4, <1>6 DEF IInv, StoreMatches, IssuedOpened, IssuedExpire, TypeOK
<1>11. UsersUnique'
  BY <1>1, <1>2, <1>4 DEF IInv, UsersUnique
<1>12. RepliesTrue'
  BY <1>2, <1>4, <1>5 DEF IInv, RepliesTrue, Vouched
<1> QED BY <1>7, <1>8, <1>9, <1>10, <1>11, <1>12 DEF IInv

\* HSET keeps the invariant: nobody else has the session yet.
LEMMA HSetStep ==
  ASSUME IInv, NEW k \in Slots, HSet(k)
  PROVE  IInv'
<1> DEFINE s == task[k].session
           h == [user |-> opened[s].user, expires |-> opened[s].expires, ttl |-> None]
<1>1. /\ task[k].pc = "hset" /\ s \in Sessions \ issued /\ opened[s] # None
      /\ task[k].user \in users /\ task[k].op # "Whoami" /\ (task[k].dead => s \in revoked)
  BY DEF HSet, IInv, TaskShape
<1>2. store' = [store EXCEPT ![s] = h] /\ UNCHANGED <<users, opened, issued, revoked, clock, faults>>
  BY DEF HSet
<1>3. opened[s] \in Opened /\ h \in Stored /\ h # None
  BY <1>1, NoneAssumption DEF Opened, Stored, IInv, TypeOK
<1>4. /\ store' \in [Sessions -> Stored \cup {None}] /\ store'[s] = h
      /\ \A r \in Sessions \ {s} : store'[r] = store[r]
  BY <1>1, <1>2, <1>3 DEF IInv, TypeOK
<1>5. /\ task' \in [Slots -> TaskSet \cup {Idle}] /\ reply' = reply
      /\ task'[k].op = task[k].op /\ task'[k].user = task[k].user
      /\ task'[k].session = s /\ task'[k].pc = "expire" /\ task'[k].dead = task[k].dead
      /\ \A l \in Slots \ {k} : task'[l] = task[l]
  BY <1>1, GotoFacts DEF HSet, IInv
<1>6. TypeOK'
  BY <1>2, <1>4, <1>5 DEF IInv, TypeOK
<1>7. TaskShape'
  BY <1>1, <1>2, <1>3, <1>4, <1>5 DEF IInv, TaskShape
<1>8. OneWriter'
  BY <1>1, <1>5 DEF IInv, OneWriter
<1>9. StoreMatches' /\ IssuedOpened' /\ IssuedExpire'
  BY <1>1, <1>2, <1>4 DEF IInv, StoreMatches, IssuedOpened, IssuedExpire, TypeOK
<1>10. UsersUnique' /\ RepliesTrue'
  BY <1>2, <1>5 DEF IInv, UsersUnique, RepliesTrue, Vouched
<1> QED BY <1>6, <1>7, <1>8, <1>9, <1>10 DEF IInv

\* EXPIREAT and Login's answer keep the invariant: the session goes out only
\* with its expiry set.
LEMMA ExpireAtStep ==
  ASSUME IInv, NEW k \in Slots, ExpireAt(k)
  PROVE  IInv'
<1> DEFINE s == task[k].session
           h == [user |-> store[s].user, expires |-> store[s].expires, ttl |-> store[s].expires]
<1>1. /\ task[k].pc = "expire" /\ s \in Sessions \ issued /\ opened[s] # None /\ store[s] # None
      /\ task[k].user \in users /\ task[k].user \in User /\ task[k].op # "Whoami"
      /\ s \notin revoked
  BY DEF ExpireAt, IInv, TaskShape, TypeOK, IssuedOpened
<1>2. store' = [store EXCEPT ![s] = h] /\ UNCHANGED <<users, opened, revoked, clock>>
  BY DEF ExpireAt
<1>3. PICK code \in Codes, w \in {task[k].user, None} :
        /\ Reply(k, code, w) /\ faults' \in 0 .. MaxFaults
        /\ issued' \in {issued, issued \cup {s}}
  <2>1. CASE Reply(k, "OK", task[k].user) /\ issued' = issued \cup {s} /\ UNCHANGED faults
    BY <2>1 DEF Codes, IInv, TypeOK
  <2>2. CASE Lost(k) /\ UNCHANGED issued
    BY <2>2, IamAssumption DEF Lost, Codes, IInv, TypeOK
  <2> QED BY <2>1, <2>2 DEF ExpireAt
<1>4. h \in Stored /\ h # None
  BY <1>1, NoneAssumption DEF Stored, IInv, TypeOK
<1>5. /\ store' \in [Sessions -> Stored \cup {None}] /\ store'[s] = h
      /\ \A r \in Sessions \ {s} : store'[r] = store[r]
  BY <1>1, <1>2, <1>4 DEF IInv, TypeOK
<1>6. TypeOK'
  BY <1>1, <1>2, <1>3, <1>5, ReplyFacts DEF IInv, TypeOK
<1>7. \A l \in Slots \ {k} : task[l].pc \in {"hset", "expire"} => task[l].session # s
  BY <1>1 DEF IInv, OneWriter
<1>8. TaskShape'
  BY <1>1, <1>2, <1>3, <1>4, <1>5, <1>7, ReplyFacts DEF IInv, TaskShape, Idle
<1>9. OneWriter'
  BY <1>1, <1>3, ReplyFacts DEF IInv, OneWriter, Idle
<1>10. StoreMatches' /\ IssuedOpened' /\ IssuedExpire'
  BY <1>1, <1>2, <1>3, <1>5 DEF IInv, StoreMatches, IssuedOpened, IssuedExpire, TypeOK
<1>11. UsersUnique'
  BY <1>2 DEF IInv, UsersUnique
<1>12. RepliesTrue'
  BY <1>1, <1>2, <1>3, ReplyFacts DEF IInv, RepliesTrue, Vouched
<1> QED BY <1>6, <1>8, <1>9, <1>10, <1>11, <1>12 DEF IInv

\* A hash that Redis shows answers Whoami truly: it carries an expiry that has
\* not passed, and its session is not revoked.
LEMMA SessionFoundStep ==
  ASSUME IInv, NEW k \in Slots, SessionFound(k)
  PROVE  IInv'
<1> DEFINE s == task[k].session
<1>1. /\ s \in Sessions /\ s \in issued /\ store[s] # None
      /\ UNCHANGED <<users, store, opened, issued, revoked, clock, faults>>
      /\ Reply(k, "OK", store[s].user)
  BY DEF SessionFound, Visible, IInv, TaskShape, TypeOK
<1>2. store[s] \in Stored /\ store[s].user \in User /\ store[s].user \in users
  BY <1>1 DEF IInv, TypeOK, Stored, StoreMatches, UsersUnique
<1>3. opened[s] # None /\ s \notin revoked /\ ~task[k].dead
  BY <1>1 DEF IInv, TaskShape, IssuedOpened
<1>4. clock < opened[s].expires
  <2>1. store[s].ttl = opened[s].expires /\ opened[s] \in Opened
    BY <1>1, <1>3 DEF IInv, IssuedExpire, TypeOK
  <2>2. store[s].ttl # None
    BY <2>1, NoneAssumption DEF Opened
  <2> QED BY <1>1, <2>1, <2>2 DEF SessionFound, Visible
<1>5. "OK" \in Codes
  BY DEF Codes
<1>6. TypeOK'
  BY <1>1, <1>2, <1>5, ReplyFacts DEF IInv, TypeOK
<1>7. TaskShape' /\ OneWriter'
  BY <1>1, <1>2, <1>5, ReplyFacts DEF IInv, TaskShape, OneWriter, Idle
<1>8. StoreMatches' /\ IssuedOpened' /\ IssuedExpire' /\ UsersUnique'
  BY <1>1 DEF IInv, StoreMatches, IssuedOpened, IssuedExpire, UsersUnique
<1>9. RepliesTrue'
  BY <1>1, <1>2, <1>3, <1>4, <1>5, ReplyFacts DEF IInv, RepliesTrue, Vouched
<1> QED BY <1>6, <1>7, <1>8, <1>9 DEF IInv

\* DEL keeps the invariant: a session that Logout names is past its Login.
LEMMA DeleteStep ==
  ASSUME IInv, NEW k \in Slots, Delete(k)
  PROVE  IInv'
<1> DEFINE s == task[k].session
<1>1. s \in Sessions /\ s \in issued /\ task[k].op # "Whoami"
  BY DEF Delete, IInv, TaskShape, TypeOK
<1>2. store' = [store EXCEPT ![s] = None] /\ UNCHANGED <<users, opened, issued, clock>>
  BY DEF Delete
<1>3. PICK code \in Codes :
        /\ Reply(k, code, None) /\ faults' \in 0 .. MaxFaults
        /\ revoked' \in {revoked, revoked \cup {s}}
  <2>1. CASE Reply(k, "OK", None) /\ revoked' = revoked \cup {s} /\ UNCHANGED faults
    BY <2>1 DEF Codes, IInv, TypeOK
  <2>2. CASE Lost(k) /\ UNCHANGED revoked
    BY <2>2, IamAssumption DEF Lost, Codes, IInv, TypeOK
  <2> QED BY <2>1, <2>2 DEF Delete
<1>4. /\ store' \in [Sessions -> Stored \cup {None}] /\ store'[s] = None
      /\ \A r \in Sessions \ {s} : store'[r] = store[r]
  BY <1>1, <1>2 DEF IInv, TypeOK
<1>5. TypeOK'
  BY <1>1, <1>2, <1>3, <1>4, ReplyFacts DEF IInv, TypeOK
<1>6. TaskShape' /\ OneWriter'
  BY <1>1, <1>2, <1>3, <1>4, ReplyFacts DEF IInv, TaskShape, OneWriter, Idle
<1>7. StoreMatches' /\ IssuedOpened' /\ IssuedExpire'
  BY <1>1, <1>2, <1>3, <1>4 DEF IInv, StoreMatches, IssuedOpened, IssuedExpire, TypeOK
<1>8. UsersUnique'
  BY <1>2 DEF IInv, UsersUnique
<1>9. RepliesTrue'
  BY <1>1, <1>2, <1>3, ReplyFacts DEF IInv, RepliesTrue, Vouched
<1> QED BY <1>5, <1>6, <1>7, <1>8, <1>9 DEF IInv

\* Time and stuttering leave the invariant alone.
LEMMA StillStep ==
  ASSUME IInv, clock' \in 0 .. MaxTime,
         UNCHANGED <<users, store, opened, issued, revoked, task, reply, faults>>
  PROVE  IInv'
<1>1. TypeOK'
  BY DEF IInv, TypeOK
<1>2. TaskShape' /\ OneWriter'
  BY DEF IInv, TaskShape, OneWriter
<1>3. StoreMatches' /\ IssuedOpened' /\ IssuedExpire' /\ UsersUnique'
  BY DEF IInv, StoreMatches, IssuedOpened, IssuedExpire, UsersUnique
<1>4. RepliesTrue'
  BY DEF IInv, RepliesTrue, Vouched
<1> QED BY <1>1, <1>2, <1>3, <1>4 DEF IInv

\* A step of the service keeps the invariant.
LEMMA NextIInv == IInv /\ [Next]_vars => IInv'
<1> SUFFICES ASSUME IInv, [Next]_vars PROVE IInv'
  OBVIOUS
<1> USE DEF Codes, Ops
<1>0. faults \in 0 .. MaxFaults /\ issued \subseteq Sessions
  BY DEF IInv, TypeOK
<1>1. ASSUME NEW k \in Slots, NEW u \in User,
             RegisterRefused(k, u) \/ LoginRefused(k, u)
      PROVE  IInv'
  <2>1. PICK code \in {"InvalidArgument", "Internal"} : Refuse(k, code)
    BY <1>1 DEF RegisterRefused, LoginRefused
  <2> QED BY <1>0, <2>1, QuietStep DEF Refuse
<1>2. ASSUME NEW k \in Slots, NEW u \in User, Register(k, u)
      PROVE  IInv'
  BY <1>2, BeginStep DEF Register
<1>3. ASSUME NEW k \in Slots, NEW u \in User, Login(k, u)
      PROVE  IInv'
  BY <1>3, BeginStep DEF Login
<1>4. ASSUME NEW k \in Slots, NEW s \in issued, Whoami(k, s)
      PROVE  IInv'
  BY <1>4, BeginStep DEF Whoami
<1>5. ASSUME NEW k \in Slots, NEW s \in issued, Logout(k, s)
      PROVE  IInv'
  BY <1>5, BeginStep DEF Logout
<1>6. ASSUME NEW k \in Slots,
             UserExists(k) \/ LoginDenied(k) \/ SessionRefused(k) \/ SessionNotFound(k) \/ Cut(k)
      PROVE  IInv'
  <2>1. PICK code \in Codes \ {"OK"} :
          /\ Reply(k, code, None) /\ faults' \in 0 .. MaxFaults
          /\ UNCHANGED <<users, store, opened, issued, revoked, clock>>
    BY <1>0, <1>6, IamAssumption
    DEF UserExists, LoginDenied, SessionRefused, SessionNotFound, Cut, Refuse
  <2> QED BY <2>1, QuietStep
<1>7. CASE Tick
  BY <1>7, StillStep, IamAssumption DEF Tick, IInv, TypeOK
<1>8. CASE UNCHANGED vars
  BY <1>8, StillStep DEF vars, IInv, TypeOK
<1> QED BY <1>1, <1>2, <1>3, <1>4, <1>5, <1>6, <1>7, <1>8, CreateUserStep, LoginMatchedStep,
           HSetStep, ExpireAtStep, SessionFoundStep, DeleteStep DEF Next

\* The invariant holds throughout.
THEOREM Invariance == Spec => []IInv
BY InitIInv, NextIInv, PTL DEF Spec
-----------------------------------------------------------------------------
\* The users, the session hashes, the handlers and their answers keep their types.
THEOREM TypeCorrect == Spec => []TypeOK
<1>1. IInv => TypeOK
  BY DEF IInv
<1> QED BY <1>1, Invariance, PTL

\* A session in a client's hands expires in Redis when its expires_at says,
\* although set.go writes the hash and its expiry in two commands.
THEOREM IssuedExpireHolds == Spec => []IssuedExpire
<1>1. IInv => IssuedExpire
  BY DEF IInv
<1> QED BY <1>1, Invariance, PTL

\* Whoami vouches for no session past its lifetime.
THEOREM VouchedInTimeHolds == Spec => []VouchedInTime
<1>1. IInv => VouchedInTime
  BY DEF IInv, RepliesTrue, VouchedInTime
<1> QED BY <1>1, Invariance, PTL

\* Whoami vouches for no session whose Logout was answered before it was asked.
THEOREM RevokedAtOnceHolds == Spec => []RevokedAtOnce
<1>1. IInv => RevokedAtOnce
  BY DEF IInv, RepliesTrue, RevokedAtOnce
<1> QED BY <1>1, Invariance, PTL

\* However registrations of one login race, every answer under that login is
\* about the one that won.
THEOREM OneRegistrantHolds == Spec => []OneRegistrant
<1>1. IInv => OneRegistrant
  BY DEF IInv, RepliesTrue, UsersUnique, OneRegistrant
<1> QED BY <1>1, Invariance, PTL
-----------------------------------------------------------------------------
(* The way of a session along the topics, on top of the IAM service. *)

\* A message of the order with the session of one who has paid for it.
Carries(m) ==
  /\ m.order \in Orders
  /\ \E s \in payers[m.order] : m.headers = <<[key |-> SessionHeaderKey, value |-> s]>>

WorkSet == [op : {"Pay", "Commit", "Assemble", "CommitParts", "Update"}, order : Orders, ctx : Sessions]

ChainTypeOK ==
  /\ order \in [Orders -> {"PENDING_PAYMENT", "PAID", "ASSEMBLED"}]
  /\ payers \in [Orders -> SUBSET Sessions]
  /\ work \in [Handlers -> WorkSet \cup {Free}]
  /\ admitted \in [Orders -> Admission \cup {None}]
  /\ refused \subseteq Orders

\* The context of a handler holds the session of a payer, or of one to be.
HasPayer(h) ==
  /\ work[h].op = "Pay" => work[h].ctx \in issued
  /\ work[h].op \in {"Commit", "Assemble", "CommitParts", "Update"} =>
       work[h].ctx \in payers[work[h].order]
  /\ work[h].op = "Update" => admitted[work[h].order] # None

\* Every envelope holds the session of a payer.
Envelopes ==
  /\ \A o \in Orders : payers[o] \subseteq issued
  /\ \A m \in paidTopic \cup shipTopic : Carries(m)
  /\ \A h \in Handlers : HasPayer(h)

ChainInv == IInv /\ ChainTypeOK /\ Envelopes /\ CommittedByPayer /\ RefusedOnlyEnded
-----------------------------------------------------------------------------
\* The session survives every hop: header, context, metadata.
LEMMA HeaderBack ==
  ASSUME NEW s \in Sessions
  PROVE  /\ ProducerSessionHeaders(s) = <<[key |-> SessionHeaderKey, value |-> s]>>
         /\ ConsumerSession(<<[key |-> SessionHeaderKey, value |-> s]>>) = s
         /\ Auth(SessionForwarder(s)) <=> Visible(s)
<1>0. s # None
  BY IamAssumption
<1>1. ProducerSessionHeaders(s) = <<[key |-> SessionHeaderKey, value |-> s]>>
  BY <1>0 DEF ProducerSessionHeaders
<1>2. ConsumerSession(<<[key |-> SessionHeaderKey, value |-> s]>>) = s
  <2> DEFINE hs == <<[key |-> SessionHeaderKey, value |-> s]>>
             own == {i \in DOMAIN hs : hs[i].key = SessionHeaderKey}
  <2>1. own = {1}
    OBVIOUS
  <2>2. (CHOOSE i \in own : \A j \in own : i <= j) = 1
    BY <2>1
  <2>3. hs[1].value = s
    OBVIOUS
  <2> QED BY <2>1, <2>2, <2>3 DEF ConsumerSession
<1>3. Auth(SessionForwarder(s)) <=> Visible(s)
  BY <1>0 DEF Auth, SessionForwarder, Valid
<1> QED BY <1>1, <1>2, <1>3

\* A session in a client's hands is never stored again: IAM only lets it end.
LEMMA IssuedOnlyEnd ==
  ASSUME IInv, [Next]_vars
  PROVE  /\ issued \subseteq issued' /\ clock' >= clock
         /\ \A s \in issued : store'[s] \in {store[s], None} /\ opened'[s] = opened[s]
<1> USE DEF IInv
<1>0. clock \in Nat /\ store \in [Sessions -> Stored \cup {None}] /\ issued \subseteq Sessions
      /\ opened \in [Sessions -> Opened \cup {None}]
  BY IamAssumption DEF TypeOK
<1>1. ASSUME NEW k \in Slots, NEW s \in Sessions, LoginMatched(k, s) PROVE
         /\ issued' = issued /\ clock' = clock /\ store' = store
         /\ \A t \in issued : opened'[t] = opened[t]
  BY <1>0, <1>1 DEF LoginMatched, IssuedOpened
<1>2. ASSUME NEW k \in Slots, HSet(k) PROVE
         /\ issued' = issued /\ clock' = clock /\ opened' = opened
         /\ \A t \in issued : store'[t] = store[t]
  BY <1>0, <1>2 DEF HSet, TaskShape
<1>3. ASSUME NEW k \in Slots, ExpireAt(k) PROVE
         /\ issued \subseteq issued' /\ clock' = clock /\ opened' = opened
         /\ \A t \in issued : store'[t] = store[t]
  BY <1>0, <1>3 DEF ExpireAt, TaskShape
<1>4. ASSUME NEW k \in Slots, Delete(k) PROVE
         /\ issued' = issued /\ clock' = clock /\ opened' = opened
         /\ \A t \in issued : store'[t] \in {store[t], None}
  BY <1>0, <1>4 DEF Delete
<1>5. CASE Tick
  BY <1>0, <1>5 DEF Tick
<1>6. CASE UNCHANGED <<store, opened, issued, clock>>
  BY <1>0, <1>6
<1>7. ASSUME NEW k \in Slots,
             \/ \E u \in User : RegisterRefused(k, u) \/ Register(k, u) \/ LoginRefused(k, u) \/ Login(k, u)
             \/ \E s \in issued : Whoami(k, s) \/ Logout(k, s)
             \/ CreateUser(k) \/ UserExists(k) \/ LoginDenied(k)
             \/ SessionRefused(k) \/ SessionFound(k) \/ SessionNotFound(k) \/ Cut(k)
      PROVE UNCHANGED <<store, opened, issued, clock>>
  BY <1>7 DEF RegisterRefused, Register, LoginRefused, Login, Whoami, Logout, CreateUser, UserExists,
              LoginDenied, SessionRefused, SessionFound, SessionNotFound, Cut, Refuse
<1>8. CASE UNCHANGED vars
  BY <1>6, <1>8 DEF vars
<1> QED BY <1>0, <1>1, <1>2, <1>3, <1>4, <1>5, <1>6, <1>7, <1>8 DEF Next

\* IAM lets a call in only under a session within its lifetime and not revoked.
LEMMA VisibleIsAlive ==
  ASSUME IInv, NEW s \in issued, Visible(s)
  PROVE  clock < opened[s].expires /\ s \notin revoked
<1>1. s \in Sessions /\ store[s] # None
  BY DEF Visible, IInv, TypeOK
<1>2. opened[s] \in Opened
  BY <1>1 DEF IInv, TypeOK, IssuedOpened
<1>3. store[s].ttl = opened[s].expires /\ opened[s].expires \in Nat
  BY <1>1, <1>2 DEF IInv, IssuedExpire, Opened
<1>4. s \notin revoked
  BY <1>1 DEF IInv, IssuedOpened
<1> QED BY <1>3, <1>4, NoneAssumption DEF Visible
-----------------------------------------------------------------------------
\* The steps of IAM keep the chain's invariant.
LEMMA IamKeepsChain ==
  ASSUME ChainInv, [Next]_vars, UNCHANGED chainVars
  PROVE  ChainInv'
<1>1. IInv'
  BY NextIInv DEF ChainInv
<1>2. ChainTypeOK'
  BY DEF ChainInv, ChainTypeOK, chainVars
<1>3. /\ issued \subseteq issued' /\ clock' >= clock
      /\ \A s \in issued : store'[s] \in {store[s], None} /\ opened'[s] = opened[s]
  BY IssuedOnlyEnd DEF ChainInv
<1>4. Envelopes'
  BY <1>3 DEF ChainInv, Envelopes, HasPayer, Carries, chainVars
<1>5. CommittedByPayer'
  BY <1>3 DEF ChainInv, CommittedByPayer, Envelopes, chainVars
<1>6. RefusedOnlyEnded'
  <2> SUFFICES ASSUME NEW o \in refused PROVE \E s \in payers[o] : ~Visible(s)'
    BY DEF RefusedOnlyEnded, chainVars
  <2>1. PICK s \in payers[o] : ~Visible(s)
    BY DEF ChainInv, RefusedOnlyEnded
  <2>2. s \in issued /\ s \in Sessions
    BY DEF ChainInv, ChainTypeOK, Envelopes
  <2>3. store[s] \in Stored \cup {None} /\ clock \in Nat /\ clock' \in Nat
    BY <1>1, <2>2, IamAssumption DEF ChainInv, IInv, TypeOK
  <2>4. ~Visible(s)'
    <3>1. CASE store'[s] = None
      BY <3>1 DEF Visible
    <3>2. CASE store'[s] = store[s] /\ store[s] # None
      <4>1. store[s].ttl # None /\ ~(clock < store[s].ttl) /\ store[s].ttl \in Nat \cup {None}
        BY <2>1, <2>3, <3>2 DEF Visible, Stored
      <4> QED BY <1>3, <2>3, <3>2, <4>1 DEF Visible
    <3> QED BY <1>3, <2>2, <3>1, <3>2
  <2> QED BY <2>4
<1> QED BY <1>1, <1>2, <1>4, <1>5, <1>6 DEF ChainInv

\* What a handler that is not free has in hand.
LEMMA WorkTyped ==
  ASSUME ChainInv, NEW h \in Handlers, work[h].op # "none"
  PROVE  work[h] \in WorkSet
BY DEF ChainInv, ChainTypeOK, Free

\* A handler that takes up work of a payer's session keeps what the others have.
LEMMA WorksFacts ==
  ASSUME ChainInv, NEW h \in Handlers, NEW o \in Orders, NEW s \in Sessions,
         NEW op \in {"Pay", "Commit", "Assemble", "CommitParts", "Update"}, Works(h, op, o, s)
  PROVE  /\ work' \in [Handlers -> WorkSet \cup {Free}]
         /\ work'[h].op = op /\ work'[h].order = o /\ work'[h].ctx = s
         /\ \A g \in Handlers \ {h} : work'[g] = work[g]
BY DEF Works, ChainInv, ChainTypeOK, WorkSet

\* And so does one that is done.
LEMMA DoneFacts ==
  ASSUME ChainInv, NEW h \in Handlers, Done(h)
  PROVE  /\ work' \in [Handlers -> WorkSet \cup {Free}]
         /\ work'[h].op = "none"
         /\ \A g \in Handlers \ {h} : work'[g] = work[g]
BY DEF Done, ChainInv, ChainTypeOK, Free
-----------------------------------------------------------------------------
\* A request to pay, a delivered message: the handler has a payer's session.
LEMMA TakeUp ==
  ASSUME ChainInv, UNCHANGED vars, NEW h \in Handlers,
         NEW op \in {"Pay", "Assemble", "CommitParts"}, NEW o \in Orders, NEW s \in issued,
         op # "Pay" => s \in payers[o],
         Works(h, op, o, s),
         UNCHANGED <<order, payers, paidTopic, shipTopic, admitted, refused>>
  PROVE  ChainInv'
<1>0. s \in Sessions
  BY DEF ChainInv, IInv, TypeOK
<1>1. IInv'
  BY StillStep DEF ChainInv, IInv, TypeOK, vars
<1>2. ChainTypeOK'
  BY <1>0, WorksFacts DEF ChainInv, ChainTypeOK
<1>3. Envelopes'
  <2>1. \A g \in Handlers : HasPayer(g)'
    <3> SUFFICES ASSUME NEW g \in Handlers PROVE HasPayer(g)'
      OBVIOUS
    <3>1. CASE g = h
      BY <1>0, <3>1, WorksFacts DEF HasPayer, vars
    <3>2. CASE g # h
      BY <1>0, <3>2, WorksFacts DEF HasPayer, ChainInv, Envelopes, vars
    <3> QED BY <3>1, <3>2
  <2> QED BY <2>1 DEF ChainInv, Envelopes, Carries, vars
<1>4. CommittedByPayer' /\ RefusedOnlyEnded'
  BY DEF ChainInv, CommittedByPayer, RefusedOnlyEnded, Visible, vars
<1> QED BY <1>1, <1>2, <1>3, <1>4 DEF ChainInv

\* order.paid carries the payer's session.
LEMMA ProduceOrderPaidStep ==
  ASSUME ChainInv, UNCHANGED vars, NEW h \in Handlers, ProduceOrderPaid(h)
  PROVE  ChainInv'
<1> DEFINE o == work[h].order
           s == work[h].ctx
<1>0. o \in Orders /\ s \in Sessions /\ s \in issued
  BY WorkTyped DEF ProduceOrderPaid, ChainInv, Envelopes, HasPayer, WorkSet
<1>1. IInv'
  BY StillStep DEF ChainInv, IInv, TypeOK, vars
<1>2. payers' = [payers EXCEPT ![o] = @ \cup {s}] /\ payers \in [Orders -> SUBSET Sessions]
  BY DEF ProduceOrderPaid, ChainInv, ChainTypeOK
<1>3. s \in payers'[o] /\ \A p \in Orders : payers[p] \subseteq payers'[p] /\ payers'[p] \subseteq payers[p] \cup {s}
  BY <1>0, <1>2
<1>4. Works(h, "Commit", o, s)
  BY DEF ProduceOrderPaid
<1>5. ChainTypeOK'
  BY <1>0, <1>2, <1>4, WorksFacts DEF ProduceOrderPaid, ChainInv, ChainTypeOK
<1>6. \A m \in (paidTopic \cup shipTopic)' : Carries(m)'
  <2> SUFFICES ASSUME NEW m \in (paidTopic \cup shipTopic)' PROVE Carries(m)'
    OBVIOUS
  <2>1. CASE m \in paidTopic \cup shipTopic
    BY <1>3, <2>1 DEF ChainInv, Envelopes, Carries
  <2>2. CASE m = [order |-> o, headers |-> ProducerSessionHeaders(s)]
    BY <1>0, <1>3, <2>2, HeaderBack DEF Carries
  <2> QED BY <2>1, <2>2 DEF ProduceOrderPaid, Send
<1>7. Envelopes'
  <2>1. \A p \in Orders : payers'[p] \subseteq issued'
    BY <1>0, <1>3 DEF ChainInv, Envelopes, vars
  <2>2. \A g \in Handlers : HasPayer(g)'
    <3> SUFFICES ASSUME NEW g \in Handlers PROVE HasPayer(g)'
      OBVIOUS
    <3>1. CASE g = h
      BY <1>0, <1>3, <1>4, <3>1, WorksFacts DEF HasPayer
    <3>2. CASE g # h
      <4>1. work'[g] = work[g] /\ admitted' = admitted /\ issued' = issued
        BY <1>0, <1>4, <3>2, WorksFacts DEF ProduceOrderPaid, vars
      <4>2. work[g].op # "none" => work[g].order \in Orders
        BY WorkTyped DEF WorkSet
      <4> QED BY <1>3, <4>1, <4>2 DEF ChainInv, Envelopes, HasPayer
    <3> QED BY <3>1, <3>2
  <2> QED BY <1>6, <2>1, <2>2 DEF Envelopes
<1>8. CommittedByPayer' /\ RefusedOnlyEnded'
  BY <1>3 DEF ProduceOrderPaid, ChainInv, ChainTypeOK, CommittedByPayer, RefusedOnlyEnded, Visible, vars
<1> QED BY <1>1, <1>5, <1>7, <1>8 DEF ChainInv

\* assembly.ship-assembled carries the session order.paid came with.
LEMMA ProduceShipAssembledStep ==
  ASSUME ChainInv, UNCHANGED vars, NEW h \in Handlers, ProduceShipAssembled(h)
  PROVE  ChainInv'
<1> DEFINE o == work[h].order
           s == work[h].ctx
<1>0. o \in Orders /\ s \in Sessions /\ s \in payers[o]
  BY WorkTyped DEF ProduceShipAssembled, ChainInv, Envelopes, HasPayer, WorkSet
<1>1. IInv'
  BY StillStep DEF ChainInv, IInv, TypeOK, vars
<1>2. Done(h) /\ UNCHANGED <<order, payers, paidTopic, admitted, refused>>
  BY DEF ProduceShipAssembled
<1>3. ChainTypeOK'
  BY <1>2, DoneFacts DEF ChainInv, ChainTypeOK
<1>4. \A m \in (paidTopic \cup shipTopic)' : Carries(m)'
  <2> SUFFICES ASSUME NEW m \in (paidTopic \cup shipTopic)' PROVE Carries(m)'
    OBVIOUS
  <2>1. CASE m \in paidTopic \cup shipTopic
    BY <1>2, <2>1 DEF ChainInv, Envelopes, Carries
  <2>2. CASE m = [order |-> o, headers |-> ProducerSessionHeaders(s)]
    BY <1>0, <1>2, <2>2, HeaderBack DEF Carries
  <2> QED BY <2>1, <2>2 DEF ProduceShipAssembled, Send
<1>5. Envelopes'
  BY <1>2, <1>4, DoneFacts DEF ChainInv, Envelopes, HasPayer, vars
<1>6. CommittedByPayer' /\ RefusedOnlyEnded'
  BY <1>2 DEF ChainInv, CommittedByPayer, RefusedOnlyEnded, Visible, vars
<1> QED BY <1>1, <1>3, <1>5, <1>6 DEF ChainInv

\* The inventory lets CommitParts in under a payer's session that is alive.
LEMMA AdmitStep ==
  ASSUME ChainInv, UNCHANGED vars, NEW h \in Handlers, Admit(h)
  PROVE  ChainInv'
<1> DEFINE o == work[h].order
           s == work[h].ctx
           a == [session |-> s, at |-> clock, dead |-> s \in revoked]
<1>0. o \in Orders /\ s \in Sessions /\ s \in payers[o] /\ s \in issued
  BY WorkTyped DEF Admit, ChainInv, Envelopes, HasPayer, WorkSet
<1>1. IInv'
  BY StillStep DEF ChainInv, IInv, TypeOK, vars
<1>2. clock < opened[s].expires /\ s \notin revoked
  BY <1>0, HeaderBack, VisibleIsAlive DEF Admit, ChainInv
<1>3. a \in Admission /\ a # None
  <2>1. clock \in Nat /\ (s \in revoked) \in BOOLEAN
    BY IamAssumption DEF ChainInv, IInv, TypeOK
  <2>2. a \in Admission
    BY <1>0, <2>1 DEF Admission
  <2> QED BY <2>2, ChainAssumption
<1>4. admitted' = [admitted EXCEPT ![o] = a] /\ Works(h, "Update", o, s)
      /\ UNCHANGED <<order, payers, paidTopic, shipTopic, refused>>
  BY DEF Admit
<1>5. ChainTypeOK'
  BY <1>0, <1>3, <1>4, WorksFacts DEF ChainInv, ChainTypeOK
<1>6. admitted'[o] = a /\ \A p \in Orders \ {o} : admitted'[p] = admitted[p]
  BY <1>0, <1>4 DEF ChainInv, ChainTypeOK
<1>7. Envelopes'
  <2>1. \A g \in Handlers : HasPayer(g)'
    <3> SUFFICES ASSUME NEW g \in Handlers PROVE HasPayer(g)'
      OBVIOUS
    <3>1. CASE g = h
      BY <1>0, <1>3, <1>4, <1>6, <3>1, WorksFacts DEF HasPayer
    <3>2. CASE g # h
      <4>1. work'[g] = work[g] /\ payers' = payers /\ issued' = issued
        BY <1>0, <1>4, <3>2, WorksFacts DEF vars
      <4>2. work[g].op = "Update" => work[g].order \in Orders
        BY WorkTyped DEF WorkSet
      <4>3. HasPayer(g)
        BY DEF ChainInv, Envelopes
      <4> QED BY <1>3, <1>6, <4>1, <4>2, <4>3 DEF HasPayer
    <3> QED BY <3>1, <3>2
  <2> QED BY <1>4, <2>1 DEF ChainInv, Envelopes, Carries, vars
<1>8. CommittedByPayer'
  <2> SUFFICES ASSUME NEW p \in Orders
               PROVE  /\ order'[p] = "ASSEMBLED" => admitted'[p] # None
                      /\ admitted'[p] # None =>
                           /\ admitted'[p].session \in payers'[p]
                           /\ admitted'[p].at < opened'[admitted'[p].session].expires
                           /\ ~admitted'[p].dead
    BY DEF CommittedByPayer
  <2>1. CASE p = o
    <3>1. a.session = s /\ a.at = clock /\ a.dead = (s \in revoked)
      OBVIOUS
    <3> QED BY <1>0, <1>2, <1>3, <1>4, <1>6, <2>1, <3>1 DEF vars
  <2>2. CASE p # o
    BY <1>4, <1>6, <2>2 DEF ChainInv, CommittedByPayer, vars
  <2> QED BY <2>1, <2>2
<1>9. RefusedOnlyEnded'
  BY <1>4 DEF ChainInv, RefusedOnlyEnded, Visible, vars
<1> QED BY <1>1, <1>5, <1>7, <1>8, <1>9 DEF ChainInv

\* CommitParts is refused for a payer's session that has ended.
LEMMA UnauthenticatedStep ==
  ASSUME ChainInv, UNCHANGED vars, NEW h \in Handlers, Unauthenticated(h)
  PROVE  ChainInv'
<1>0. work[h].order \in Orders /\ work[h].ctx \in Sessions /\ work[h].ctx \in payers[work[h].order]
  BY WorkTyped DEF Unauthenticated, ChainInv, Envelopes, HasPayer, WorkSet
<1>1. IInv'
  BY StillStep DEF ChainInv, IInv, TypeOK, vars
<1>2. Done(h) /\ UNCHANGED <<order, payers, paidTopic, shipTopic, admitted>>
      /\ refused' = refused \cup {work[h].order}
  BY DEF Unauthenticated
<1>3. ChainTypeOK'
  BY <1>0, <1>2, DoneFacts DEF ChainInv, ChainTypeOK
<1>4. Envelopes'
  BY <1>2, DoneFacts DEF ChainInv, Envelopes, HasPayer, Carries, vars
<1>5. CommittedByPayer'
  BY <1>2 DEF ChainInv, CommittedByPayer, vars
<1>6. ~Visible(work[h].ctx)
  BY <1>0, HeaderBack DEF Unauthenticated
<1>7. RefusedOnlyEnded'
  BY <1>0, <1>2, <1>6 DEF ChainInv, RefusedOnlyEnded, Visible, vars
<1> QED BY <1>1, <1>3, <1>4, <1>5, <1>7 DEF ChainInv

\* The order's transactions commit, or a handler fails.
LEMMA EndStep ==
  ASSUME ChainInv, UNCHANGED vars, NEW h \in Handlers, Commit(h) \/ Update(h) \/ Fail(h)
  PROVE  ChainInv'
<1>1. IInv'
  BY StillStep DEF ChainInv, IInv, TypeOK, vars
<1>2. Done(h) /\ UNCHANGED <<payers, paidTopic, shipTopic, admitted, refused>>
  BY DEF Commit, Update, Fail
<1>3. order' \in [Orders -> {"PENDING_PAYMENT", "PAID", "ASSEMBLED"}]
  BY DEF Commit, Update, Fail, ChainInv, ChainTypeOK
<1>4. ChainTypeOK'
  BY <1>2, <1>3, DoneFacts DEF ChainInv, ChainTypeOK
<1>5. Envelopes'
  BY <1>2, DoneFacts DEF ChainInv, Envelopes, HasPayer, Carries, vars
<1>6. CommittedByPayer'
  <2>1. \A o \in Orders : order'[o] = "ASSEMBLED" => admitted[o] # None
    <3>1. CASE Commit(h)
      BY <3>1 DEF Commit, ChainInv, ChainTypeOK, CommittedByPayer
    <3>2. CASE Update(h)
      BY <3>2 DEF Update, ChainInv, ChainTypeOK, CommittedByPayer, Envelopes, HasPayer
    <3>3. CASE Fail(h)
      BY <3>3 DEF Fail, ChainInv, CommittedByPayer
    <3> QED BY <3>1, <3>2, <3>3
  <2> QED BY <1>2, <2>1 DEF ChainInv, CommittedByPayer, vars
<1>7. RefusedOnlyEnded'
  BY <1>2 DEF ChainInv, RefusedOnlyEnded, Visible, vars
<1> QED BY <1>1, <1>4, <1>5, <1>6, <1>7 DEF ChainInv
-----------------------------------------------------------------------------
\* Nobody has paid, and nothing is under way.
LEMMA ChainInitInv == ChainInit => ChainInv
<1> SUFFICES ASSUME ChainInit PROVE ChainInv
  OBVIOUS
<1>1. IInv
  BY InitIInv DEF ChainInit
<1>2. ChainTypeOK /\ Envelopes
  BY DEF ChainInit, ChainTypeOK, Envelopes, HasPayer, Free
<1>3. CommittedByPayer /\ RefusedOnlyEnded
  BY DEF ChainInit, CommittedByPayer, RefusedOnlyEnded
<1> QED BY <1>1, <1>2, <1>3 DEF ChainInv

\* Every step of the services and of IAM keeps the invariant.
LEMMA ChainStep == ChainInv /\ [ChainNext]_allVars => ChainInv'
<1> SUFFICES ASSUME ChainInv, [ChainNext]_allVars PROVE ChainInv'
  OBVIOUS
<1>1. CASE [Next]_vars /\ UNCHANGED chainVars
  BY <1>1, IamKeepsChain
<1>2. CASE Carry /\ UNCHANGED vars
  <2>0. UNCHANGED vars
    BY <1>2
  <2>1. PICK h \in Handlers :
          \/ \E o \in Orders, s \in issued : PayRequest(h, o, s)
          \/ \E m \in paidTopic : OrderPaidHandler(h, m)
          \/ \E m \in shipTopic : ShipAssembledHandler(h, m)
          \/ ProduceOrderPaid(h) \/ Commit(h) \/ ProduceShipAssembled(h)
          \/ Admit(h) \/ Unauthenticated(h) \/ Update(h) \/ Fail(h)
    BY <1>2 DEF Carry
  <2>2. ASSUME NEW o \in Orders, NEW s \in issued, PayRequest(h, o, s) PROVE ChainInv'
    BY <2>0, <2>2, TakeUp DEF PayRequest
  <2>3. ASSUME NEW m \in paidTopic, OrderPaidHandler(h, m) PROVE ChainInv'
    <3>1. PICK s \in payers[m.order] : m.headers = <<[key |-> SessionHeaderKey, value |-> s]>>
      BY DEF ChainInv, Envelopes, Carries
    <3>2. m.order \in Orders /\ s \in issued /\ s \in Sessions
      BY DEF ChainInv, ChainTypeOK, Envelopes, Carries
    <3>3. Works(h, "Assemble", m.order, s)
      BY <2>3, <3>1, <3>2, HeaderBack DEF OrderPaidHandler
    <3> QED BY <2>0, <2>3, <3>2, <3>3, TakeUp DEF OrderPaidHandler
  <2>4. ASSUME NEW m \in shipTopic, ShipAssembledHandler(h, m) PROVE ChainInv'
    <3>1. PICK s \in payers[m.order] : m.headers = <<[key |-> SessionHeaderKey, value |-> s]>>
      BY DEF ChainInv, Envelopes, Carries
    <3>2. m.order \in Orders /\ s \in issued /\ s \in Sessions
      BY DEF ChainInv, ChainTypeOK, Envelopes, Carries
    <3>3. Works(h, "CommitParts", m.order, s)
      BY <2>4, <3>1, <3>2, HeaderBack DEF ShipAssembledHandler
    <3> QED BY <2>0, <2>4, <3>2, <3>3, TakeUp DEF ShipAssembledHandler
  <2> QED BY <2>0, <2>1, <2>2, <2>3, <2>4, ProduceOrderPaidStep, ProduceShipAssembledStep, AdmitStep,
             UnauthenticatedStep, EndStep
<1> QED BY <1>1, <1>2 DEF ChainNext, allVars

\* Parts leave the stock only under the session of one who has paid for the
\* order, within its lifetime and before its Logout (the inventory's Auth).
THEOREM CommittedByPayerHolds == ChainSpec => []CommittedByPayer
<1>1. ChainInv => CommittedByPayer
  BY DEF ChainInv
<1> QED BY <1>1, ChainInitInv, ChainStep, PTL DEF ChainSpec

\* No hop of the chain loses the session: CommitParts is refused only when it
\* has ended (session.go).
THEOREM RefusedOnlyEndedHolds == ChainSpec => []RefusedOnlyEnded
<1>1. ChainInv => RefusedOnlyEnded
  BY DEF ChainInv
<1> QED BY <1>1, ChainInitInv, ChainStep, PTL DEF ChainSpec
=============================================================================
