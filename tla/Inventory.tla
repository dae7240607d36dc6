----------------------------- MODULE Inventory ------------------------------
(***************************************************************************)
(* The inventory service as it is written: ReserveParts, ReleaseParts and  *)
(* CommitParts, each one a database transaction that                       *)
(*   - SELECTs the rows FOR UPDATE (repository/part/query_parts.go), which *)
(*     locks them one after the other in the order of the ORDER BY and     *)
(*     reads each row as it is committed at the moment its lock is granted *)
(*     (PostgreSQL, READ COMMITTED),                                       *)
(*   - checks that each uuid found a row and that each row decodes,        *)
(*   - runs the entity's operation on the copies in memory, stopping at    *)
(*     the first error (service/application/part/*.go),                    *)
(*   - writes the copies back in one UPDATE and commits, which releases    *)
(*     the locks (repository/part/update_reserved.go).                     *)
(* Any error rolls back.  A transaction may also fail at any point for     *)
(* reasons of the database or of the caller's context, and the process may *)
(* crash.  The UPDATE and the COMMIT are one action: what the UPDATE wrote *)
(* is visible to nobody else before the COMMIT, the rows being locked.     *)
(***************************************************************************)
EXTENDS PartCalls

CONSTANTS
  NameRank,  \* the rank of each part's name in ORDER BY name (names may repeat)
  NoTx       \* no transaction holds the lock

ASSUME NameRankAssumption == NameRank \in [Parts -> Nat]

ASSUME NoTxAssumption == NoTx \notin Calls

VARIABLES
  rows,   \* the committed rows of the parts table
  call,   \* the call being served in each slot, or NoCall
  reply,  \* the code of the last reply of each slot, "none" before the first
  lock,   \* the transaction holding each row's lock, or NoTx
  pc,     \* where the handler of each slot is
  view    \* the entities each transaction works on

vars == <<rows, call, reply, lock, pc, view>>

PCs == {"idle", "auth", "lock", "domain", "commit"}

NoView == [p \in Parts |-> [stock |-> 0, reserved |-> 0]]

Held(t) == {p \in Parts : lock[p] = t}

Unlocked(t) == Target(call[t]) \ Held(t)

(* Mutant forms stand before the definition they replace. *)

\* The position of a row in the ORDER BY of the query.
SortKey(c, p) == IF c.uuids = <<>> THEN NameRank[p] ELSE p

\* Mutant: no ORDER BY.
NextRowAny(t, p) == p \in Unlocked(t)

\* p is a row the query of t may come to next.
NextRow(t, p) ==
  /\ p \in Unlocked(t)
  /\ \A q \in Unlocked(t) : SortKey(call[t], p) <= SortKey(call[t], q)

Init ==
  /\ rows \in [Parts -> [stock : 0 .. MaxStock, reserved : {0}]]
  /\ call = [t \in Calls |-> NoCall]
  /\ reply = [t \in Calls |-> "none"]
  /\ lock = [p \in Parts |-> NoTx]
  /\ pc = [t \in Calls |-> "idle"]
  /\ view = [t \in Calls |-> NoView]

\* Mutant: the row locks outlive the transaction.
ForgetButLocks(t) ==
  /\ pc' = [pc EXCEPT ![t] = "idle"]
  /\ view' = [view EXCEPT ![t] = NoView]
  /\ UNCHANGED lock

\* Both ends of a transaction drop its locks and its copies.
Forget(t) ==
  /\ lock' = [p \in Parts |-> IF lock[p] = t THEN NoTx ELSE lock[p]]
  /\ pc' = [pc EXCEPT ![t] = "idle"]
  /\ view' = [view EXCEPT ![t] = NoView]

Answer(t, code) ==
  /\ call' = [call EXCEPT ![t] = NoCall]
  /\ reply' = [reply EXCEPT ![t] = code]

Rollback(t, code) == Answer(t, code) /\ Forget(t) /\ UNCHANGED rows
-----------------------------------------------------------------------------
\* The gRPC server hands a request to a handler.
Receive(t) ==
  /\ pc[t] = "idle"
  /\ \E c \in CallSet : call' = [call EXCEPT ![t] = c]
  /\ reply' = [reply EXCEPT ![t] = "none"]
  /\ pc' = [pc EXCEPT ![t] = "auth"]
  /\ UNCHANGED <<rows, lock, view>>

\* The session in the metadata is missing, or IAM does not vouch for it.
AuthError(t) ==
  /\ pc[t] = "auth"
  /\ Rollback(t, "Unauthenticated")

\* The session is valid; uuid.Parse then fails on an element of the list.
ParseError(t) ==
  /\ pc[t] = "auth" /\ ~Parses(call[t])
  /\ Rollback(t, "InvalidArgument")

\* The session is valid, the uuids parse and the transaction begins.
BeginTx(t) ==
  /\ pc[t] = "auth" /\ Parses(call[t])
  /\ pc' = [pc EXCEPT ![t] = "lock"]
  /\ UNCHANGED <<rows, call, reply, lock, view>>

\* Mutant: a SELECT that does not wait for the lock.
LockRowNoWait(t, p) ==
  /\ pc[t] = "lock"
  /\ NextRow(t, p)
  /\ lock' = [lock EXCEPT ![p] = t]
  /\ view' = [view EXCEPT ![t][p] = rows[p]]
  /\ UNCHANGED <<rows, call, reply, pc>>

\* SELECT ... FOR UPDATE comes to its next row and waits until it is free.
LockRow(t, p) ==
  /\ pc[t] = "lock"
  /\ NextRow(t, p)
  /\ lock[p] = NoTx
  /\ lock' = [lock EXCEPT ![p] = t]
  /\ view' = [view EXCEPT ![t][p] = rows[p]]
  /\ UNCHANGED <<rows, call, reply, pc>>

\* mapAndOrder: the number of rows found against the number of uuids asked.
PartNotFound(t) ==
  /\ pc[t] = "lock" /\ Unlocked(t) = {}
  /\ ~WellNamed(call[t])
  /\ Rollback(t, "NotFound")

\* mapAndOrder: PartRecordToModel refuses the stored properties or type.  (JSON
\* that does not even unmarshal has no code of its own and ends as in Fail.)
InvalidProperties(t) ==
  /\ pc[t] = "lock" /\ Unlocked(t) = {}
  /\ WellNamed(call[t])
  /\ Target(call[t]) \cap Corrupt # {}
  /\ Rollback(t, "Internal")

\* Every row was found and decodes: the list of entities is complete.
Listed(t) ==
  /\ pc[t] = "lock" /\ Unlocked(t) = {}
  /\ WellNamed(call[t])
  /\ Target(call[t]) \cap Corrupt = {}
  /\ pc' = [pc EXCEPT ![t] = "domain"]
  /\ UNCHANGED <<rows, call, reply, lock, view>>

\* The loop over the entities returns at the first that refuses.
DomainError(t) ==
  /\ pc[t] = "domain"
  /\ \E p \in Target(call[t]) : ~Can(call[t].op, view[t][p])
  /\ Rollback(t, DomainCode(call[t].op))

\* Mutant: an entity that refuses is left out, the others are written.
DomainApplySome(t) ==
  LET c == call[t] IN
  /\ pc[t] = "domain"
  /\ view' = [view EXCEPT ![t] = [p \in Parts |->
                IF p \in Target(c) /\ Can(c.op, view[t][p]) THEN Apply(c.op, view[t][p]) ELSE view[t][p]]]
  /\ pc' = [pc EXCEPT ![t] = "commit"]
  /\ UNCHANGED <<rows, call, reply, lock>>

\* All the entities take the operation in memory.
DomainApply(t) ==
  LET c == call[t] IN
  /\ pc[t] = "domain"
  /\ \A p \in Target(c) : Can(c.op, view[t][p])
  /\ view' = [view EXCEPT ![t] = [p \in Parts |->
                IF p \in Target(c) THEN Apply(c.op, view[t][p]) ELSE view[t][p]]]
  /\ pc' = [pc EXCEPT ![t] = "commit"]
  /\ UNCHANGED <<rows, call, reply, lock>>

\* UpdateReservedBatch, COMMIT and the reply, which may be lost on the way.
\* RowsAffected = 0 cannot happen: the rows are locked and none is deleted.
CommitTx(t, code) ==
  /\ pc[t] = "commit"
  /\ rows' = [p \in Parts |-> IF p \in Target(call[t]) THEN view[t][p] ELSE rows[p]]
  /\ Answer(t, code)
  /\ Forget(t)

\* A database error (a detected deadlock is one) or a cancelled context.
Fail(t) ==
  /\ pc[t] \in {"lock", "domain", "commit"}
  /\ Rollback(t, "Unknown")

\* The process dies with all its transactions.
Crash ==
  /\ \E t \in Calls : pc[t] # "idle"
  /\ call' = [t \in Calls |-> NoCall]
  /\ reply' = [t \in Calls |-> IF call[t] # NoCall THEN "Unavailable" ELSE reply[t]]
  /\ lock' = [p \in Parts |-> NoTx]
  /\ pc' = [t \in Calls |-> "idle"]
  /\ view' = [t \in Calls |-> NoView]
  /\ UNCHANGED rows

Step(t) ==
  \/ AuthError(t)
  \/ ParseError(t)
  \/ BeginTx(t)
  \/ PartNotFound(t)
  \/ InvalidProperties(t)
  \/ Listed(t)
  \/ DomainError(t)
  \/ DomainApply(t)
  \/ \E code \in Unsure \cup {"OK"} : CommitTx(t, code)

Next ==
  \/ \E t \in Calls :
       \/ Receive(t)
       \/ \E p \in Parts : LockRow(t, p)
       \/ Step(t)
       \/ Fail(t)
  \/ Crash

Spec == Init /\ [][Next]_vars

\* t waits for a row that u has locked.
WaitsFor(t, u) ==
  /\ pc[t] = "lock"
  /\ \E p \in Parts : NextRow(t, p) /\ lock[p] = u

\* t is one of a set of transactions that wait for each other.
Deadlocked(t) ==
  \E D \in SUBSET Calls : t \in D /\ \A u \in D : \E w \in D : WaitsFor(u, w)

\* A handler runs on once it can; PostgreSQL grants a row lock to waiters in
\* the order of its queue, so no waiter is passed over for ever, and it fails
\* a transaction of every deadlock it finds.
Fairness ==
  /\ \A t \in Calls : /\ WF_vars(Step(t))
                      /\ SF_vars(\E p \in Parts : LockRow(t, p))
  /\ WF_vars(\E t \in Calls : Deadlocked(t) /\ Fail(t))

FairSpec == Spec /\ Fairness
-----------------------------------------------------------------------------
TypeOK ==
  /\ rows \in [Parts -> Row]
  /\ call \in [Calls -> CallSet \cup {NoCall}]
  /\ reply \in [Calls -> Codes \cup {"none"}]
  /\ lock \in [Parts -> Calls \cup {NoTx}]
  /\ pc \in [Calls -> PCs]
  /\ view \in [Calls -> [Parts -> Row]]

\* Concurrent orders never promise a unit twice: whatever the interleaving of
\* reserve, release and commit transactions (part.go Reserve, reserve.go), no
\* committed row has more reserved than in stock.
NeverOversold == \A p \in Parts : Covered(rows[p])

\* No lost update: from the moment a transaction has a row's lock until it has
\* run the domain operation, its copy is the committed row; so the blind write
\* of UpdateReservedBatch never overwrites a change the copy has not seen.
ReadsAreCurrent ==
  \A t \in Calls : \A p \in Held(t) :
    /\ pc[t] \in {"lock", "domain"} => view[t][p] = rows[p]
    /\ pc[t] = "commit" /\ p \in Target(call[t]) =>
         Can(call[t].op, rows[p]) /\ view[t][p] = Apply(call[t].op, rows[p])

\* "Ordering by uuid gives every transaction the same locking order"
\* (query_parts.go): in no set of transactions that name their parts does each
\* one wait for another of the set.  A call with an empty list means all the
\* parts, is sorted by name, and can deadlock with the others.
NoDeadlock ==
  \A D \in SUBSET {t \in Calls : call[t].uuids # <<>>} :
    D # {} => \E t \in D : \A u \in D : ~WaitsFor(t, u)

\* Every request that reaches a handler is answered: the locks of other
\* transactions (reserve.go holds them over the whole loop) hold it up, but
\* not for ever, not even when a call without uuids, which locks by name,
\* deadlocks with them.
EveryCallAnswered == \A t \in Calls : pc[t] # "idle" ~> pc[t] = "idle"

\* The service keeps the promise of PartLedger: each call is atomic, and its
\* reply tells the truth about the rows at the instant it takes effect.
Ledger == INSTANCE PartLedger WITH rows <- rows, call <- call, reply <- reply

ImplementsLedger == Ledger!Spec
=============================================================================
