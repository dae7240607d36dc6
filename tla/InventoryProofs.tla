-------------------------- MODULE InventoryProofs ---------------------------
(***************************************************************************)
(* Proofs about Inventory for any number of parts, calls and units.        *)
(***************************************************************************)
EXTENDS Inventory, FiniteSetTheorems, WellFoundedInduction, TLAPS

\* An operation of the Part entity whose guard holds yields a row, and keeps it
\* covered (part.go: Reserve, Release and Commit).
LEMMA ApplyRow ==
  ASSUME NEW op \in Ops, NEW row \in Row, Can(op, row)
  PROVE  /\ Apply(op, row) \in Row
         /\ Covered(row) => Covered(Apply(op, row))
<1>1. CASE op = "Reserve"
  BY <1>1 DEF Ops, Row, Can, Apply, CanReserve, Reserve, Covered
<1>2. CASE op = "Release"
  BY <1>2 DEF Ops, Row, Can, Apply, CanRelease, Release, Covered
<1>3. CASE op = "Commit"
  BY <1>3 DEF Ops, Row, Can, Apply, CanCommit, Commit, Covered
<1> QED BY <1>1, <1>2, <1>3 DEF Ops

\* The handler has begun its transaction.
InTx(t) == pc[t] \in {"lock", "domain", "commit"}

\* A slot is busy exactly while it has a call.
BusyIffCalled == \A t \in Calls : pc[t] = "idle" <=> call[t] = NoCall

\* A lock belongs to a running transaction whose call is about that row.
LocksOwned ==
  \A p \in Parts : lock[p] # NoTx => InTx(lock[p]) /\ p \in Target(call[lock[p]])

\* What the handler has checked and locked so far.
Progress ==
  \A t \in Calls :
    /\ InTx(t) => Parses(call[t])
    /\ pc[t] \in {"domain", "commit"} => Target(call[t]) \subseteq Held(t) /\ InOrder(call[t])

\* The inductive invariant behind NeverOversold and ReadsAreCurrent.
IInv ==
  /\ TypeOK
  /\ BusyIffCalled
  /\ LocksOwned
  /\ Progress
  /\ ReadsAreCurrent
  /\ NeverOversold

\* A transaction still locking has so far taken rows that come before the
\* rest of its rows in the ORDER BY (query_parts.go, buildListQuery).
LockOrdered ==
  \A t \in Calls : pc[t] = "lock" =>
    \A p \in Held(t), q \in Unlocked(t) : SortKey(call[t], p) <= SortKey(call[t], q)
-----------------------------------------------------------------------------
\* NoCall is no call: its operation is none of the three.
LEMMA NoCallIsNone == NoCall \notin CallSet
BY DEF NoCall, CallSet, Ops

\* The rows a call is about are rows of the table.
LEMMA TargetInParts == ASSUME NEW c PROVE Target(c) \subseteq Parts
BY DEF Target

\* Rolling back one transaction, at any point and with any reply code,
\* preserves the invariant (the error returns of reserve.go, release.go and
\* commit.go all end in the rollback of txManager.Do).
LEMMA RollbackKeeps ==
  ASSUME IInv, NEW t \in Calls, NEW code \in Codes, Rollback(t, code)
  PROVE  IInv'
<1> USE NoTxAssumption
<1> USE DEF IInv, Rollback, Answer, Forget
<1>1. TypeOK'
  BY DEF TypeOK, Row, NoView, PCs
<1>2. BusyIffCalled'
  BY DEF TypeOK, BusyIffCalled
<1>3. LocksOwned'
  BY DEF TypeOK, LocksOwned, InTx
<1>4. Progress'
  BY DEF TypeOK, Progress, InTx, Held
<1>5. ReadsAreCurrent'
  BY DEF TypeOK, ReadsAreCurrent, Held
<1>6. NeverOversold'
  BY DEF NeverOversold
<1> QED BY <1>1, <1>2, <1>3, <1>4, <1>5, <1>6

\* The initial state satisfies the invariant: nothing is reserved or locked.
LEMMA InitIInv == Init => IInv
<1> SUFFICES ASSUME Init PROVE IInv
  OBVIOUS
<1> USE NoTxAssumption, MaxStockAssumption
<1> USE DEF Init, IInv
<1>1. TypeOK
  BY DEF TypeOK, Row, NoView, PCs
<1>2. BusyIffCalled /\ LocksOwned /\ Progress
  BY DEF BusyIffCalled, LocksOwned, Progress, InTx
<1>3. ReadsAreCurrent
  BY DEF ReadsAreCurrent, Held
<1>4. NeverOversold
  BY DEF NeverOversold, Covered
<1> QED BY <1>1, <1>2, <1>3, <1>4

\* Receiving a request occupies an idle slot, which holds no lock.
LEMMA ReceiveKeeps ==
  ASSUME IInv, NEW t \in Calls, Receive(t)
  PROVE  IInv'
<1> USE NoTxAssumption
<1> USE DEF IInv, Receive
<1>0. PICK c \in CallSet : call' = [call EXCEPT ![t] = c]
  OBVIOUS
<1>1. TypeOK'
  BY <1>0 DEF TypeOK, PCs, Codes
<1>2. BusyIffCalled'
  BY <1>0, NoCallIsNone DEF TypeOK, BusyIffCalled
<1>3. LocksOwned'
  BY <1>0 DEF TypeOK, LocksOwned, InTx
<1>4. Progress'
  BY <1>0 DEF TypeOK, Progress, InTx, Held
<1>5. ReadsAreCurrent'
  BY <1>0 DEF TypeOK, ReadsAreCurrent, Held
<1>6. NeverOversold'
  BY DEF NeverOversold
<1> QED BY <1>1, <1>2, <1>3, <1>4, <1>5, <1>6

\* Granting a row lock copies the committed row into the transaction.
LEMMA LockRowKeeps ==
  ASSUME IInv, NEW t \in Calls, NEW p \in Parts, LockRow(t, p)
  PROVE  IInv'
<1> USE NoTxAssumption
<1> USE DEF IInv, LockRow
<1>1. TypeOK'
  BY DEF TypeOK
<1>2. BusyIffCalled'
  BY DEF TypeOK, BusyIffCalled
<1>3. LocksOwned'
  BY DEF TypeOK, LocksOwned, InTx, NextRow, Unlocked
<1>4. Progress'
  BY DEF TypeOK, Progress, InTx, Held
<1>5. ReadsAreCurrent'
  BY DEF TypeOK, ReadsAreCurrent, Held
<1>6. NeverOversold'
  BY DEF NeverOversold
<1> QED BY <1>1, <1>2, <1>3, <1>4, <1>5, <1>6

\* The domain loop changes only the transaction's own copies.
LEMMA DomainApplyKeeps ==
  ASSUME IInv, NEW t \in Calls, DomainApply(t)
  PROVE  IInv'
<1> USE NoTxAssumption
<1> USE DEF IInv, DomainApply
<1>0. call[t] \in CallSet /\ call[t].op \in Ops
  BY DEF TypeOK, BusyIffCalled, CallSet
<1>1. TypeOK'
  <2>1. \A p \in Parts : (IF p \in Target(call[t]) THEN Apply(call[t].op, view[t][p]) ELSE view[t][p]) \in Row
    BY <1>0, ApplyRow DEF TypeOK
  <2> QED BY <2>1 DEF TypeOK, PCs
<1>2. BusyIffCalled'
  BY DEF TypeOK, BusyIffCalled
<1>3. LocksOwned'
  BY DEF TypeOK, LocksOwned, InTx
<1>4. Progress'
  BY DEF TypeOK, Progress, InTx, Held
<1>5. ReadsAreCurrent'
  BY DEF TypeOK, ReadsAreCurrent, Held
<1>6. NeverOversold'
  BY DEF NeverOversold
<1> QED BY <1>1, <1>2, <1>3, <1>4, <1>5, <1>6

\* What a commit writes: the operation applied to the committed rows, and
\* nothing to the rows of other transactions.
LEMMA CommitWrites ==
  ASSUME IInv, NEW t \in Calls, NEW code, CommitTx(t, code)
  PROVE  /\ InOrder(call[t])
         /\ \A p \in Target(call[t]) :
              lock[p] = t /\ Can(call[t].op, rows[p]) /\ view[t][p] = Apply(call[t].op, rows[p])
         /\ rows' = [p \in Parts |-> IF p \in Target(call[t]) THEN Apply(call[t].op, rows[p])
                                    ELSE rows[p]]
<1> USE TargetInParts
<1>1. InOrder(call[t]) /\ Target(call[t]) \subseteq Held(t)
  BY DEF IInv, Progress, CommitTx
<1>2. \A p \in Target(call[t]) :
        lock[p] = t /\ Can(call[t].op, rows[p]) /\ view[t][p] = Apply(call[t].op, rows[p])
  BY <1>1 DEF IInv, ReadsAreCurrent, Held, CommitTx
<1> QED BY <1>1, <1>2 DEF CommitTx

\* Committing keeps the invariant: every other transaction holds other rows.
LEMMA CommitTxKeeps ==
  ASSUME IInv, NEW t \in Calls, NEW code \in Codes, CommitTx(t, code)
  PROVE  IInv'
<1> USE NoTxAssumption
<1>0. call[t] \in CallSet /\ call[t].op \in Ops
  BY DEF IInv, TypeOK, BusyIffCalled, CallSet, CommitTx
<1>1. TypeOK'
  BY DEF IInv, CommitTx, Answer, Forget, TypeOK, Row, NoView, PCs
<1>2. BusyIffCalled'
  BY DEF IInv, CommitTx, Answer, Forget, TypeOK, BusyIffCalled
<1>3. LocksOwned'
  BY DEF IInv, CommitTx, Answer, Forget, TypeOK, LocksOwned, InTx
<1>4. Progress'
  BY DEF IInv, CommitTx, Answer, Forget, TypeOK, Progress, InTx, Held
<1>5. ReadsAreCurrent'
  <2> SUFFICES ASSUME NEW u \in Calls, NEW p \in Parts, lock'[p] = u
               PROVE  /\ pc'[u] \in {"lock", "domain"} => view'[u][p] = rows'[p]
                      /\ pc'[u] = "commit" /\ p \in Target(call'[u]) =>
                           Can(call'[u].op, rows'[p]) /\ view'[u][p] = Apply(call'[u].op, rows'[p])
    BY DEF ReadsAreCurrent, Held
  <2>1. u # t /\ lock[p] = u
    BY DEF CommitTx, Forget
  <2>2. rows'[p] = rows[p]
    BY <2>1, CommitWrites
  <2>3. pc'[u] = pc[u] /\ call'[u] = call[u] /\ view'[u] = view[u]
    BY <2>1 DEF IInv, TypeOK, CommitTx, Answer, Forget
  <2> QED BY <2>1, <2>2, <2>3 DEF IInv, ReadsAreCurrent, Held
<1>6. NeverOversold'
  BY <1>0, CommitWrites, ApplyRow DEF IInv, TypeOK, NeverOversold
<1> QED BY <1>1, <1>2, <1>3, <1>4, <1>5, <1>6 DEF IInv

\* The steps that only move the handler on keep the invariant.
LEMMA ProceedKeeps ==
  ASSUME IInv, NEW t \in Calls, BeginTx(t) \/ Listed(t)
  PROVE  IInv'
<1> USE NoTxAssumption
<1>0. (InOrder(call[t]) /\ Target(call[t]) \subseteq Held(t)) \/ BeginTx(t)
  BY DEF IInv, Progress, InTx, Listed, InOrder, Unlocked
<1> USE DEF IInv, BeginTx, Listed
<1>1. TypeOK'
  BY DEF TypeOK, PCs
<1>2. BusyIffCalled'
  BY DEF TypeOK, BusyIffCalled
<1>3. LocksOwned'
  BY DEF TypeOK, LocksOwned, InTx
<1>4. Progress'
  BY <1>0 DEF TypeOK, Progress, InTx, Held
<1>5. ReadsAreCurrent'
  BY DEF TypeOK, ReadsAreCurrent, Held, LocksOwned, InTx
<1>6. NeverOversold'
  BY DEF NeverOversold
<1> QED BY <1>1, <1>2, <1>3, <1>4, <1>5, <1>6

\* A crash leaves the committed rows and nothing else.
LEMMA CrashKeeps ==
  ASSUME IInv, Crash
  PROVE  IInv'
<1> USE NoTxAssumption
<1> USE DEF IInv, Crash
<1>1. TypeOK'
  BY DEF TypeOK, Row, NoView, PCs, Codes
<1>2. BusyIffCalled' /\ LocksOwned' /\ Progress'
  BY DEF BusyIffCalled, LocksOwned, Progress, InTx
<1>3. ReadsAreCurrent' /\ NeverOversold'
  BY DEF ReadsAreCurrent, Held, NeverOversold
<1> QED BY <1>1, <1>2, <1>3

\* Every error return is a rollback with one of the codes.
LEMMA ErrorIsRollback ==
  ASSUME NEW t \in Calls,
         \/ AuthError(t) \/ ParseError(t) \/ PartNotFound(t)
         \/ InvalidProperties(t) \/ DomainError(t) \/ Fail(t)
  PROVE  \E code \in Codes : Rollback(t, code)
BY DEF AuthError, ParseError, PartNotFound, InvalidProperties, DomainError, Fail, Codes, DomainCode

\* Every step of the service preserves the invariant.
LEMMA NextKeeps == IInv /\ [Next]_vars => IInv'
<1> SUFFICES ASSUME IInv, [Next]_vars PROVE IInv'
  OBVIOUS
<1>1. CASE UNCHANGED vars
  BY <1>1 DEF vars, IInv, TypeOK, BusyIffCalled, LocksOwned, Progress, ReadsAreCurrent,
              NeverOversold, InTx, Held
<1>2. ASSUME NEW t \in Calls, Receive(t) PROVE IInv'
  BY <1>2, ReceiveKeeps
<1>3. ASSUME NEW t \in Calls, NEW p \in Parts, LockRow(t, p) PROVE IInv'
  BY <1>3, LockRowKeeps
<1>4. ASSUME NEW t \in Calls,
             \/ AuthError(t) \/ ParseError(t) \/ PartNotFound(t)
             \/ InvalidProperties(t) \/ DomainError(t) \/ Fail(t)
      PROVE  IInv'
  BY <1>4, ErrorIsRollback, RollbackKeeps
<1>5. ASSUME NEW t \in Calls, BeginTx(t) \/ Listed(t) PROVE IInv'
  BY <1>5, ProceedKeeps
<1>6. ASSUME NEW t \in Calls, DomainApply(t) PROVE IInv'
  BY <1>6, DomainApplyKeeps
<1>7. ASSUME NEW t \in Calls, NEW code \in Unsure \cup {"OK"}, CommitTx(t, code) PROVE IInv'
  BY <1>7, CommitTxKeeps DEF Unsure, Codes
<1>8. CASE Crash
  BY <1>8, CrashKeeps
<1> QED BY <1>1, <1>2, <1>3, <1>4, <1>5, <1>6, <1>7, <1>8 DEF Next, Step
-----------------------------------------------------------------------------
\* The variables keep their types in every behaviour of the service.
THEOREM TypeCorrect == Spec => []TypeOK
<1>1. IInv => TypeOK
  BY DEF IInv
<1> QED BY <1>1, InitIInv, NextKeeps, PTL DEF Spec

\* For any number of concurrent calls, no committed row of the parts table
\* has more reserved than in stock (part.go Reserve under reserve.go).
THEOREM NeverOversoldHolds == Spec => []NeverOversold
<1>1. IInv => NeverOversold
  BY DEF IInv
<1> QED BY <1>1, InitIInv, NextKeeps, PTL DEF Spec

\* For any number of concurrent calls, what UpdateReservedBatch writes was
\* computed from the rows that are committed when it writes.
THEOREM NoLostUpdate == Spec => []ReadsAreCurrent
<1>1. IInv => ReadsAreCurrent
  BY DEF IInv
<1> QED BY <1>1, InitIInv, NextKeeps, PTL DEF Spec
-----------------------------------------------------------------------------
\* A non-empty finite set of natural numbers has a largest element.
LEMMA HasLargest ==
  ASSUME NEW S \in SUBSET Nat, IsFiniteSet(S), S # {}
  PROVE  \E x \in S : \A y \in S : y <= x
<1> DEFINE Above(x) == {y \in S : y > x}
           T == {Above(x) : x \in S}
           R == StrictSubsetOrdering(S)
<1>1. IsWellFoundedOn(R, SUBSET S)
  BY FS_StrictSubsetOrderingWellFounded, FS_FiniteSubsetsOfFinite
<1>2. T \subseteq SUBSET S /\ T # {}
  OBVIOUS
<1> HIDE DEF R
<1>3. PICK M \in T : \A N \in T : ~(<<N, M>> \in R)
  BY <1>1, <1>2, WFMin
<1>4. PICK x \in S : M = Above(x)
  OBVIOUS
<1>5. ASSUME NEW y \in S, y > x PROVE FALSE
  <2>0. \A z \in S : z \in Nat
    OBVIOUS
  <2>a. \A z \in S : z > y => z > x
    BY <1>5, <2>0
  <2>b. y \in Above(x) /\ y \notin Above(y)
    BY <1>5, <2>0
  <2>1. Above(y) \subseteq Above(x) /\ Above(y) # Above(x)
    BY <2>a, <2>b
  <2>2. <<Above(y), Above(x)>> \in R
    BY <2>1 DEF R, StrictSubsetOrdering
  <2> QED BY <1>3, <1>4, <2>2
<1> QED BY <1>5

\* Rows are locked in the order of the ORDER BY, whatever the interleaving.
LEMMA LockOrderedKept == IInv /\ LockOrdered /\ [Next]_vars => LockOrdered'
<1> SUFFICES ASSUME IInv, LockOrdered, [Next]_vars,
                    NEW t \in Calls, pc'[t] = "lock",
                    NEW p \in Parts, lock'[p] = t, NEW q \in Unlocked(t)'
             PROVE  SortKey(call'[t], p) <= SortKey(call'[t], q)
  BY DEF LockOrdered, Held, SortKey
<1> USE NoTxAssumption
<1>1. CASE pc[t] = "lock" /\ lock[p] = t /\ call'[t] = call[t] /\ Held(t) \subseteq Held(t)'
  BY <1>1 DEF LockOrdered, Held, Unlocked, SortKey
<1>2. CASE UNCHANGED vars
  BY <1>1, <1>2 DEF vars, Held
<1>3. ASSUME NEW u \in Calls, Receive(u) \/ BeginTx(u) \/ Listed(u) \/ DomainApply(u)
      PROVE  SortKey(call'[t], p) <= SortKey(call'[t], q)
  BY <1>1, <1>3 DEF Receive, BeginTx, Listed, DomainApply, IInv, TypeOK, LocksOwned, InTx, Held
<1>4. ASSUME NEW u \in Calls, NEW r \in Parts, LockRow(u, r)
      PROVE  SortKey(call'[t], p) <= SortKey(call'[t], q)
  <2>1. CASE lock[p] = t
    BY <1>1, <1>4, <2>1 DEF LockRow, IInv, TypeOK, Held
  <2>2. CASE lock[p] # t
    BY <1>4, <2>2 DEF LockRow, IInv, TypeOK, Held, NextRow, Unlocked
  <2> QED BY <2>1, <2>2
<1>5. ASSUME NEW u \in Calls, NEW code, Rollback(u, code) \/ CommitTx(u, code)
      PROVE  SortKey(call'[t], p) <= SortKey(call'[t], q)
  BY <1>1, <1>5 DEF Rollback, CommitTx, Answer, Forget, IInv, TypeOK, Held
<1>6. CASE Crash
  BY <1>6 DEF Crash
<1> QED BY <1>2, <1>3, <1>4, <1>5, <1>6, ErrorIsRollback DEF Next, Step

\* When all transactions lock in uuid order there is no set of transactions
\* that wait for each other.
LEMMA OrderedMeansNoDeadlock ==
  ASSUME IInv, LockOrdered
  PROVE  NoDeadlock
<1> SUFFICES ASSUME NEW D \in SUBSET {t \in Calls : call[t].uuids # <<>>}, D # {},
                    \A t \in D : \E u \in D : WaitsFor(t, u)
             PROVE  FALSE
  BY DEF NoDeadlock
<1> DEFINE W == {p \in Parts : lock[p] \in D /\ \E t \in D : pc[t] = "lock" /\ NextRow(t, p)}
<1>1. W # {}
  BY DEF WaitsFor
<1>2. W \in SUBSET Nat /\ IsFiniteSet(W)
  BY PartsAssumption, FS_Subset
<1>3. PICK p \in W : \A q \in W : q <= p
  BY <1>1, <1>2, HasLargest
<1> DEFINE u == lock[p]
<1>4. u \in Calls /\ pc[u] = "lock" /\ p \in Held(u)
  BY DEF WaitsFor, Held
<1>5. PICK q \in Parts : NextRow(u, q) /\ lock[q] \in D
  BY DEF WaitsFor
<1>6. q \in W /\ q \in Unlocked(u) /\ q # p
  BY <1>4, <1>5 DEF NextRow, Unlocked, Held
<1>7. call[u].uuids # <<>>
  OBVIOUS
<1>8. p <= q
  BY <1>4, <1>6, <1>7 DEF LockOrdered, SortKey
<1> QED BY <1>2, <1>3, <1>6, <1>8

\* PostgreSQL never finds a deadlock among the transactions that name their
\* parts, whatever calls with an empty list run beside them: what the comment
\* in buildListQuery says holds for any number of parts and of calls.
THEOREM DeadlockFree == Spec => []NoDeadlock
<1>1. Init => IInv /\ LockOrdered
  BY InitIInv DEF Init, LockOrdered
<1>2. IInv /\ LockOrdered /\ [Next]_vars => (IInv /\ LockOrdered)'
  BY NextKeeps, LockOrderedKept
<1>3. IInv /\ LockOrdered => NoDeadlock
  BY OrderedMeansNoDeadlock
<1> QED BY <1>1, <1>2, <1>3, PTL DEF Spec
-----------------------------------------------------------------------------
\* The ledger speaks of calls in the same terms as the service.
LEMMA SameVocabulary ==
  /\ Ledger!NoCall = NoCall
  /\ Ledger!CallSet = CallSet
  /\ Ledger!Codes = Codes
  /\ Ledger!Unsure = Unsure
  /\ \A op : Ledger!DomainCode(op) = DomainCode(op)
  /\ \A c : Ledger!Target(c) = Target(c)
  /\ \A c : Ledger!Parses(c) <=> Parses(c)
  /\ \A c : Ledger!WellNamed(c) <=> WellNamed(c)
  /\ \A c : Ledger!InOrder(c) <=> InOrder(c)
  /\ \A op, row : Ledger!Can(op, row) <=> Can(op, row)
  /\ \A op, row : Ledger!Apply(op, row) = Apply(op, row)
<1>1. Ledger!NoCall = NoCall /\ Ledger!Codes = Codes /\ Ledger!Unsure = Unsure
  BY DEF Ledger!NoCall, NoCall, Ledger!Codes, Codes, Ledger!Unsure, Unsure
<1>2. Ledger!CallSet = CallSet
  BY DEF Ledger!CallSet, CallSet, Ledger!Ops, Ops
<1>3. \A op : Ledger!DomainCode(op) = DomainCode(op)
  BY DEF Ledger!DomainCode, DomainCode
<1>4. \A c : Ledger!Target(c) = Target(c) /\ Ledger!Named(c.uuids) = Named(c.uuids)
  BY DEF Ledger!Target, Target, Ledger!Named, Named
<1>5. \A c : (Ledger!Parses(c) <=> Parses(c)) /\ (Ledger!WellNamed(c) <=> WellNamed(c))
  BY <1>4 DEF Ledger!Parses, Parses, Ledger!WellNamed, WellNamed, Ledger!Cardinality, Cardinality
<1>6. \A c : Ledger!InOrder(c) <=> InOrder(c)
  BY <1>4, <1>5 DEF Ledger!InOrder, InOrder
<1>7. \A op, row : Ledger!Can(op, row) <=> Can(op, row)
  BY DEF Ledger!Can, Can, Ledger!CanReserve, CanReserve, Ledger!CanRelease, CanRelease,
         Ledger!CanCommit, CanCommit
<1>8. \A op, row : Ledger!Apply(op, row) = Apply(op, row)
  BY DEF Ledger!Apply, Apply, Ledger!Reserve, Reserve, Ledger!Release, Release,
         Ledger!Commit, Commit
<1> QED BY <1>1, <1>2, <1>3, <1>4, <1>5, <1>6, <1>7, <1>8

\* Every step of the service is a step of the ledger or leaves it alone.
LEMMA StepSimulation == IInv /\ [Next]_vars => [Ledger!Next]_(Ledger!vars)
<1> SUFFICES ASSUME IInv, [Next]_vars
             PROVE  Ledger!Next \/ UNCHANGED <<rows, call, reply>>
  BY DEF Ledger!vars
<1> USE SameVocabulary
<1>1. CASE UNCHANGED vars
  BY <1>1 DEF vars
<1>2. ASSUME NEW t \in Calls, Receive(t) PROVE Ledger!Invoke(t)
  BY <1>2 DEF Receive, Ledger!Invoke, IInv, BusyIffCalled
<1>3. ASSUME NEW t \in Calls,
             \/ BeginTx(t) \/ Listed(t) \/ DomainApply(t) \/ \E p \in Parts : LockRow(t, p)
      PROVE  UNCHANGED <<rows, call, reply>>
  BY <1>3 DEF BeginTx, Listed, DomainApply, LockRow
<1>4. ASSUME NEW t \in Calls,
             \/ AuthError(t) \/ ParseError(t) \/ PartNotFound(t)
             \/ InvalidProperties(t) \/ DomainError(t)
      PROVE  Ledger!Refuse(t)
  <2>1. call[t] # NoCall
    BY <1>4 DEF AuthError, ParseError, PartNotFound, InvalidProperties, DomainError,
                IInv, BusyIffCalled
  <2>2. PICK code \in Codes : Rollback(t, code) /\ Ledger!Justified(call[t], code)
    <3>1. CASE AuthError(t)
      BY <3>1 DEF AuthError, Ledger!Justified, Codes
    <3>2. CASE ParseError(t)
      BY <3>2 DEF ParseError, Ledger!Justified, Codes
    <3>3. CASE PartNotFound(t) \/ InvalidProperties(t)
      BY <3>3 DEF PartNotFound, InvalidProperties, Ledger!Justified, Codes, IInv, Progress, InTx
    <3>4. CASE DomainError(t)
      <4>1. InOrder(call[t]) /\ Target(call[t]) \subseteq Held(t)
        BY <3>4 DEF DomainError, IInv, Progress
      <4>2. \E p \in Target(call[t]) : ~Can(call[t].op, rows[p])
        BY <3>4, <4>1 DEF DomainError, IInv, ReadsAreCurrent
      <4> QED BY <3>4, <4>1, <4>2 DEF DomainError, Ledger!Justified, Codes, DomainCode
    <3> QED BY <1>4, <3>1, <3>2, <3>3, <3>4
  <2> QED BY <2>1, <2>2 DEF Rollback, Answer, Ledger!Refuse, Ledger!Answer
<1>5. ASSUME NEW t \in Calls, NEW code \in Unsure \cup {"OK"}, CommitTx(t, code)
      PROVE  Ledger!Perform(t)
  <2>1. call[t] # NoCall
    BY <1>5 DEF CommitTx, IInv, BusyIffCalled
  <2> QED BY <1>5, <2>1, CommitWrites DEF CommitTx, Answer, Ledger!Perform, Ledger!Answer
<1>6. ASSUME NEW t \in Calls, Fail(t) PROVE Ledger!GiveUp({t}, "Unknown")
  BY <1>6 DEF Fail, Rollback, Answer, Ledger!GiveUp, IInv, TypeOK, BusyIffCalled
<1>7. CASE Crash
  <2> DEFINE S == {t \in Calls : call[t] # NoCall}
  <2>1. Ledger!GiveUp(S, "Unavailable")
    BY <1>7 DEF Crash, Ledger!GiveUp, IInv, TypeOK
  <2> QED BY <2>1 DEF Ledger!Next, Unsure
<1>8. ASSUME NEW t \in Calls, Fail(t) PROVE Ledger!Next
  BY <1>6, <1>8 DEF Ledger!Next, Unsure
<1> QED BY <1>1, <1>2, <1>3, <1>4, <1>5, <1>7, <1>8 DEF Next, Step, Ledger!Next

\* The service implements the ledger: for its callers each ReserveParts,
\* ReleaseParts and CommitParts is atomic, all or nothing, and answered
\* truthfully, however many of them run at once.
THEOREM InventoryImplementsLedger == Spec => ImplementsLedger
<1>1. Init => Ledger!Init
  BY SameVocabulary DEF Init, Ledger!Init
<1> QED BY <1>1, InitIInv, NextKeeps, StepSimulation, PTL DEF Spec, ImplementsLedger, Ledger!Spec
=============================================================================
