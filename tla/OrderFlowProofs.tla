-------------------------- MODULE OrderFlowProofs ---------------------------
(***************************************************************************)
(* Proofs about OrderFlow for any number of orders, parts, tasks, faults   *)
(* and redeliveries.                                                       *)
(***************************************************************************)
EXTENDS OrderFlow, FiniteSetTheorems, TLAPS

\* An operation of the Part entity whose guard holds yields a row, and keeps it
\* covered (part.go: Reserve, Release and Commit).
LEMMA ApplyRow ==
  ASSUME NEW op \in Ops, NEW row \in Row, Can(op, row)
  PROVE  /\ Apply(op, row) \in Row
         /\ Covered(row) => Covered(Apply(op, row))
<1>1. CASE op = "Reserve"
  BY <1>1 DEF Ops, Row, Can, Apply, CanReserve, Reserve, Covered
<1>2. CASE op = "Release"
  BY <1>2 DEF Ops, Row, Can, Apply, CanRelease, Release, Covered
<1>3. CASE op = "Commit"
  BY <1>3 DEF Ops, Row, Can, Apply, CanCommit, Commit, Covered
<1> QED BY <1>1, <1>2, <1>3 DEF Ops

\* The program counters of each handler.
Shape ==
  \A k \in Tasks :
    /\ task[k].wire # "none" => task[k].pc = "call"
    /\ task[k].pc = "list" => task[k].op = "Create"
    /\ task[k].pc = "call" => task[k].op \in {"Create", "Pay", "Cancel", "Ship"}
    /\ task[k].pc \in {"lock", "commit"} => task[k].op \in {"Pay", "Cancel", "Ship"}
    /\ task[k].pc = "publish" => task[k].op = "Pay"
    /\ task[k].pc = "build" => task[k].op = "Assemble"

\* The task's transaction has read and locked its order.
InTx(k) == task[k].op \in {"Pay", "Cancel", "Ship"} /\ task[k].pc # "lock"

\* A transaction that has read an order has its row locked.
Exclusive == \A k \in Tasks : InTx(k) => rowLock[task[k].order] = k

\* What a transaction has read of the status is still so.
StatusAsRead ==
  \A k \in Tasks : InTx(k) =>
    /\ status[task[k].order] # "none"
    /\ task[k].op # "Ship" => status[task[k].order] = "PENDING_PAYMENT"

\* The uuid that Create draws is no other order's.
FreshIds ==
  /\ \A o \in Orders : status[o] # "none" => o \in used
  /\ \A k \in Tasks : task[k].op = "Create" =>
       task[k].order \in used /\ status[task[k].order] = "none"
  /\ \A k, l \in Tasks :
       task[k].op = "Create" /\ task[l].op = "Create" /\ task[k].order = task[l].order => k = l

\* How far each task has come is visible in the payments, the topics and the
\* inventory.
TaskEvidence ==
  \A k \in Tasks :
    /\ Past(k, "Pay", task[k].order) => charges[task[k].order] > 0
    /\ task[k].op = "Pay" /\ task[k].pc = "commit" => published[task[k].order] > 0
    /\ task[k].op = "Assemble" => published[task[k].order] > 0
    /\ task[k].op = "Ship" => built[task[k].order] > 0
    /\ Past(k, "Ship", task[k].order) => consumed[task[k].order] > 0

\* Every message on a topic goes back to a payment.
TopicEvidence ==
  \A o \in Orders :
    /\ published[o] > 0 => charges[o] > 0
    /\ paidQueue[o] > 0 => published[o] > 0
    /\ built[o] > 0 => published[o] > 0
    /\ builtQueue[o] > 0 => built[o] > 0

IInv ==
  /\ TypeOK
  /\ Shape
  /\ Exclusive
  /\ StatusAsRead
  /\ FreshIds
  /\ TaskEvidence
  /\ TopicEvidence
  /\ PaidWasCharged
-----------------------------------------------------------------------------
(* The steps the handlers share. *)

\* A task that is at some point of a handler is not idle.
LEMMA Busy ==
  ASSUME TypeOK, NEW k \in Tasks, task[k].pc # "idle" \/ task[k].wire # "none" \/ task[k].op # "none"
  PROVE  task[k] \in TaskSet
BY DEF TypeOK, Idle

\* What a callee does keeps the rows rows, and is never taken back
\* (the three inventory calls and PayOrder).
LEMMA EffectGrows ==
  ASSUME TypeOK, NEW op \in TaskOps, NEW o \in Orders, Accepts(op, o), Effect(op, o)
  PROVE  /\ rows' \in [Parts -> Row]
         /\ charges' \in [Orders -> Nat] /\ consumed' \in [Orders -> Nat]
         /\ \A q \in Orders : charges'[q] >= charges[q] /\ consumed'[q] >= consumed[q]
         /\ op = "Pay" => charges'[o] > 0
         /\ op = "Ship" => consumed'[o] > 0
<1>1. rows' \in [Parts -> Row]
  <2>1. CASE op = "Pay"
    BY <2>1 DEF Effect, TypeOK
  <2>2. CASE op # "Pay"
    <3>1. PartOp(op) \in Ops
      BY DEF PartOp, Ops
    <3>2. \A p \in Items[o] : p \in Parts => Apply(PartOp(op), rows[p]) \in Row
      BY <2>2, <3>1, ApplyRow DEF Accepts, TypeOK
    <3> QED BY <2>2, <3>2 DEF Effect, TypeOK
  <2> QED BY <2>1, <2>2
<1>2. /\ charges' = [charges EXCEPT ![o] = IF op = "Pay" THEN @ + 1 ELSE @]
      /\ consumed' = [consumed EXCEPT ![o] = IF op = "Ship" THEN @ + 1 ELSE @]
  BY DEF Effect
<1>3. charges \in [Orders -> Nat] /\ consumed \in [Orders -> Nat]
  BY DEF TypeOK
<1> QED BY <1>1, <1>2, <1>3
-----------------------------------------------------------------------------
(* Type correctness. *)

\* The handlers of the HTTP requests and of the topics start and end within
\* the types.
LEMMA TypeStep == TypeOK /\ [Next]_vars => TypeOK'
<1> SUFFICES ASSUME TypeOK, [Next]_vars PROVE TypeOK'
  OBVIOUS
<1> USE FlowAssumption
<1> USE DEF orderVars, effectVars, topicVars
<1>1. ASSUME NEW k \in Clients, NEW o \in Orders, StartCreate(k, o) PROVE TypeOK'
  BY <1>1 DEF TypeOK, StartCreate, Start, TaskSet, TaskOps, PCs, Tasks
<1>2. ASSUME NEW k \in Clients, NEW o \in Orders, NEW op \in {"Pay", "Cancel"}, StartRequest(k, op, o)
      PROVE TypeOK'
  BY <1>2 DEF TypeOK, StartRequest, Start, TaskSet, TaskOps, PCs, Tasks
<1>3. ASSUME NEW k \in Builders, NEW o \in Orders, DeliverOrderPaid(k, o) PROVE TypeOK'
  BY <1>3 DEF TypeOK, DeliverOrderPaid, Start, TaskSet, TaskOps, PCs, Tasks
<1>4. ASSUME NEW k \in Shippers, NEW o \in Orders, DeliverShipAssembled(k, o) PROVE TypeOK'
  BY <1>4 DEF TypeOK, DeliverShipAssembled, Start, TaskSet, TaskOps, PCs, Tasks
<1>5. ASSUME NEW k \in Tasks, Run(k) PROVE TypeOK'
  <2>1. CASE CallFailed(k)
    BY <2>1 DEF TypeOK, CallFailed, End, Unlock
  <2>2. CASE CreateRefused(k)
    BY <2>2 DEF TypeOK, CreateRefused, End
  <2>3. CASE CreateReserve(k)
    <3>1. task[k] \in TaskSet
      BY <2>3, Busy DEF CreateReserve
    <3> QED BY <2>3, <3>1 DEF TypeOK, CreateReserve, Send, Move, TaskSet, PCs
  <2>4. CASE CreateInsert(k)
    <3>1. task[k] \in TaskSet
      BY <2>4, Busy DEF CreateInsert
    <3> QED BY <2>4, <3>1 DEF TypeOK, CreateInsert, End, TaskSet, Statuses
  <2>5. CASE CallDone(k)
    <3>1. task[k] \in TaskSet
      BY <2>5, Busy DEF CallDone
    <3> QED BY <2>5, <3>1 DEF TypeOK, CallDone, Goto, Move, TaskSet, PCs
  <2>6. CASE PublishOrderPaid(k)
    <3>1. task[k] \in TaskSet
      BY <2>6, Busy DEF PublishOrderPaid
    <3> QED BY <2>6, <3>1 DEF TypeOK, PublishOrderPaid, Goto, Move, TaskSet, PCs
  <2>7. CASE CommitOrder(k)
    <3>1. task[k] \in TaskSet
      BY <2>7, Busy DEF CommitOrder
    <3>2. NewStatus(task[k].op) \in Statuses
      BY DEF NewStatus, Statuses
    <3> QED BY <2>7, <3>1, <3>2 DEF TypeOK, CommitOrder, End, Unlock, TaskSet
  <2>8. CASE PublishShipAssembled(k)
    <3>1. task[k] \in TaskSet
      BY <2>8, Busy DEF PublishShipAssembled
    <3> QED BY <2>8, <3>1 DEF TypeOK, PublishShipAssembled, End, TaskSet
  <2> QED BY <1>5, <2>1, <2>2, <2>3, <2>4, <2>5, <2>6, <2>7, <2>8 DEF Run
<1>6. ASSUME NEW k \in Tasks, Lock(k) PROVE TypeOK'
  <2>1. task[k] \in TaskSet
    BY <1>6, Busy DEF Lock, GetAndLeave, GetForUpdate
  <2> QED BY <1>6, <2>1 DEF TypeOK, Lock, GetAndLeave, GetForUpdate, End, Send, Move, TaskSet, PCs
<1>7. ASSUME NEW k \in Tasks, Serve(k) PROVE TypeOK'
  <2>1. task[k] \in TaskSet
    BY <1>7, Busy DEF Serve
  <2>2. rows' \in [Parts -> Row] /\ charges' \in [Orders -> Nat] /\ consumed' \in [Orders -> Nat]
    BY <1>7, <2>1, EffectGrows DEF Serve, TypeOK, TaskSet
  <2>3. task' \in [Tasks -> TaskSet \cup {Idle}]
    BY <1>7, <2>1 DEF Serve, Move, TypeOK, TaskSet, PCs
  <2> QED BY <1>7, <2>2, <2>3 DEF Serve, TypeOK
<1>8. ASSUME NEW k \in Tasks, Abandon(k) PROVE TypeOK'
  <2>1. task[k] \in TaskSet
    BY <1>8 DEF Abandon, TypeOK
  <2> QED BY <1>8, <2>1 DEF TypeOK, Abandon, End, Unlock, TaskSet, CallSet
<1>9. ASSUME NEW c \in late, ServeLate(c) PROVE TypeOK'
  <2>1. c.op \in TaskOps /\ c.order \in Orders
    BY DEF TypeOK, CallSet
  <2>2. rows' \in [Parts -> Row] /\ charges' \in [Orders -> Nat] /\ consumed' \in [Orders -> Nat]
    BY <1>9, <2>1, EffectGrows DEF ServeLate, TypeOK
  <2> QED BY <1>9, <2>2 DEF ServeLate, TypeOK
<1>10. ASSUME NEW o \in Orders, Redeliver(o) PROVE TypeOK'
  BY <1>10 DEF TypeOK, Redeliver
<1>11. CASE UNCHANGED vars
  BY <1>11 DEF TypeOK, vars
<1> QED BY <1>1, <1>2, <1>3, <1>4, <1>5, <1>6, <1>7, <1>8, <1>9, <1>10, <1>11 DEF Next

\* The seeded rows, empty topics and idle services are within the types.
LEMMA InitType == Init => TypeOK
BY FlowAssumption DEF Init, TypeOK, Row, Statuses, Tasks

\* Every field of every service keeps its type in every reachable state.
THEOREM TypeCorrect == Spec => []TypeOK
BY InitType, TypeStep, PTL DEF Spec
-----------------------------------------------------------------------------
(* The inductive invariant. *)

\* No service has done anything yet.
LEMMA InitIInv == Init => IInv
<1> SUFFICES ASSUME Init PROVE IInv
  OBVIOUS
<1>1. TypeOK
  BY InitType
<1>2. \A k \in Tasks : task[k] = Idle
  BY DEF Init
<1>3. Shape /\ Exclusive /\ StatusAsRead /\ TaskEvidence
  BY <1>2 DEF Shape, Exclusive, StatusAsRead, TaskEvidence, InTx, Past, Idle
<1>4. FreshIds /\ TopicEvidence /\ PaidWasCharged
  BY <1>2 DEF Init, FreshIds, TopicEvidence, PaidWasCharged, Idle
<1> QED BY <1>1, <1>3, <1>4 DEF IInv

\* A request or a message starts a task.
LEMMA StartKeeps ==
  ASSUME IInv, TypeOK', NEW k \in Tasks, NEW o \in Orders,
         \/ StartCreate(k, o)
         \/ StartRequest(k, "Pay", o) \/ StartRequest(k, "Cancel", o)
         \/ DeliverOrderPaid(k, o) \/ DeliverShipAssembled(k, o)
  PROVE  IInv'
<1> USE DEF IInv, orderVars, effectVars, topicVars
<1> USE DEF StartCreate, StartRequest, DeliverOrderPaid, DeliverShipAssembled, Start
<1>1. Shape'
  BY DEF TypeOK, Shape
<1>2. Exclusive' /\ StatusAsRead'
  BY DEF TypeOK, Exclusive, StatusAsRead, InTx
<1>3. FreshIds'
  BY DEF TypeOK, FreshIds, Idle
<1>4. TaskEvidence'
  BY DEF TypeOK, TaskEvidence, TopicEvidence, Past
<1>5. TopicEvidence'
  BY DEF TypeOK, TopicEvidence
<1>6. PaidWasCharged'
  BY DEF TypeOK, PaidWasCharged
<1> QED BY <1>1, <1>2, <1>3, <1>4, <1>5, <1>6

\* A task ends without writing the order: refused, failed or abandoned.  Its
\* locks are released, and a consumer's message may come back.
LEMMA EndKeeps ==
  ASSUME IInv, TypeOK', NEW k \in Tasks,
         \/ CallFailed(k) \/ CreateRefused(k) \/ GetAndLeave(k)
         \/ PublishShipAssembled(k) \/ Abandon(k)
  PROVE  IInv'
<1> USE DEF IInv, orderVars, effectVars, topicVars
<1> USE DEF CallFailed, CreateRefused, GetAndLeave, PublishShipAssembled, Abandon, End, Unlock
<1>1. \A l \in Tasks : l # k => task'[l] = task[l]
  BY DEF TypeOK
<1>2. task'[k] = Idle
  BY DEF TypeOK
<1>3. \A o \in Orders, l \in Tasks : rowLock[o] = l /\ l # k => rowLock'[o] = l
  BY DEF TypeOK
<1>4. status' = status /\ used' = used /\ effectVars' = effectVars /\ published' = published
  OBVIOUS
<1>5. \A o \in Orders : built'[o] >= built[o]
  BY DEF TypeOK
<1>6. Shape'
  BY <1>1, <1>2 DEF TypeOK, Shape, Idle
<1>7. Exclusive' /\ StatusAsRead'
  BY <1>1, <1>2, <1>3, <1>4 DEF TypeOK, TaskSet, Exclusive, StatusAsRead, InTx, Idle
<1>8. FreshIds'
  BY <1>1, <1>2, <1>4 DEF TypeOK, FreshIds, Idle
<1>9. TaskEvidence'
  BY <1>1, <1>2, <1>4, <1>5 DEF TypeOK, TaskSet, TaskEvidence, Past, Idle
<1>10. TopicEvidence'
  <2>1. task[k] # Idle => task[k] \in TaskSet
    BY DEF TypeOK
  <2>2. task[k].pc = "build" => task[k].op = "Assemble"
    BY DEF Shape
  <2> QED BY <2>1, <2>2, <1>4 DEF TypeOK, TaskSet, TopicEvidence, TaskEvidence
<1>11. PaidWasCharged'
  BY <1>4 DEF PaidWasCharged
<1> QED BY <1>6, <1>7, <1>8, <1>9, <1>10, <1>11

\* A task goes on to its next step: ReserveParts is called, the order is read
\* and locked, a call has returned, the payment is published.
LEMMA MoveKeeps ==
  ASSUME IInv, TypeOK', NEW k \in Tasks,
         \/ CreateReserve(k) \/ GetForUpdate(k) \/ CallDone(k) \/ PublishOrderPaid(k)
  PROVE  IInv'
<1> USE DEF IInv, orderVars, effectVars, topicVars
<1> USE DEF CreateReserve, GetForUpdate, CallDone, PublishOrderPaid, Send, Goto, Move
<1>0. task[k] \in TaskSet
  BY Busy
<1>1. Shape'
  BY <1>0 DEF TypeOK, TaskSet, Shape
<1>2. Exclusive'
  <2>1. CASE GetForUpdate(k)
    <3>1. rowLock[task[k].order] = NoTask /\ rowLock'[task[k].order] = k
      BY <1>0, <2>1 DEF TypeOK, TaskSet
    <3>2. \A q \in Orders : q # task[k].order => rowLock'[q] = rowLock[q]
      BY <2>1 DEF TypeOK
    <3>3. /\ \A l \in Tasks : l # k => task'[l] = task[l]
          /\ task'[k].order = task[k].order
      BY <1>0, <2>1 DEF TypeOK
    <3>4. \A l \in Tasks : InTx(l) => task[l].order \in Orders /\ rowLock[task[l].order] # NoTask
      BY FlowAssumption, Busy DEF InTx, Exclusive, TaskSet
    <3> QED BY <3>1, <3>2, <3>3, <3>4 DEF Exclusive, InTx
  <2>2. CASE CreateReserve(k) \/ CallDone(k) \/ PublishOrderPaid(k)
    <3>1. /\ \A l \in Tasks : l # k => task'[l] = task[l]
          /\ task'[k].order = task[k].order /\ task'[k].op = task[k].op
          /\ rowLock' = rowLock
      BY <1>0, <2>2 DEF TypeOK
    <3>2. task[k].op = "Create" \/ task[k].pc # "lock"
      BY <2>2
    <3> QED BY <3>1, <3>2 DEF Exclusive, InTx
  <2> QED BY <2>1, <2>2
<1>3. StatusAsRead'
  BY <1>0 DEF TypeOK, TaskSet, StatusAsRead, InTx, Shape, Proceeds
<1>4. FreshIds'
  BY <1>0 DEF TypeOK, TaskSet, FreshIds
<1>5. TaskEvidence'
  <2>1. /\ \A l \in Tasks : l # k => task'[l] = task[l]
        /\ task'[k].order = task[k].order /\ task'[k].op = task[k].op
        /\ charges' = charges /\ consumed' = consumed /\ built' = built
    BY <1>0 DEF TypeOK
  <2>2. \A q \in Orders : published'[q] >= published[q]
    BY <1>0 DEF TypeOK, TaskSet
  <2>3. \A l \in Tasks : task[l].op # "none" => task[l].order \in Orders
    BY Busy DEF TaskSet
  <2>4. Past(k, "Pay", task[k].order)' => Past(k, "Pay", task[k].order)
    BY <1>0, <2>1 DEF TypeOK, Past
  <2>5. Past(k, "Ship", task[k].order)' => Past(k, "Ship", task[k].order)
    BY <1>0, <2>1 DEF TypeOK, Past
  <2>6. task'[k].op = "Pay" /\ task'[k].pc = "commit" => published'[task[k].order] > 0
    BY <1>0 DEF TypeOK, TaskSet
  <2> QED BY <2>1, <2>2, <2>3, <2>4, <2>5, <2>6 DEF TaskEvidence, Past, TypeOK
<1>6. TopicEvidence'
  BY <1>0 DEF TypeOK, TaskSet, TopicEvidence, TaskEvidence, Past, Shape
<1>7. PaidWasCharged'
  BY <1>0 DEF TypeOK, TaskSet, PaidWasCharged
<1> QED BY <1>1, <1>2, <1>3, <1>4, <1>5, <1>6, <1>7

\* The payment service or the inventory serves the call of a task.
LEMMA ServeKeeps ==
  ASSUME IInv, TypeOK', NEW k \in Tasks, Serve(k)
  PROVE  IInv'
<1> USE DEF IInv, orderVars, effectVars, topicVars
<1>1. task[k] \in TaskSet /\ task[k].pc = "call" /\ task[k].wire = "sent"
  BY Busy DEF Serve, Shape
<1>2. /\ \A l \in Tasks : l # k => task'[l] = task[l]
      /\ task'[k].op = task[k].op /\ task'[k].order = task[k].order
      /\ task'[k].pc = "call" /\ task'[k].wire \in {"ok", "error"}
  BY <1>1 DEF Serve, Move, TypeOK
<1>3. /\ \A q \in Orders : charges'[q] >= charges[q] /\ consumed'[q] >= consumed[q]
      /\ task'[k].wire = "ok" /\ task[k].op = "Pay" => charges'[task[k].order] > 0
      /\ task'[k].wire = "ok" /\ task[k].op = "Ship" => consumed'[task[k].order] > 0
  <2>1. CASE Accepts(task[k].op, task[k].order)
    <3>1. Effect(task[k].op, task[k].order)
      BY <2>1 DEF Serve
    <3> QED BY <1>1, <2>1, <3>1, EffectGrows DEF TaskSet
  <2>2. CASE ~Accepts(task[k].op, task[k].order)
    <3>1. charges' = charges /\ consumed' = consumed /\ task'[k].wire = "error"
      BY <2>2 DEF Serve, Move, TypeOK
    <3> QED BY <3>1 DEF TypeOK
  <2> QED BY <2>1, <2>2
<1>4. status' = status /\ rowLock' = rowLock /\ used' = used /\ topicVars' = topicVars
  BY DEF Serve
<1>5. Shape'
  BY <1>1, <1>2 DEF Shape
<1>6. Exclusive' /\ StatusAsRead'
  BY <1>1, <1>2, <1>4 DEF Exclusive, StatusAsRead, InTx
<1>7. FreshIds'
  BY <1>1, <1>2, <1>4 DEF FreshIds
<1>8. TaskEvidence'
  BY <1>1, <1>2, <1>3, <1>4 DEF TaskEvidence, Past, TypeOK, TaskSet, Idle
<1>9. TopicEvidence' /\ PaidWasCharged'
  BY <1>3, <1>4 DEF TopicEvidence, PaidWasCharged, TypeOK
<1> QED BY <1>5, <1>6, <1>7, <1>8, <1>9

\* A call whose caller is gone is served.
LEMMA ServeLateKeeps ==
  ASSUME IInv, TypeOK', NEW c \in late, ServeLate(c)
  PROVE  IInv'
<1> USE DEF IInv, orderVars, effectVars, topicVars
<1>1. c.op \in TaskOps /\ c.order \in Orders
  BY DEF TypeOK, CallSet
<1>2. \A q \in Orders : charges'[q] >= charges[q] /\ consumed'[q] >= consumed[q]
  <2>1. CASE Accepts(c.op, c.order) /\ Effect(c.op, c.order)
    BY <1>1, <2>1, EffectGrows
  <2>2. CASE UNCHANGED effectVars
    BY <2>2 DEF TypeOK
  <2> QED BY <2>1, <2>2 DEF ServeLate
<1>3. status' = status /\ rowLock' = rowLock /\ used' = used /\ topicVars' = topicVars /\ task' = task
  BY DEF ServeLate
<1>4. Shape' /\ Exclusive' /\ StatusAsRead' /\ FreshIds'
  BY <1>3 DEF Shape, Exclusive, StatusAsRead, InTx, FreshIds
<1>5. TaskEvidence'
  BY <1>2, <1>3 DEF TaskEvidence, Past, TypeOK, TaskSet, Idle
<1>6. TopicEvidence' /\ PaidWasCharged'
  BY <1>2, <1>3 DEF TopicEvidence, PaidWasCharged, TypeOK
<1> QED BY <1>4, <1>5, <1>6

\* An order is inserted, or a transaction commits its new status.
LEMMA WriteKeeps ==
  ASSUME IInv, TypeOK', NEW k \in Tasks, CreateInsert(k) \/ CommitOrder(k)
  PROVE  IInv'
<1> USE DEF IInv, orderVars, effectVars, topicVars
<1>1. task[k] \in TaskSet
  BY Busy DEF CreateInsert, CommitOrder
<1> DEFINE o == task[k].order
<1>2. /\ \A l \in Tasks : l # k => task'[l] = task[l]
      /\ task'[k] = Idle
      /\ \A q \in Orders, l \in Tasks : rowLock[q] = l /\ l # k => rowLock'[q] = l
  BY DEF CreateInsert, CommitOrder, End, Unlock, TypeOK
<1>3. used' = used /\ effectVars' = effectVars /\ topicVars' = topicVars
  BY DEF CreateInsert, CommitOrder
<1>4. \A q \in Orders : q # o => status'[q] = status[q]
  BY DEF CreateInsert, CommitOrder, TypeOK
<1>5. \/ task[k].op = "Create" /\ status'[o] = "PENDING_PAYMENT"
      \/ task[k].op = "Pay" /\ task[k].pc = "commit" /\ status'[o] = "PAID"
      \/ task[k].op = "Cancel" /\ task[k].pc = "commit" /\ status'[o] = "CANCELLED"
      \/ task[k].op = "Ship" /\ task[k].pc = "commit" /\ status'[o] = "ASSEMBLED"
  BY <1>1 DEF CreateInsert, CommitOrder, TypeOK, TaskSet, Shape, NewStatus
<1>6. \A l \in Tasks : l # k /\ task[l].order = o =>
        /\ InTx(l) => task[k].op = "Create"
        /\ task[l].op # "Create"
  <2>1. CASE task[k].op = "Create"
    BY <2>1 DEF FreshIds
  <2>2. CASE task[k].op # "Create"
    <3>1. InTx(k)
      BY <1>5, <2>2 DEF InTx
    <3> QED BY <3>1, <2>2 DEF Exclusive, StatusAsRead, FreshIds
  <2> QED BY <2>1, <2>2
<1>7. Shape'
  BY <1>2 DEF Shape, Idle
<1>8. Exclusive'
  BY <1>2 DEF Exclusive, InTx, Idle, TypeOK, TaskSet
<1>9. StatusAsRead'
  <2> SUFFICES ASSUME NEW l \in Tasks, InTx(l)'
               PROVE  /\ status'[task'[l].order] # "none"
                      /\ task'[l].op # "Ship" => status'[task'[l].order] = "PENDING_PAYMENT"
    BY DEF StatusAsRead
  <2>1. l # k /\ InTx(l) /\ task'[l] = task[l]
    BY <1>2 DEF InTx, Idle
  <2>2. task[l] \in TaskSet
    BY <2>1, Busy DEF InTx
  <2> QED BY <2>1, <2>2, <1>4, <1>5, <1>6 DEF StatusAsRead, TaskSet
<1>10. FreshIds'
  <2>1. o \in used
    <3>1. CASE task[k].op = "Create"
      BY <3>1 DEF FreshIds
    <3>2. CASE task[k].op # "Create"
      BY <1>1, <1>5, <3>2 DEF FreshIds, StatusAsRead, InTx, TaskSet
    <3> QED BY <3>1, <3>2
  <2>2. \A q \in Orders : status'[q] # "none" => q \in used'
    BY <1>3, <1>4, <2>1 DEF FreshIds
  <2>3. \A l \in Tasks : task'[l].op = "Create" =>
          task'[l].order \in used' /\ status'[task'[l].order] = "none"
    <3> SUFFICES ASSUME NEW l \in Tasks, task'[l].op = "Create"
                 PROVE  task'[l].order \in used' /\ status'[task'[l].order] = "none"
      OBVIOUS
    <3>1. l # k /\ task'[l] = task[l]
      BY <1>2 DEF Idle
    <3>2. task[l] \in TaskSet
      BY <3>1, Busy
    <3> QED BY <3>1, <3>2, <1>3, <1>4, <1>6 DEF FreshIds, TaskSet
  <2> QED BY <1>2, <2>2, <2>3 DEF FreshIds, Idle
<1>11. TaskEvidence'
  BY <1>2, <1>3 DEF TaskEvidence, Past, TypeOK, TaskSet, Idle
<1>12. TopicEvidence'
  BY <1>3 DEF TopicEvidence
<1>13. PaidWasCharged'
  BY <1>1, <1>3, <1>4, <1>5 DEF PaidWasCharged, TaskEvidence, TopicEvidence, Past, TaskSet
<1> QED BY <1>7, <1>8, <1>9, <1>10, <1>11, <1>12, <1>13

\* Every step of the system keeps the invariant.
LEMMA IInvStep == IInv /\ [Next]_vars => IInv'
<1> SUFFICES ASSUME IInv, [Next]_vars PROVE IInv'
  OBVIOUS
<1>0. TypeOK'
  BY TypeStep DEF IInv
<1>1. ASSUME NEW k \in Tasks, Run(k) PROVE IInv'
  BY <1>0, <1>1, EndKeeps, MoveKeeps, WriteKeeps DEF Run
<1>2. ASSUME NEW k \in Tasks, Lock(k) \/ Serve(k) \/ Abandon(k) PROVE IInv'
  BY <1>0, <1>2, EndKeeps, MoveKeeps, ServeKeeps DEF Lock
<1>3. ASSUME NEW k \in Tasks, NEW o \in Orders,
             \/ StartCreate(k, o)
             \/ \E op \in {"Pay", "Cancel"} : StartRequest(k, op, o)
             \/ DeliverOrderPaid(k, o) \/ DeliverShipAssembled(k, o)
      PROVE  IInv'
  BY <1>0, <1>3, StartKeeps
<1>4. ASSUME NEW c \in late, ServeLate(c) PROVE IInv'
  BY <1>0, <1>4, ServeLateKeeps
<1>5. ASSUME NEW o \in Orders, Redeliver(o) PROVE IInv'
  <2> USE <1>5 DEF Redeliver, orderVars, effectVars
  <2>1. Shape' /\ Exclusive' /\ StatusAsRead' /\ FreshIds' /\ TaskEvidence' /\ PaidWasCharged'
    BY DEF IInv, Shape, Exclusive, StatusAsRead, FreshIds, TaskEvidence, PaidWasCharged, InTx, Past
  <2>2. TopicEvidence'
    BY DEF IInv, TypeOK, TopicEvidence
  <2> QED BY <1>0, <2>1, <2>2 DEF IInv
<1>6. CASE UNCHANGED vars
  BY <1>0, <1>6 DEF IInv, vars, orderVars, effectVars, topicVars, Shape, Exclusive, StatusAsRead,
     FreshIds, TaskEvidence, TopicEvidence, PaidWasCharged, InTx, Past
<1> QED BY <1>1, <1>2, <1>3, <1>4, <1>5, <1>6 DEF Next, Tasks
-----------------------------------------------------------------------------
\* Through every failure of a caller, late call and repeated message: a PAID
\* order was charged and its event published, an ASSEMBLED one took its parts
\* (pay.go, handler.go).
THEOREM PaidWasChargedHolds == Spec => []PaidWasCharged
<1>1. IInv => PaidWasCharged
  BY DEF IInv
<1> QED BY <1>1, InitIInv, IInvStep, PTL DEF Spec

\* Only the insert of Create and the commits of the other transactions write a
\* status.
LEMMA OnlyTwoWrite ==
  [Next]_vars => (\E k \in Tasks : CreateInsert(k) \/ CommitOrder(k)) \/ status' = status
BY DEF Next, vars, orderVars, Tasks, StartCreate, StartRequest, DeliverOrderPaid,
   DeliverShipAssembled, Run, Lock, Serve, Abandon, ServeLate, Redeliver, CallFailed,
   CreateRefused, CreateReserve, CallDone, PublishOrderPaid, PublishShipAssembled,
   GetAndLeave, GetForUpdate

\* Through every failure and interleaving: PAID leads only to ASSEMBLED, which
\* is final, and no order waits for payment again (pay.go, cancel.go,
\* handler.go: the row lock is held from the read to the commit).
THEOREM PaidNeverUndoneHolds == Spec => PaidNeverUndone
<1> DEFINE Forward ==
  \A o \in Orders :
    /\ status[o] = "PAID" => status'[o] \in {"PAID", "ASSEMBLED"}
    /\ status[o] = "ASSEMBLED" => status'[o] = "ASSEMBLED"
    /\ status'[o] = "PENDING_PAYMENT" => status[o] \in {"none", "PENDING_PAYMENT"}
<1>1. IInv /\ [Next]_vars => [Forward]_vars
  <2> SUFFICES ASSUME IInv, [Next]_vars PROVE Forward
    OBVIOUS
  <2>1. CASE status' = status
    BY <2>1
  <2>2. ASSUME NEW k \in Tasks, CreateInsert(k) PROVE Forward
    <3>1. status[task[k].order] = "none"
      BY <2>2 DEF IInv, CreateInsert, FreshIds
    <3> QED BY <2>2, <3>1 DEF IInv, TypeOK, CreateInsert
  <2>3. ASSUME NEW k \in Tasks, CommitOrder(k) PROVE Forward
    <3>1. /\ task[k].op \in {"Pay", "Cancel", "Ship"}
          /\ task[k].op # "Ship" => status[task[k].order] = "PENDING_PAYMENT"
      BY <2>3 DEF IInv, CommitOrder, Shape, StatusAsRead, InTx
    <3> QED BY <2>3, <3>1 DEF IInv, TypeOK, CommitOrder, NewStatus
  <2>4. (\E k \in Tasks : CreateInsert(k) \/ CommitOrder(k)) \/ status' = status
    BY OnlyTwoWrite
  <2> QED BY <2>1, <2>2, <2>3, <2>4
<1> QED BY <1>1, InitIInv, IInvStep, PTL DEF Spec, PaidNeverUndone
-----------------------------------------------------------------------------
(* Before the first failure.  With faults = 0 no call was left behind, and   *)
(* charges, reservations and shipments agree exactly with the orders; the    *)
(* runs with faults show that they need not agree afterwards.                *)

\* Create, Pay and Cancel run in the slots of the HTTP requests.
Roles == \A k \in Tasks : task[k].op \in {"Create", "Pay", "Cancel"} => k \in Clients

\* A ship-assembled handler that went on has read PAID.
ShipsPaid == \A k \in Tasks : InTx(k) /\ task[k].op = "Ship" => status[task[k].order] = "PAID"

ConsumedExactlyShipped == \A o \in Orders : consumed[o] = IF Shipped(o) THEN 1 ELSE 0

\* The orders that hold a unit of p.
Holders(p) == {o \in Orders : p \in Items[o] /\ Holding(o)}

FiniteHolders == \A p \in Parts : IsFiniteSet(Holders(p))

Calm ==
  /\ late = {}
  /\ ShipsPaid
  /\ EventOnlyOfPaidOrders
  /\ ChargedExactlyPaid
  /\ ConsumedExactlyShipped
  /\ ReservedForOrders
  /\ FiniteHolders

CalmInv == Roles /\ (faults = 0 => Calm)

\* A task past its call is a Create, or its transaction has read the order.
LEMMA PastIn ==
  ASSUME IInv, NEW k \in Tasks, NEW op, NEW o, Past(k, op, o)
  PROVE  task[k].op = "Create" \/ InTx(k)
BY DEF IInv, Shape, Past, InTx

\* The row lock and the fresh uuid keep every other task away from an order.
LEMMA Alone ==
  ASSUME IInv, NEW k \in Tasks, NEW l \in Tasks, NEW op, InTx(k) \/ task[k].op = "Create",
         Past(l, op, task[k].order)
  PROVE  l = k
<1>1. task[l].order = task[k].order
  BY DEF Past
<1>2. task[l].op = "Create" \/ InTx(l)
  BY PastIn
<1>3. CASE task[k].op = "Create"
  BY <1>1, <1>2, <1>3 DEF IInv, FreshIds, StatusAsRead
<1>4. CASE InTx(k)
  BY <1>1, <1>2, <1>4 DEF IInv, FreshIds, StatusAsRead, Exclusive
<1> QED BY <1>3, <1>4

\* A step that leaves the rows, the charges and every order's view alone
\* breaks nothing.
LEMMA ViewKept ==
  ASSUME Calm, UNCHANGED effectVars,
         \A o \in Orders : PaidFor(o)' <=> PaidFor(o),
         \A o \in Orders : Shipped(o)' <=> Shipped(o),
         \A o \in Orders : Holding(o)' <=> Holding(o),
         \A o \in Orders : published'[o] > 0 => published[o] > 0 \/ PaidFor(o)
  PROVE  /\ EventOnlyOfPaidOrders' /\ ChargedExactlyPaid' /\ ConsumedExactlyShipped'
         /\ ReservedForOrders' /\ FiniteHolders'
<1>1. EventOnlyOfPaidOrders'
  BY DEF Calm, EventOnlyOfPaidOrders
<1>2. ChargedExactlyPaid' /\ ConsumedExactlyShipped'
  BY DEF Calm, effectVars, ChargedExactlyPaid, ConsumedExactlyShipped
<1>3. \A p \in Parts : Holders(p)' = Holders(p)
  BY DEF Holders
<1>4. FiniteHolders'
  BY <1>3 DEF Calm, FiniteHolders
<1>5. ReservedForOrders'
  BY <1>3 DEF Calm, effectVars, ReservedForOrders, Holders
<1> QED BY <1>1, <1>2, <1>4, <1>5

\* The view of an order follows from its status and the tasks past their calls.
LEMMA ViewSame ==
  ASSUME status' = status,
         \A k \in Tasks, op \in TaskOps, o \in Orders : Past(k, op, o)' <=> Past(k, op, o)
  PROVE  \A o \in Orders :
           /\ PaidFor(o)' <=> PaidFor(o)
           /\ Shipped(o)' <=> Shipped(o)
           /\ Holding(o)' <=> Holding(o)
           /\ Cancelled(o)' <=> Cancelled(o)
<1> SUFFICES ASSUME NEW o \in Orders
             PROVE  /\ PaidFor(o)' <=> PaidFor(o)
                    /\ Shipped(o)' <=> Shipped(o)
                    /\ Holding(o)' <=> Holding(o)
                    /\ Cancelled(o)' <=> Cancelled(o)
  OBVIOUS
<1>1. \A k \in Tasks : /\ Past(k, "Pay", o)' <=> Past(k, "Pay", o)
                       /\ Past(k, "Ship", o)' <=> Past(k, "Ship", o)
                       /\ Past(k, "Cancel", o)' <=> Past(k, "Cancel", o)
                       /\ Past(k, "Create", o)' <=> Past(k, "Create", o)
  BY DEF TaskOps
<1>2. PaidFor(o)' <=> PaidFor(o)
  BY <1>1 DEF PaidFor, Tasks
<1>3. Shipped(o)' <=> Shipped(o)
  BY <1>1 DEF Shipped
<1>4. Holding(o)' <=> Holding(o)
  BY <1>1 DEF Holding, Tasks
<1>5. Cancelled(o)' <=> Cancelled(o)
  BY <1>1 DEF Cancelled
<1> QED BY <1>2, <1>3, <1>4, <1>5

\* The steps that take no task past its call and write no status: handlers
\* that start, move on, or end before their call was done.
Quiet(k) ==
  \/ CallFailed(k) \/ CreateRefused(k) \/ CreateReserve(k) \/ CallDone(k)
  \/ PublishOrderPaid(k) \/ PublishShipAssembled(k) \/ GetAndLeave(k) \/ GetForUpdate(k)
  \/ \E o \in Orders : \/ StartCreate(k, o) \/ StartRequest(k, "Pay", o)
                       \/ StartRequest(k, "Cancel", o) \/ DeliverOrderPaid(k, o)
                       \/ DeliverShipAssembled(k, o)

\* No quiet step changes who is past the call.
LEMMA QuietPast ==
  ASSUME IInv, NEW k \in Tasks, Quiet(k), NEW l \in Tasks, NEW op \in TaskOps, NEW o \in Orders
  PROVE  Past(l, op, o)' <=> Past(l, op, o)
<1> USE DEF IInv, Shape
<1>1. CASE CallFailed(k) \/ CreateRefused(k) \/ GetAndLeave(k) \/ PublishShipAssembled(k)
  BY <1>1 DEF CallFailed, CreateRefused, GetAndLeave, PublishShipAssembled, End, TypeOK, Past, Idle, TaskOps
<1>2. CASE CreateReserve(k) \/ GetForUpdate(k)
  BY <1>2 DEF CreateReserve, GetForUpdate, Send, Move, TypeOK, Past
<1>3. CASE CallDone(k) \/ PublishOrderPaid(k)
  BY <1>3 DEF CallDone, PublishOrderPaid, Goto, Move, TypeOK, Past
<1>4. CASE \E q \in Orders : \/ StartCreate(k, q) \/ StartRequest(k, "Pay", q)
                             \/ StartRequest(k, "Cancel", q) \/ DeliverOrderPaid(k, q)
                             \/ DeliverShipAssembled(k, q)
  BY <1>4 DEF StartCreate, StartRequest, DeliverOrderPaid, DeliverShipAssembled, Start, TypeOK, Past, Idle, TaskOps
<1> QED BY <1>1, <1>2, <1>3, <1>4 DEF Quiet

\* A quiet step keeps what holds before the first failure.
LEMMA QuietKeeps ==
  ASSUME IInv, Roles, Calm, NEW k \in Tasks, Quiet(k)
  PROVE  Calm'
<1>1. late' = late /\ status' = status /\ UNCHANGED effectVars
  BY DEF Quiet, CallFailed, CreateRefused, CreateReserve, CallDone, PublishOrderPaid, effectVars,
     PublishShipAssembled, GetAndLeave, GetForUpdate, StartCreate, StartRequest, DeliverOrderPaid,
     DeliverShipAssembled, orderVars, topicVars
<1>2. \A o \in Orders : published'[o] > 0 => published[o] > 0 \/ PaidFor(o)
  <2>1. CASE PublishOrderPaid(k)
    <3>1. task[k].op = "Pay" /\ k \in Clients
      BY <2>1 DEF PublishOrderPaid, IInv, Shape, Roles
    <3>2. PaidFor(task[k].order)
      BY <2>1, <3>1 DEF PublishOrderPaid, PaidFor, Past
    <3> QED BY <2>1, <3>2 DEF PublishOrderPaid, IInv, TypeOK
  <2>2. CASE ~PublishOrderPaid(k)
    <3>1. published' = published
      BY <2>2 DEF Quiet, CallFailed, CreateRefused, CreateReserve, CallDone, PublishShipAssembled,
         GetAndLeave, GetForUpdate, StartCreate, StartRequest, DeliverOrderPaid,
         DeliverShipAssembled, topicVars
    <3> QED BY <3>1
  <2> QED BY <2>1, <2>2
<1>3. \A o \in Orders :
        /\ PaidFor(o)' <=> PaidFor(o)
        /\ Shipped(o)' <=> Shipped(o)
        /\ Holding(o)' <=> Holding(o)
  BY <1>1, QuietPast, ViewSame
<1>4. ShipsPaid'
  <2> SUFFICES ASSUME NEW l \in Tasks, (InTx(l) /\ task[l].op = "Ship")'
               PROVE  status'[task'[l].order] = "PAID"
    BY DEF ShipsPaid
  <2>1. CASE l = k /\ GetForUpdate(k)
    <3>1. task[k] \in TaskSet
      BY <2>1, Busy DEF IInv, GetForUpdate
    <3> DEFINE o == task[k].order
    <3>2. task'[k].order = o /\ task[k].op = "Ship" /\ o \in Orders
      BY <2>1, <3>1 DEF GetForUpdate, Send, Move, IInv, TypeOK, TaskSet
    <3>3. status[o] \notin {"none", "ASSEMBLED"} /\ rowLock[o] = NoTask
      BY <2>1, <3>2 DEF GetForUpdate, Proceeds
    <3>4. published[o] > 0
      BY <3>2 DEF IInv, TaskEvidence, TopicEvidence
    <3>5. ASSUME NEW c \in Tasks, Past(c, "Pay", o) PROVE FALSE
      <4>1. InTx(c) /\ task[c].order = o
        BY <3>5, PastIn DEF Past
      <4> QED BY <4>1, <3>3, FlowAssumption DEF IInv, Exclusive
    <3>6. PaidFor(o)
      BY <3>2, <3>4 DEF Calm, EventOnlyOfPaidOrders
    <3> QED BY <2>1, <1>1, <3>2, <3>3, <3>5, <3>6 DEF PaidFor, Tasks
  <2>2. CASE ~(l = k /\ GetForUpdate(k))
    <3>1. InTx(l) /\ task[l].op = "Ship" /\ task'[l].order = task[l].order
      <4>1. CASE l # k
        <5>1. task'[l] = task[l]
          BY <4>1 DEF Quiet, CallFailed, CreateRefused, CreateReserve, CallDone, PublishOrderPaid,
             PublishShipAssembled, GetAndLeave, GetForUpdate, StartCreate, StartRequest, DeliverOrderPaid,
             DeliverShipAssembled, End, Send, Goto, Move, Start, IInv, TypeOK
        <5> QED BY <5>1 DEF InTx
      <4>2. CASE l = k
        <5>1. task'[k].pc # "idle" /\ task'[k].op = "Ship" /\ task'[k].pc # "lock"
          BY <4>2 DEF InTx, IInv, TypeOK, Quiet, CallFailed, CreateRefused, CreateReserve, CallDone,
             PublishOrderPaid, PublishShipAssembled, GetAndLeave, GetForUpdate, StartCreate, StartRequest,
             DeliverOrderPaid, DeliverShipAssembled, End, Send, Goto, Move, Start, Idle
        <5>2. CreateReserve(k) \/ CallDone(k) \/ PublishOrderPaid(k)
          BY <2>2, <4>2, <5>1 DEF IInv, TypeOK, Quiet, CallFailed, CreateRefused,
             PublishShipAssembled, GetAndLeave, StartCreate, StartRequest,
             DeliverOrderPaid, DeliverShipAssembled, End, Start, Idle
        <5>3. task'[k].order = task[k].order /\ task'[k].op = task[k].op
          BY <5>2 DEF CreateReserve, CallDone, PublishOrderPaid, Send, Goto, Move, IInv, TypeOK
        <5>4. task[k].pc # "lock"
          BY <5>2 DEF CreateReserve, CallDone, PublishOrderPaid
        <5> QED BY <4>2, <5>1, <5>3, <5>4 DEF InTx
      <4> QED BY <4>1, <4>2
    <3> QED BY <1>1, <3>1 DEF Calm, ShipsPaid
  <2> QED BY <2>1, <2>2
<1> QED BY <1>1, <1>2, <1>3, <1>4, ViewKept DEF Calm

\* The insert of a new order and the commit of a transaction change the status
\* to what the done call already stood for, so that nobody's view of an order
\* changes (create.go, pay.go, cancel.go, handler.go).
LEMMA CommitView ==
  ASSUME IInv, Roles, Calm, NEW k \in Tasks, CreateInsert(k) \/ CommitOrder(k)
  PROVE  /\ \/ InTx(k) /\ status[task[k].order] \in {"PENDING_PAYMENT", "PAID"}
            \/ task[k].op = "Create" /\ status[task[k].order] = "none"
         /\ \A q \in Orders :
              /\ PaidFor(q)' <=> PaidFor(q)
              /\ Shipped(q)' <=> Shipped(q)
              /\ Holding(q)' <=> Holding(q)
              /\ Cancelled(q)' <=> Cancelled(q)
<1> DEFINE o == task[k].order
<1>1. task[k] \in TaskSet /\ o \in Orders
  BY Busy DEF IInv, CreateInsert, CommitOrder, TaskSet
<1>3. /\ \A l \in Tasks : l # k => task'[l] = task[l]
      /\ task'[k] = Idle
      /\ \A q \in Orders : q # o => status'[q] = status[q]
  BY DEF CreateInsert, CommitOrder, End, IInv, TypeOK
<1>4. /\ \/ task[k].op = "Create" /\ k \in Clients /\ status[o] = "none" /\ status'[o] = "PENDING_PAYMENT"
         \/ task[k].op = "Pay" /\ k \in Clients /\ status[o] = "PENDING_PAYMENT" /\ status'[o] = "PAID"
         \/ task[k].op = "Cancel" /\ status[o] = "PENDING_PAYMENT" /\ status'[o] = "CANCELLED"
         \/ task[k].op = "Ship" /\ status[o] = "PAID" /\ status'[o] = "ASSEMBLED"
      /\ InTx(k) \/ task[k].op = "Create"
  <2>1. CASE CreateInsert(k)
    <3>1. status[o] = "none"
      BY <2>1 DEF IInv, CreateInsert, FreshIds
    <3>2. status'[o] = "PENDING_PAYMENT" /\ task[k].op = "Create"
      BY <1>1, <2>1 DEF IInv, TypeOK, CreateInsert
    <3> QED BY <3>1, <3>2 DEF Roles
  <2>2. CASE CommitOrder(k)
    <3>1. task[k].op \in {"Pay", "Cancel", "Ship"} /\ InTx(k)
      BY <2>2 DEF IInv, CommitOrder, Shape, InTx
    <3>2. status'[o] = NewStatus(task[k].op)
      BY <1>1, <2>2 DEF IInv, TypeOK, CommitOrder
    <3> QED BY <3>1, <3>2 DEF NewStatus, Roles, IInv, StatusAsRead, Calm, ShipsPaid
  <2> QED BY <2>1, <2>2
<1>5. Past(k, task[k].op, o)
  BY DEF CreateInsert, CommitOrder, Past
<1>6. \A l \in Tasks, op \in TaskOps, q \in Orders :
        /\ Past(l, op, q)' <=> l # k /\ Past(l, op, q)
        /\ q # o => ~Past(k, op, q)
        /\ q = o => ~Past(l, op, q)'
  <2>1. ASSUME NEW l \in Tasks, NEW op \in TaskOps, NEW q \in Orders
        PROVE  Past(l, op, q)' <=> l # k /\ Past(l, op, q)
    BY <1>3 DEF Past, Idle, TaskOps
  <2>2. \A op \in TaskOps, q \in Orders : q # o => ~Past(k, op, q)
    BY DEF Past
  <2>3. ASSUME NEW l \in Tasks, NEW op \in TaskOps, Past(l, op, o) PROVE l = k
    BY <1>4, <2>3, Alone
  <2> QED BY <2>1, <2>2, <2>3
<1>7. ASSUME NEW q \in Orders
      PROVE  /\ PaidFor(q)' <=> PaidFor(q)
             /\ Shipped(q)' <=> Shipped(q)
             /\ Holding(q)' <=> Holding(q)
             /\ Cancelled(q)' <=> Cancelled(q)
  <2>0. \A l \in Tasks :
          /\ Past(l, "Pay", q)' <=> l # k /\ Past(l, "Pay", q)
          /\ Past(l, "Ship", q)' <=> l # k /\ Past(l, "Ship", q)
          /\ Past(l, "Cancel", q)' <=> l # k /\ Past(l, "Cancel", q)
          /\ Past(l, "Create", q)' <=> l # k /\ Past(l, "Create", q)
    BY <1>6 DEF TaskOps
  <2>1. CASE q # o
    <3>1. \A l \in Tasks, op \in TaskOps : Past(l, op, q)' <=> Past(l, op, q)
      BY <1>6, <2>1
    <3>2. \A l \in Tasks :
            /\ Past(l, "Pay", q)' <=> Past(l, "Pay", q)
            /\ Past(l, "Ship", q)' <=> Past(l, "Ship", q)
            /\ Past(l, "Cancel", q)' <=> Past(l, "Cancel", q)
            /\ Past(l, "Create", q)' <=> Past(l, "Create", q)
      BY <3>1 DEF TaskOps
    <3>3. PaidFor(q)' <=> PaidFor(q)
      BY <1>3, <2>1, <3>2 DEF PaidFor, Tasks
    <3>4. Shipped(q)' <=> Shipped(q)
      BY <1>3, <2>1, <3>2 DEF Shipped
    <3>5. Holding(q)' <=> Holding(q)
      BY <1>3, <2>1, <3>2 DEF Holding, Tasks
    <3>6. Cancelled(q)' <=> Cancelled(q)
      BY <1>3, <2>1, <3>2 DEF Cancelled
    <3> QED BY <3>3, <3>4, <3>5, <3>6
  <2>2. CASE q = o
    <3>1. \A l \in Tasks : ~Past(l, "Pay", q)' /\ ~Past(l, "Ship", q)'
                           /\ ~Past(l, "Cancel", q)' /\ ~Past(l, "Create", q)'
      BY <1>6, <2>2 DEF TaskOps
    <3>2. \A l \in Tasks : /\ Past(l, "Pay", q) => l = k /\ task[k].op = "Pay"
                           /\ Past(l, "Ship", q) => l = k /\ task[k].op = "Ship"
                           /\ Past(l, "Cancel", q) => l = k /\ task[k].op = "Cancel"
                           /\ Past(l, "Create", q) => l = k /\ task[k].op = "Create"
      BY <2>0, <3>1 DEF Past
    <3>3. PaidFor(q)' <=> PaidFor(q)
      BY <1>4, <1>5, <2>2, <3>1, <3>2 DEF PaidFor, Tasks
    <3>4. Shipped(q)' <=> Shipped(q)
      BY <1>4, <1>5, <2>2, <3>1, <3>2 DEF Shipped
    <3>5. Holding(q)' <=> Holding(q)
      BY <1>4, <1>5, <2>2, <3>1, <3>2 DEF Holding, Tasks
    <3>6. Cancelled(q)' <=> Cancelled(q)
      BY <1>4, <1>5, <2>2, <3>1, <3>2 DEF Cancelled
    <3> QED BY <3>3, <3>4, <3>5, <3>6
  <2> QED BY <2>1, <2>2
<1> QED BY <1>4, <1>7

\* The insert of a new order and the commit of a transaction keep what holds
\* before the first failure.
LEMMA CommitKeeps ==
  ASSUME IInv, Roles, Calm, NEW k \in Tasks, CreateInsert(k) \/ CommitOrder(k)
  PROVE  Calm'
<1> DEFINE o == task[k].order
<1>1. task[k] \in TaskSet /\ o \in Orders
  BY Busy DEF IInv, CreateInsert, CommitOrder, TaskSet
<1>2. late' = late /\ UNCHANGED effectVars /\ published' = published
  BY DEF CreateInsert, CommitOrder, effectVars, topicVars
<1>3. /\ \A l \in Tasks : l # k => task'[l] = task[l]
      /\ task'[k] = Idle
      /\ \A q \in Orders : q # o => status'[q] = status[q]
  BY DEF CreateInsert, CommitOrder, End, IInv, TypeOK
<1>4. \/ InTx(k) /\ status[o] \in {"PENDING_PAYMENT", "PAID"}
      \/ task[k].op = "Create" /\ status[o] = "none"
  BY CommitView
<1>5. \A q \in Orders :
        /\ PaidFor(q)' <=> PaidFor(q)
        /\ Shipped(q)' <=> Shipped(q)
        /\ Holding(q)' <=> Holding(q)
  BY CommitView
<1>6. ShipsPaid'
  <2> SUFFICES ASSUME NEW l \in Tasks, (InTx(l) /\ task[l].op = "Ship")'
               PROVE  status'[task'[l].order] = "PAID"
    BY DEF ShipsPaid
  <2>1. l # k /\ task'[l] = task[l] /\ InTx(l) /\ task[l].op = "Ship"
    BY <1>3 DEF InTx, Idle
  <2>2. task[l].order \in Orders
    BY <2>1, Busy DEF IInv, TaskSet
  <2>3. status[task[l].order] = "PAID"
    BY <2>1 DEF Calm, ShipsPaid
  <2>4. task[l].order # o
    BY <1>4, <2>1, <2>3 DEF IInv, Exclusive
  <2> QED BY <1>3, <2>1, <2>2, <2>3, <2>4
<1> QED BY <1>2, <1>5, <1>6, ViewKept DEF Calm

\* What a served call changes of anybody's view of the orders: ReserveParts makes
\* a new holder, PayOrder a paid order, ReleaseParts and CommitParts end the claim
\* of a holder, and every other order is left alone.
LEMMA ServeView ==
  ASSUME IInv, Roles, Calm, NEW k \in Tasks, NEW o \in Orders, task[k].order = o,
         Serve(k), Accepts(task[k].op, o)
  PROVE  /\ Effect(task[k].op, o)
         /\ task[k].op \in {"Create", "Pay", "Cancel", "Ship"}
         /\ \A q \in Orders : q # o =>
              /\ PaidFor(q)' <=> PaidFor(q)
              /\ Shipped(q)' <=> Shipped(q)
              /\ Holding(q)' <=> Holding(q)
              /\ Cancelled(q)' <=> Cancelled(q)
         /\ PaidFor(o) <=> task[k].op = "Ship"
         /\ PaidFor(o)' <=> task[k].op \in {"Pay", "Ship"}
         /\ ~Shipped(o)
         /\ Shipped(o)' <=> task[k].op = "Ship"
         /\ Holding(o) <=> task[k].op # "Create"
         /\ Holding(o)' <=> task[k].op \in {"Create", "Pay"}
         /\ ~Cancelled(o)
         /\ Cancelled(o)' <=> task[k].op = "Cancel"
<1>1. /\ task[k] \in TaskSet /\ task[k].order = o
      /\ task[k].pc = "call" /\ task[k].wire = "sent"
      /\ task[k].op \in {"Create", "Pay", "Cancel", "Ship"}
      /\ InTx(k) \/ task[k].op = "Create"
  <2>1. task[k] \in TaskSet /\ task[k].wire = "sent"
    BY Busy DEF IInv, Serve
  <2> QED BY <2>1 DEF IInv, Shape, TaskSet, InTx
<1>2. status' = status
  BY DEF Serve, orderVars
<1>3. /\ \A l \in Tasks : l # k => task'[l] = task[l]
      /\ task'[k].op = task[k].op /\ task'[k].order = o /\ task'[k].pc = "call"
  BY <1>1 DEF Serve, Move, IInv, TypeOK
<1>4. Effect(task[k].op, o) /\ task'[k].wire = "ok"
  BY <1>1 DEF Serve, Move, IInv, TypeOK
<1>5. \A l \in Tasks, op \in TaskOps, q \in Orders :
        /\ Past(l, op, q)' <=> Past(l, op, q) \/ (l = k /\ op = task[k].op /\ q = o)
        /\ ~Past(l, op, o)
  <2>1. ASSUME NEW l \in Tasks, NEW op \in TaskOps, NEW q \in Orders
        PROVE  Past(l, op, q)' <=> Past(l, op, q) \/ (l = k /\ op = task[k].op /\ q = o)
    BY <1>1, <1>3, <1>4 DEF Past
  <2>2. ASSUME NEW l \in Tasks, NEW op \in TaskOps, Past(l, op, o) PROVE FALSE
    <3>1. l = k
      BY <1>1, <2>2, Alone
    <3> QED BY <1>1, <2>2, <3>1 DEF Past
  <2> QED BY <2>1, <2>2
<1>6. \A l \in Tasks, q \in Orders :
        /\ Past(l, "Pay", q)' <=> Past(l, "Pay", q) \/ (l = k /\ task[k].op = "Pay" /\ q = o)
        /\ Past(l, "Ship", q)' <=> Past(l, "Ship", q) \/ (l = k /\ task[k].op = "Ship" /\ q = o)
        /\ Past(l, "Cancel", q)' <=> Past(l, "Cancel", q) \/ (l = k /\ task[k].op = "Cancel" /\ q = o)
        /\ Past(l, "Create", q)' <=> Past(l, "Create", q) \/ (l = k /\ task[k].op = "Create" /\ q = o)
  BY <1>5 DEF TaskOps
<1>7. \A l \in Tasks : ~Past(l, "Pay", o) /\ ~Past(l, "Ship", o)
                       /\ ~Past(l, "Cancel", o) /\ ~Past(l, "Create", o)
  BY <1>1, <1>5 DEF TaskOps
<1>8. /\ task[k].op = "Create" => status[o] = "none" /\ k \in Clients
      /\ task[k].op \in {"Pay", "Cancel"} => status[o] = "PENDING_PAYMENT" /\ k \in Clients
      /\ task[k].op = "Ship" => status[o] = "PAID"
  BY <1>1 DEF IInv, FreshIds, StatusAsRead, Roles, Calm, ShipsPaid
<1>9. ASSUME NEW q \in Orders, q # o
      PROVE  /\ PaidFor(q)' <=> PaidFor(q)
             /\ Shipped(q)' <=> Shipped(q)
             /\ Holding(q)' <=> Holding(q)
             /\ Cancelled(q)' <=> Cancelled(q)
  <2>1. \A l \in Tasks : /\ Past(l, "Pay", q)' <=> Past(l, "Pay", q)
                         /\ Past(l, "Ship", q)' <=> Past(l, "Ship", q)
                         /\ Past(l, "Cancel", q)' <=> Past(l, "Cancel", q)
                         /\ Past(l, "Create", q)' <=> Past(l, "Create", q)
    BY <1>6, <1>9
  <2> QED BY <1>2, <2>1 DEF PaidFor, Shipped, Holding, Cancelled, Tasks
<1>10. (PaidFor(o) <=> task[k].op = "Ship") /\ (PaidFor(o)' <=> task[k].op \in {"Pay", "Ship"})
  BY <1>1, <1>2, <1>6, <1>7, <1>8 DEF PaidFor, Tasks
<1>11. ~Shipped(o) /\ (Shipped(o)' <=> task[k].op = "Ship")
  BY <1>1, <1>2, <1>6, <1>7, <1>8 DEF Shipped
<1>12. (Holding(o) <=> task[k].op # "Create") /\ (Holding(o)' <=> task[k].op \in {"Create", "Pay"})
  BY <1>1, <1>2, <1>6, <1>7, <1>8 DEF Holding, Tasks
<1>13. ~Cancelled(o) /\ (Cancelled(o)' <=> task[k].op = "Cancel")
  BY <1>1, <1>2, <1>6, <1>7, <1>8 DEF Cancelled
<1> QED BY <1>1, <1>4, <1>9, <1>10, <1>11, <1>12, <1>13

\* A call that is refused changes nothing; one that is served reserves for a
\* new holder, takes the only charge, or ends the holder's claim.
LEMMA ServeCalm ==
  ASSUME IInv, Roles, Calm, NEW k \in Tasks, Serve(k)
  PROVE  Calm'
<1>0. PICK o \in Orders : task[k].order = o
  BY Busy DEF IInv, Serve, TaskSet
<1>1. /\ task[k] \in TaskSet /\ task[k].order = o
      /\ task[k].pc = "call" /\ task[k].wire = "sent"
      /\ task[k].op \in {"Create", "Pay", "Cancel", "Ship"}
      /\ InTx(k) \/ task[k].op = "Create"
  <2>1. task[k] \in TaskSet /\ task[k].wire = "sent"
    BY Busy DEF IInv, Serve
  <2> QED BY <1>0, <2>1 DEF IInv, Shape, TaskSet, InTx
<1>2. late' = late /\ status' = status /\ published' = published
  BY DEF Serve, orderVars, topicVars
<1>3. /\ \A l \in Tasks : l # k => task'[l] = task[l]
      /\ task'[k].op = task[k].op /\ task'[k].order = o /\ task'[k].pc = "call"
  BY <1>1 DEF Serve, Move, IInv, TypeOK
<1>4. ShipsPaid'
  BY <1>1, <1>2, <1>3 DEF Calm, ShipsPaid, InTx
<1>5. CASE ~Accepts(task[k].op, o)
  <2>1. UNCHANGED effectVars /\ task'[k].wire = "error"
    BY <1>1, <1>5 DEF Serve, Move, IInv, TypeOK
  <2>2. \A l \in Tasks, op \in TaskOps, q \in Orders : Past(l, op, q)' <=> Past(l, op, q)
    BY <1>1, <1>3, <2>1 DEF Past
  <2>3. \A q \in Orders :
          /\ PaidFor(q)' <=> PaidFor(q)
          /\ Shipped(q)' <=> Shipped(q)
          /\ Holding(q)' <=> Holding(q)
    BY <1>2, <2>2, ViewSame
  <2> QED BY <1>2, <1>4, <2>1, <2>3, ViewKept DEF Calm
<1>6. CASE Accepts(task[k].op, o)
  <2>1. Effect(task[k].op, o)
    BY <1>1, <1>6, ServeView
  <2>2. /\ \A q \in Orders : q # o => (PaidFor(q)' <=> PaidFor(q))
        /\ task[k].op # "Pay" => (PaidFor(o)' <=> PaidFor(o))
        /\ task[k].op = "Pay" => PaidFor(o)' /\ ~PaidFor(o)
    BY <1>1, <1>6, ServeView
  <2>3. /\ \A q \in Orders : q # o => (Shipped(q)' <=> Shipped(q))
        /\ task[k].op # "Ship" => (Shipped(o)' <=> Shipped(o))
        /\ task[k].op = "Ship" => Shipped(o)' /\ ~Shipped(o)
    BY <1>1, <1>6, ServeView
  <2>4. /\ \A q \in Orders : q # o => (Holding(q)' <=> Holding(q))
        /\ task[k].op = "Create" => Holding(o)' /\ ~Holding(o)
        /\ task[k].op = "Pay" => (Holding(o)' <=> Holding(o))
        /\ task[k].op \in {"Cancel", "Ship"} => ~Holding(o)' /\ Holding(o)
    BY <1>1, <1>6, ServeView
  <2>5. ChargedExactlyPaid'
    <3>1. charges \in [Orders -> Nat]
      BY DEF IInv, TypeOK
    <3>2. charges' = [charges EXCEPT ![o] = IF task[k].op = "Pay" THEN @ + 1 ELSE @]
      BY <2>1 DEF Effect
    <3> QED BY <1>1, <2>2, <3>1, <3>2 DEF Calm, ChargedExactlyPaid
  <2>6. ConsumedExactlyShipped'
    <3>1. consumed \in [Orders -> Nat]
      BY DEF IInv, TypeOK
    <3>2. consumed' = [consumed EXCEPT ![o] = IF task[k].op = "Ship" THEN @ + 1 ELSE @]
      BY <2>1 DEF Effect
    <3> QED BY <1>1, <2>3, <3>1, <3>2 DEF Calm, ConsumedExactlyShipped
  <2>7. EventOnlyOfPaidOrders'
    BY <1>2, <2>2 DEF Calm, EventOnlyOfPaidOrders
  <2>8. ASSUME NEW p \in Parts
        PROVE  IsFiniteSet(Holders(p)') /\ rows'[p].reserved = Cardinality(Holders(p)')
    <3>1. IsFiniteSet(Holders(p)) /\ rows[p].reserved = Cardinality(Holders(p)) /\ rows[p] \in Row
      BY DEF Calm, FiniteHolders, ReservedForOrders, Holders, IInv, TypeOK
    <3>2. Cardinality(Holders(p)) \in Nat
      BY <3>1, FS_CardinalityType
    <3>3. CASE task[k].op = "Pay" \/ p \notin Items[o]
      <4>1. rows'[p] = rows[p]
        BY <2>1, <3>3 DEF Effect
      <4>2. Holders(p)' = Holders(p)
        BY <2>4, <3>3 DEF Holders
      <4> QED BY <3>1, <4>1, <4>2
    <3>4. CASE task[k].op = "Create" /\ p \in Items[o]
      <4>1. rows'[p] = Reserve(rows[p])
        BY <2>1, <3>4 DEF Effect, PartOp, Apply
      <4>2. Holders(p)' = Holders(p) \cup {o} /\ o \notin Holders(p)
        BY <1>1, <2>4, <3>4 DEF Holders
      <4>3. IsFiniteSet(Holders(p) \cup {o}) /\ Cardinality(Holders(p) \cup {o}) = Cardinality(Holders(p)) + 1
        BY <3>1, <4>2, FS_AddElement
      <4> QED BY <3>1, <4>1, <4>2, <4>3 DEF Reserve
    <3>5. CASE task[k].op \in {"Cancel", "Ship"} /\ p \in Items[o]
      <4>1. rows'[p] = IF task[k].op = "Cancel" THEN Release(rows[p]) ELSE Commit(rows[p])
        BY <2>1, <3>5 DEF Effect, PartOp, Apply
      <4>2. Holders(p)' = Holders(p) \ {o} /\ o \in Holders(p)
        BY <1>1, <2>4, <3>5 DEF Holders
      <4>3. IsFiniteSet(Holders(p) \ {o}) /\ Cardinality(Holders(p) \ {o}) = Cardinality(Holders(p)) - 1
        BY <3>1, <4>2, FS_RemoveElement
      <4> QED BY <3>1, <4>1, <4>2, <4>3 DEF Release, Commit
    <3> QED BY <1>1, <3>3, <3>4, <3>5
  <2>9. FiniteHolders' /\ ReservedForOrders'
    BY <2>8 DEF FiniteHolders, ReservedForOrders, Holders
  <2> QED BY <1>2, <1>4, <2>5, <2>6, <2>7, <2>9 DEF Calm
<1> QED BY <1>5, <1>6

\* Nothing is reserved, charged or shipped before the first request.
LEMMA InitCalm == Init => CalmInv
<1> SUFFICES ASSUME Init PROVE CalmInv
  OBVIOUS
<1>1. \A k \in Tasks : task[k] = Idle
  BY DEF Init
<1>2. Roles /\ ShipsPaid
  BY <1>1 DEF Roles, ShipsPaid, InTx, Idle
<1>3. \A o \in Orders : ~PaidFor(o) /\ ~Shipped(o) /\ ~Holding(o)
  BY <1>1 DEF Init, PaidFor, Shipped, Holding, Past, Idle, Tasks
<1>4. EventOnlyOfPaidOrders /\ ChargedExactlyPaid /\ ConsumedExactlyShipped /\ late = {}
  BY <1>3 DEF Init, EventOnlyOfPaidOrders, ChargedExactlyPaid, ConsumedExactlyShipped
<1>5. \A p \in Parts : Holders(p) = {} /\ rows[p].reserved = 0
  BY <1>3 DEF Holders, Init
<1>6. FiniteHolders /\ ReservedForOrders
  BY <1>5, FS_EmptySet DEF FiniteHolders, ReservedForOrders, Holders
<1> QED BY <1>2, <1>4, <1>6 DEF CalmInv, Calm

\* The routers of the order and assembly services keep each handler in its
\* own slots.
LEMMA RolesStep == IInv /\ Roles /\ [Next]_vars => Roles'
<1> SUFFICES ASSUME IInv, Roles, [Next]_vars PROVE Roles'
  OBVIOUS
<1> USE DEF Roles, IInv, TypeOK
<1>1. ASSUME NEW k \in Clients, NEW o \in Orders,
             StartCreate(k, o) \/ \E op \in {"Pay", "Cancel"} : StartRequest(k, op, o)
      PROVE  Roles'
  BY <1>1 DEF StartCreate, StartRequest, Start
<1>2. ASSUME NEW k \in Tasks, NEW o \in Orders, DeliverOrderPaid(k, o) \/ DeliverShipAssembled(k, o)
      PROVE  Roles'
  BY <1>2 DEF DeliverOrderPaid, DeliverShipAssembled, Start
<1>3. ASSUME NEW k \in Tasks, \/ CallFailed(k) \/ CreateRefused(k) \/ CreateInsert(k) \/ CommitOrder(k)
                              \/ PublishShipAssembled(k) \/ GetAndLeave(k) \/ Abandon(k)
      PROVE  Roles'
  BY <1>3 DEF CallFailed, CreateRefused, CreateInsert, CommitOrder, PublishShipAssembled, GetAndLeave,
     Abandon, End, Idle
<1>4. ASSUME NEW k \in Tasks, \/ CreateReserve(k) \/ CallDone(k) \/ PublishOrderPaid(k) \/ GetForUpdate(k)
                              \/ Serve(k)
      PROVE  Roles'
  BY <1>4 DEF CreateReserve, CallDone, PublishOrderPaid, GetForUpdate, Serve, Send, Goto, Move
<1>5. CASE \/ \E c \in late : ServeLate(c)
           \/ \E o \in Orders : Redeliver(o)
           \/ UNCHANGED vars
  BY <1>5 DEF ServeLate, Redeliver, vars
<1> QED BY <1>1, <1>2, <1>3, <1>4, <1>5 DEF Next, Run, Lock, Tasks

\* Failures are only counted up: a step after which there was none is none, and
\* there was none before it.
LEMMA FaultsGrow ==
  ASSUME TypeOK, [Next]_vars, faults' = 0
  PROVE  /\ faults = 0
         /\ \A k \in Tasks : ~Abandon(k)
<1>1. ASSUME NEW k \in Tasks, Abandon(k) PROVE FALSE
  BY <1>1 DEF Abandon, TypeOK
<1>2. faults = 0
  BY <1>1 DEF Next, vars, StartCreate, StartRequest, DeliverOrderPaid, DeliverShipAssembled, Run, Lock,
     Serve, ServeLate, Redeliver, CallFailed, CreateRefused, CreateReserve, CreateInsert, CallDone,
     PublishOrderPaid, CommitOrder, PublishShipAssembled, GetAndLeave, GetForUpdate
<1> QED BY <1>1, <1>2

\* Every step but a failure keeps what holds before the first failure.
LEMMA CalmStep == IInv /\ CalmInv /\ [Next]_vars => CalmInv'
<1> SUFFICES ASSUME IInv, CalmInv, [Next]_vars, faults' = 0 PROVE Calm'
  BY RolesStep DEF CalmInv
<1>1. Roles
  BY DEF CalmInv
<1>2. faults = 0 /\ \A k \in Tasks : ~Abandon(k)
  BY FaultsGrow DEF IInv
<1>3. Calm
  BY <1>2 DEF CalmInv
<1>4. ASSUME NEW k \in Tasks, Quiet(k) PROVE Calm'
  BY <1>1, <1>3, <1>4, QuietKeeps
<1>5. ASSUME NEW k \in Tasks, CreateInsert(k) \/ CommitOrder(k) \/ Serve(k) PROVE Calm'
  BY <1>1, <1>3, <1>5, CommitKeeps, ServeCalm
<1>6. CASE \/ \E c \in late : ServeLate(c)
           \/ \E o \in Orders : Redeliver(o)
           \/ UNCHANGED vars
  <2>1. UNCHANGED <<late, status, task, published, effectVars>>
    BY <1>3, <1>6 DEF Calm, Redeliver, vars, orderVars, effectVars, topicVars
  <2>2. \A l \in Tasks, op \in TaskOps, q \in Orders : Past(l, op, q)' <=> Past(l, op, q)
    BY <2>1 DEF Past
  <2>3. \A q \in Orders :
          /\ PaidFor(q)' <=> PaidFor(q)
          /\ Shipped(q)' <=> Shipped(q)
          /\ Holding(q)' <=> Holding(q)
    BY <2>1, <2>2, ViewSame
  <2>4. ShipsPaid'
    BY <1>3, <2>1 DEF Calm, ShipsPaid, InTx
  <2> QED BY <1>3, <2>1, <2>3, <2>4, ViewKept DEF Calm
<1> QED BY <1>2, <1>4, <1>5, <1>6 DEF Next, Run, Lock, Quiet, Tasks
-----------------------------------------------------------------------------
\* Until something fails, the reserved column counts exactly the orders that
\* hold a claim, for any number of orders, parts and repeated messages
\* (create.go, cancel.go, handler.go against reserve.go, release.go and commit.go).
THEOREM ReservedForOrdersHolds == Spec => [](faults = 0 => ReservedForOrders)
<1>1. CalmInv => (faults = 0 => ReservedForOrders)
  BY DEF CalmInv, Calm
<1> QED BY <1>1, InitIInv, IInvStep, InitCalm, CalmStep, PTL DEF Spec

\* Until something fails, CommitParts takes the parts of an order at most
\* once, however often ship-assembled is delivered (handler.go).
THEOREM PartsLeaveStockOnceHolds == Spec => [](faults = 0 => PartsLeaveStockOnce)
<1>1. CalmInv => (faults = 0 => PartsLeaveStockOnce)
  BY DEF CalmInv, Calm, ConsumedExactlyShipped, PartsLeaveStockOnce
<1> QED BY <1>1, InitIInv, IInvStep, InitCalm, CalmStep, PTL DEF Spec

\* Until something fails, an order is charged once if it is paid or about to
\* be, and never otherwise, whatever Pay and Cancel requests race (pay.go).
THEOREM ChargedExactlyPaidHolds == Spec => [](faults = 0 => ChargedExactlyPaid)
<1>1. CalmInv => (faults = 0 => ChargedExactlyPaid)
  BY DEF CalmInv, Calm
<1> QED BY <1>1, InitIInv, IInvStep, InitCalm, CalmStep, PTL DEF Spec

\* Until something fails, the event that Pay publishes inside its transaction
\* belongs to an order that is paid or about to be (pay.go).
THEOREM EventOnlyOfPaidOrdersHolds == Spec => [](faults = 0 => EventOnlyOfPaidOrders)
<1>1. CalmInv => (faults = 0 => EventOnlyOfPaidOrders)
  BY DEF CalmInv, Calm
<1> QED BY <1>1, InitIInv, IInvStep, InitCalm, CalmStep, PTL DEF Spec

\* Where nothing fails, the ship-assembled handler, which refuses no status but
\* ASSEMBLED, meets only PAID orders: its message goes back to a Pay that
\* committed (handler.go of the assembly consumer).
THEOREM OnlyPaidAreAssembledHolds == MaxFaults = 0 => (Spec => OnlyPaidAreAssembled)
<1> SUFFICES ASSUME MaxFaults = 0 PROVE Spec => OnlyPaidAreAssembled
  OBVIOUS
<1> DEFINE FromPaid == \A o \in Orders : status'[o] = "ASSEMBLED" => status[o] \in {"PAID", "ASSEMBLED"}
<1>1. IInv /\ CalmInv /\ [Next]_vars => [FromPaid]_vars
  <2> SUFFICES ASSUME IInv, CalmInv, [Next]_vars PROVE FromPaid
    OBVIOUS
  <2>1. Calm
    BY DEF CalmInv, IInv, TypeOK
  <2>2. ASSUME NEW k \in Tasks, CreateInsert(k) PROVE FromPaid
    BY <2>2 DEF IInv, TypeOK, CreateInsert
  <2>3. ASSUME NEW k \in Tasks, CommitOrder(k) PROVE FromPaid
    <3>1. /\ task[k].op \in {"Pay", "Cancel", "Ship"}
          /\ InTx(k)
      BY <2>3 DEF IInv, CommitOrder, Shape, InTx
    <3>2. task[k].op = "Ship" => status[task[k].order] = "PAID"
      BY <2>1, <3>1 DEF Calm, ShipsPaid
    <3> QED BY <2>3, <3>1, <3>2 DEF IInv, TypeOK, CommitOrder, NewStatus
  <2>4. (\E k \in Tasks : CreateInsert(k) \/ CommitOrder(k)) \/ status' = status
    BY OnlyTwoWrite
  <2> QED BY <2>2, <2>3, <2>4
<1> QED BY <1>1, InitIInv, IInvStep, InitCalm, CalmStep, PTL DEF Spec, OnlyPaidAreAssembled
-----------------------------------------------------------------------------
(* The refinement of OrderBook, up to the first failure.  What a handler has *)
(* had done by another service is the step of the book; its own reads,       *)
(* locks and commits are stutters.                                           *)

\* The event of the order's payment has been published.
Announced(o) ==
  \/ status[o] \in {"PAID", "ASSEMBLED"}
  \/ \E k \in Tasks : task[k].op = "Pay" /\ task[k].order = o /\ task[k].pc = "commit"

AnnouncedExactly == \A o \in Orders : published[o] = IF Announced(o) THEN 1 ELSE 0

BookInv == faults = 0 => AnnouncedExactly

\* Pay publishes the event of its order, which nobody has published before: the
\* row lock keeps every other Pay away (pay.go).
LEMMA PublishKeeps ==
  ASSUME IInv, AnnouncedExactly, NEW k \in Tasks, NEW o \in Orders, task[k].order = o, PublishOrderPaid(k)
  PROVE  /\ published[o] = 0
         /\ published' = [published EXCEPT ![o] = @ + 1]
         /\ AnnouncedExactly'
<1>1. task[k] \in TaskSet /\ task[k].op = "Pay" /\ task[k].pc = "publish" /\ InTx(k)
  BY Busy DEF IInv, PublishOrderPaid, Shape, InTx
<1>2. status[o] = "PENDING_PAYMENT"
  BY <1>1 DEF IInv, StatusAsRead
<1>3. ASSUME NEW l \in Tasks, task[l].op = "Pay", task[l].order = o, task[l].pc = "commit" PROVE FALSE
  <2>1. Past(l, "Pay", o)
    BY <1>3 DEF Past
  <2> QED BY <1>1, <1>3, <2>1, Alone
<1>4. ~Announced(o)
  BY <1>2, <1>3 DEF Announced
<1>5. published' = [published EXCEPT ![o] = @ + 1] /\ status' = status
  BY DEF PublishOrderPaid, orderVars
<1>6. /\ \A l \in Tasks : l # k => task'[l] = task[l]
      /\ task'[k].op = "Pay" /\ task'[k].order = o /\ task'[k].pc = "commit"
  BY <1>1 DEF PublishOrderPaid, Goto, Move, IInv, TypeOK
<1>7. Announced(o)' /\ \A q \in Orders : q # o => (Announced(q)' <=> Announced(q))
  BY <1>1, <1>5, <1>6 DEF Announced
<1>8. published[o] = 0
  BY <1>4 DEF AnnouncedExactly
<1>9. AnnouncedExactly'
  BY <1>5, <1>7, <1>8 DEF AnnouncedExactly, IInv, TypeOK
<1> QED BY <1>5, <1>8, <1>9

\* No other step publishes, and a commit writes PAID only after the event.
LEMMA BookInvStep == IInv /\ CalmInv /\ BookInv /\ [Next]_vars => BookInv'
<1> SUFFICES ASSUME IInv, CalmInv, BookInv, [Next]_vars, faults' = 0 PROVE AnnouncedExactly'
  BY DEF BookInv
<1>1. AnnouncedExactly /\ Calm /\ \A k \in Tasks : ~Abandon(k)
  BY FaultsGrow DEF BookInv, CalmInv, IInv
<1>2. ASSUME NEW k \in Tasks, PublishOrderPaid(k) PROVE AnnouncedExactly'
  <2>1. task[k].order \in Orders
    BY <1>2, Busy DEF IInv, PublishOrderPaid, TaskSet
  <2> QED BY <1>1, <1>2, <2>1, PublishKeeps
<1>3. ASSUME NEW k \in Tasks, CreateInsert(k) \/ CommitOrder(k) PROVE AnnouncedExactly'
  <2>0. PICK o \in Orders : task[k].order = o
    BY <1>3, Busy DEF IInv, CreateInsert, CommitOrder, TaskSet
  <2>1. /\ \A l \in Tasks : l # k => task'[l] = task[l]
        /\ task'[k] = Idle
        /\ \A q \in Orders : q # o => status'[q] = status[q]
        /\ published' = published
    BY <1>3, <2>0 DEF CreateInsert, CommitOrder, End, topicVars, IInv, TypeOK
  <2>2. \/ task[k].op = "Create" /\ status[o] = "none" /\ status'[o] = "PENDING_PAYMENT"
        \/ task[k].op = "Pay" /\ task[k].pc = "commit" /\ InTx(k) /\ status'[o] = "PAID"
        \/ task[k].op = "Cancel" /\ InTx(k) /\ status[o] = "PENDING_PAYMENT" /\ status'[o] = "CANCELLED"
        \/ task[k].op = "Ship" /\ InTx(k) /\ status[o] = "PAID" /\ status'[o] = "ASSEMBLED"
    <3>1. CASE CreateInsert(k)
      BY <2>0, <3>1 DEF IInv, TypeOK, CreateInsert, FreshIds
    <3>2. CASE CommitOrder(k)
      <4>1. task[k].op \in {"Pay", "Cancel", "Ship"} /\ InTx(k)
        BY <3>2 DEF IInv, CommitOrder, Shape, InTx
      <4>2. status'[o] = NewStatus(task[k].op) /\ task[k].pc = "commit"
        BY <2>0, <3>2 DEF IInv, TypeOK, CommitOrder
      <4> QED BY <1>1, <2>0, <4>1, <4>2 DEF NewStatus, IInv, StatusAsRead, Calm, ShipsPaid
    <3> QED BY <1>3, <3>1, <3>2
  <2>3. ASSUME NEW l \in Tasks, task[l].op = "Pay", task[l].order = o, task[l].pc = "commit" PROVE l = k
    <3>1. Past(l, "Pay", o)
      BY <2>3 DEF Past
    <3> QED BY <2>0, <2>2, <3>1, Alone
  <2>4. Announced(o)' <=> Announced(o)
    BY <2>0, <2>1, <2>2, <2>3 DEF Announced, Idle
  <2>5. \A q \in Orders : q # o => (Announced(q)' <=> Announced(q))
    BY <2>0, <2>1 DEF Announced, Idle
  <2> QED BY <1>1, <2>1, <2>4, <2>5 DEF AnnouncedExactly
<1>4. ASSUME NEW k \in Tasks, Quiet(k) \/ Serve(k), ~PublishOrderPaid(k) PROVE AnnouncedExactly'
  <2>1. published' = published /\ status' = status
    BY <1>4 DEF Quiet, CallFailed, CreateRefused, CreateReserve, CallDone, PublishShipAssembled,
       GetAndLeave, GetForUpdate, StartCreate, StartRequest, DeliverOrderPaid,
       DeliverShipAssembled, Serve, topicVars, orderVars
  <2>2. \A l \in Tasks : l # k => task'[l] = task[l]
    BY <1>4 DEF Quiet, CallFailed, CreateRefused, CreateReserve, CallDone, PublishShipAssembled,
       GetAndLeave, GetForUpdate, StartCreate, StartRequest, DeliverOrderPaid,
       DeliverShipAssembled, Serve, End, Send, Goto, Move, Start, IInv, TypeOK
  <2>3. ~(task'[k].op = "Pay" /\ task'[k].pc = "commit")
    BY <1>4 DEF Quiet, CallFailed, CreateRefused, CreateReserve, CallDone, PublishShipAssembled,
       GetAndLeave, GetForUpdate, StartCreate, StartRequest, DeliverOrderPaid,
       DeliverShipAssembled, Serve, End, Send, Goto, Move, Start, IInv, TypeOK, Idle
  <2>4. ~(task[k].op = "Pay" /\ task[k].pc = "commit")
    BY <1>4 DEF Quiet, CallFailed, CreateRefused, CreateReserve, CallDone, PublishShipAssembled,
       GetAndLeave, GetForUpdate, StartCreate, StartRequest, DeliverOrderPaid,
       DeliverShipAssembled, Serve, Start, Idle, IInv, Shape
  <2>5. \A q \in Orders : Announced(q)' <=> Announced(q)
    BY <2>1, <2>2, <2>3, <2>4 DEF Announced
  <2> QED BY <1>1, <2>1, <2>5 DEF AnnouncedExactly
<1>5. CASE \/ \E c \in late : ServeLate(c)
           \/ \E o \in Orders : Redeliver(o)
           \/ UNCHANGED vars
  <2>1. published' = published /\ status' = status /\ task' = task
    BY <1>5 DEF ServeLate, Redeliver, vars, orderVars, topicVars
  <2>2. \A q \in Orders : Announced(q)' <=> Announced(q)
    BY <2>1 DEF Announced
  <2> QED BY <1>1, <2>1, <2>2 DEF AnnouncedExactly
<1> QED BY <1>1, <1>2, <1>3, <1>4, <1>5 DEF Next, Run, Lock, Quiet, Tasks

\* The book's parts are the inventory's.
LEMMA SameParts ==
  /\ \A op, row : Book!Can(op, row) <=> Can(op, row)
  /\ \A op, row : Book!Apply(op, row) = Apply(op, row)
<1>1. \A op, row : Book!Can(op, row) <=> Can(op, row)
  BY DEF Book!Can, Can, Book!CanReserve, CanReserve, Book!CanRelease, CanRelease,
         Book!CanCommit, CanCommit
<1>2. \A op, row : Book!Apply(op, row) = Apply(op, row)
  BY DEF Book!Apply, Apply, Book!Reserve, Reserve, Book!Release, Release,
         Book!Commit, Commit
<1> QED BY <1>1, <1>2

\* An order whose view stays the same stays where it is in the book.
LEMMA LifeKept ==
  ASSUME NEW o, PaidFor(o)' <=> PaidFor(o), Shipped(o)' <=> Shipped(o),
         Holding(o)' <=> Holding(o), Cancelled(o)' <=> Cancelled(o)
  PROVE  Life(o)' = Life(o)
BY DEF Life

\* The view of every order, the rows, the charges and the events stay the same:
\* a stutter of the book.
LEMMA BookStutters ==
  ASSUME rows' = rows, charges' = charges, published' = published,
         \A o \in Orders :
           /\ PaidFor(o)' <=> PaidFor(o)
           /\ Shipped(o)' <=> Shipped(o)
           /\ Holding(o)' <=> Holding(o)
           /\ Cancelled(o)' <=> Cancelled(o)
  PROVE  UNCHANGED Book!vars
<1>1. \A o \in Orders : Life(o)' = Life(o)
  BY LifeKept
<1>2. [o \in Orders |-> Life(o)]' = [o \in Orders |-> Life(o)]
  BY <1>1
<1> QED BY <1>2 DEF Book!vars

\* The steps that publish nothing and have nothing done leave the book alone:
\* requests and messages that arrive, reads and locks, refusals, and the commits
\* of what was done.
LEMMA QuietStutters ==
  ASSUME IInv, Roles, Calm, NEW k \in Tasks,
         Quiet(k) \/ CreateInsert(k) \/ CommitOrder(k), ~PublishOrderPaid(k)
  PROVE  UNCHANGED Book!vars
<1>1. CASE Quiet(k)
  <2>1. status' = status /\ rows' = rows /\ charges' = charges /\ published' = published
    BY <1>1 DEF Quiet, CallFailed, CreateRefused, CreateReserve, CallDone, effectVars,
       PublishShipAssembled, GetAndLeave, GetForUpdate, StartCreate, StartRequest, DeliverOrderPaid,
       DeliverShipAssembled, orderVars, topicVars
  <2>2. \A l \in Tasks, op \in TaskOps, o \in Orders : Past(l, op, o)' <=> Past(l, op, o)
    BY <1>1, QuietPast
  <2> QED BY <2>1, <2>2, ViewSame, BookStutters
<1>2. CASE CreateInsert(k) \/ CommitOrder(k)
  <2>1. rows' = rows /\ charges' = charges /\ published' = published
    BY <1>2 DEF CreateInsert, CommitOrder, effectVars, topicVars
  <2> QED BY <1>2, <2>1, CommitView, BookStutters
<1> QED BY <1>1, <1>2

\* ProduceOrderPaid is the book's Announce: the order has been charged for and its
\* event is the first.
LEMMA PublishAnnounces ==
  ASSUME IInv, Roles, Calm, AnnouncedExactly, NEW k \in Tasks, PublishOrderPaid(k)
  PROVE  Book!Next
<1>0. PICK o \in Orders : task[k].order = o
  BY Busy DEF IInv, PublishOrderPaid, TaskSet
<1>1. task[k].op = "Pay" /\ task[k].pc = "publish" /\ InTx(k) /\ k \in Clients
  BY DEF IInv, PublishOrderPaid, Shape, InTx, Roles
<1>2. status[o] = "PENDING_PAYMENT"
  BY <1>0, <1>1 DEF IInv, StatusAsRead
<1>3. Past(k, "Pay", o)
  BY <1>0, <1>1 DEF Past
<1>4. PaidFor(o)
  BY <1>1, <1>3 DEF PaidFor
<1>5. ~Shipped(o)
  <2>1. ASSUME NEW l \in Tasks, Past(l, "Ship", o) PROVE FALSE
    <3>1. l = k
      BY <1>0, <1>1, <2>1, Alone
    <3> QED BY <1>1, <2>1, <3>1 DEF Past
  <2> QED BY <1>2, <2>1 DEF Shipped
<1>6. Life(o) = "paid"
  BY <1>4, <1>5 DEF Life
<1>7. published[o] = 0 /\ published' = [published EXCEPT ![o] = @ + 1]
  BY <1>0, PublishKeeps
<1>8. status' = status /\ rows' = rows /\ charges' = charges
  BY DEF PublishOrderPaid, orderVars, effectVars
<1>9. \A l \in Tasks, op \in TaskOps, q \in Orders : Past(l, op, q)' <=> Past(l, op, q)
  BY QuietPast DEF Quiet
<1>10. \A q \in Orders : Life(q)' = Life(q)
  BY <1>8, <1>9, ViewSame, LifeKept
<1>11. [q \in Orders |-> Life(q)]' = [q \in Orders |-> Life(q)]
  BY <1>10
<1>12. published' = [published EXCEPT ![o] = 1]
  BY <1>7
<1>13. Book!Announce(o)
  BY <1>6, <1>7, <1>8, <1>11, <1>12 DEF Book!Announce
<1> QED BY <1>13 DEF Book!Next


\* A call that payment or the inventory has served is the transition of its order
\* in the book, with its effect; a call refused is a stutter.
LEMMA ServeBooks ==
  ASSUME IInv, Roles, Calm, NEW k \in Tasks, Serve(k)
  PROVE  Book!Next \/ UNCHANGED Book!vars
<1>0. PICK o \in Orders : task[k].order = o
  BY Busy DEF IInv, Serve, TaskSet
<1>1. status' = status /\ published' = published
  BY DEF Serve, orderVars, topicVars
<1>2. CASE ~Accepts(task[k].op, o)
  <2>1. task[k].pc = "call" /\ task[k].wire = "sent"
    BY DEF IInv, Shape, Serve
  <2>2. /\ rows' = rows /\ charges' = charges
        /\ task' = [task EXCEPT ![k] = [op |-> @.op, order |-> @.order, pc |-> "call", wire |-> "error"]]
    BY <1>0, <1>2 DEF Serve, Move, effectVars
  <2>3. \A l \in Tasks, op \in TaskOps, q \in Orders : Past(l, op, q)' <=> Past(l, op, q)
    BY <2>1, <2>2 DEF Past, IInv, TypeOK
  <2> QED BY <1>1, <2>2, <2>3, ViewSame, BookStutters
<1>3. CASE Accepts(task[k].op, o)
  <2>1. Effect(task[k].op, o)
    BY <1>0, <1>3, ServeView
  <2>2. \A q \in Orders : q # o => Life(q)' = Life(q)
    <3>1. \A q \in Orders : q # o =>
            /\ PaidFor(q)' <=> PaidFor(q)
            /\ Shipped(q)' <=> Shipped(q)
            /\ Holding(q)' <=> Holding(q)
            /\ Cancelled(q)' <=> Cancelled(q)
      BY <1>0, <1>3, ServeView
    <3> QED BY <3>1, LifeKept
  <2>3. \A to : Life(o)' = to =>
          [q \in Orders |-> Life(q)]' = [[q \in Orders |-> Life(q)] EXCEPT ![o] = to]
    BY <2>2
  <2>4. /\ task[k].op # "Pay" => \A p \in Items[o] : Can(PartOp(task[k].op), rows[p])
        /\ task[k].op # "Pay" =>
             rows' = [p \in Parts |-> IF p \in Items[o] THEN Apply(PartOp(task[k].op), rows[p]) ELSE rows[p]]
        /\ task[k].op = "Pay" => rows' = rows
    BY <1>3, <2>1 DEF Accepts, Effect
  <2>5. /\ task[k].op # "Pay" => charges' = charges
        /\ task[k].op = "Pay" => charges' = [charges EXCEPT ![o] = @ + 1]
    BY <2>1 DEF Effect, IInv, TypeOK
  <2>6. /\ PaidFor(o) <=> task[k].op = "Ship"
        /\ PaidFor(o)' <=> task[k].op \in {"Pay", "Ship"}
        /\ ~Shipped(o) /\ (Shipped(o)' <=> task[k].op = "Ship")
        /\ Holding(o) <=> task[k].op # "Create"
        /\ Holding(o)' <=> task[k].op \in {"Create", "Pay"}
        /\ ~Cancelled(o) /\ (Cancelled(o)' <=> task[k].op = "Cancel")
        /\ task[k].op \in {"Create", "Pay", "Cancel", "Ship"}
    BY <1>0, <1>3, ServeView
  <2>7. CASE task[k].op = "Create"
    <3>1. Life(o) = "none" /\ Life(o)' = "open"
      BY <2>6, <2>7 DEF Life
    <3>2. PartOp(task[k].op) = "Reserve"
      BY <2>7 DEF PartOp
    <3>3. Book!Become(o, "none", "open")
      BY <2>3, <3>1 DEF Book!Become
    <3>4. Book!Take("Reserve", o)
      BY <2>4, <2>7, <3>2, SameParts DEF Book!Take
    <3> QED BY <1>1, <2>5, <2>7, <3>3, <3>4 DEF Book!Create, Book!Next
  <2>8. CASE task[k].op = "Cancel"
    <3>1. Life(o) = "open" /\ Life(o)' = "cancelled"
      BY <2>6, <2>8 DEF Life
    <3>2. PartOp(task[k].op) = "Release"
      BY <2>8 DEF PartOp
    <3>3. Book!Become(o, "open", "cancelled")
      BY <2>3, <3>1 DEF Book!Become
    <3>4. Book!Take("Release", o)
      BY <2>4, <2>8, <3>2, SameParts DEF Book!Take
    <3> QED BY <1>1, <2>5, <2>8, <3>3, <3>4 DEF Book!Cancel, Book!Next
  <2>9. CASE task[k].op = "Ship"
    <3>1. Life(o) = "paid" /\ Life(o)' = "assembled"
      BY <2>6, <2>9 DEF Life
    <3>2. PartOp(task[k].op) = "Commit"
      BY <2>9 DEF PartOp
    <3>3. Book!Become(o, "paid", "assembled")
      BY <2>3, <3>1 DEF Book!Become
    <3>4. Book!Take("Commit", o)
      BY <2>4, <2>9, <3>2, SameParts DEF Book!Take
    <3>5. published[o] > 0
      BY <1>0, <2>9 DEF IInv, TaskEvidence, TopicEvidence
    <3> QED BY <1>1, <2>5, <2>9, <3>3, <3>4, <3>5 DEF Book!Assemble, Book!Next
  <2>10. CASE task[k].op = "Pay"
    <3>1. Life(o) = "open" /\ Life(o)' = "paid"
      BY <2>6, <2>10 DEF Life
    <3>2. Book!Become(o, "open", "paid")
      BY <2>3, <3>1 DEF Book!Become
    <3> QED BY <1>1, <2>4, <2>5, <2>10, <3>2 DEF Book!Pay, Book!Next
  <2> QED BY <2>6, <2>7, <2>8, <2>9, <2>10
<1> QED BY <1>2, <1>3

\* Every step before the first failure is a step of the book or a stutter.
LEMMA BookStep ==
  ASSUME IInv, CalmInv, BookInv, [Next]_vars, faults' = 0
  PROVE  [Book!Next]_(Book!vars)
<1>1. AnnouncedExactly /\ Calm /\ Roles /\ \A k \in Tasks : ~Abandon(k)
  BY FaultsGrow DEF BookInv, CalmInv, IInv
<1>2. ASSUME NEW k \in Tasks, Quiet(k) \/ CreateInsert(k) \/ CommitOrder(k)
      PROVE  Book!Next \/ UNCHANGED Book!vars
  BY <1>1, <1>2, QuietStutters, PublishAnnounces
<1>3. ASSUME NEW k \in Tasks, Serve(k) PROVE Book!Next \/ UNCHANGED Book!vars
  BY <1>1, <1>3, ServeBooks
<1>4. CASE \/ \E c \in late : ServeLate(c)
           \/ \E o \in Orders : Redeliver(o)
           \/ UNCHANGED vars
  <2>1. UNCHANGED <<status, task, published, rows, charges>>
    BY <1>1, <1>4 DEF Calm, Redeliver, vars, orderVars, effectVars, topicVars
  <2>2. \A l \in Tasks, op \in TaskOps, q \in Orders : Past(l, op, q)' <=> Past(l, op, q)
    BY <2>1 DEF Past
  <2> QED BY <2>1, <2>2, ViewSame, BookStutters
<1> QED BY <1>1, <1>2, <1>3, <1>4 DEF Next, Run, Lock, Quiet, Tasks

\* The empty order table is the empty book.
LEMMA InitBook == Init => Book!Init /\ BookInv
<1> SUFFICES ASSUME Init PROVE Book!Init /\ BookInv
  OBVIOUS
<1>1. \A k \in Tasks : task[k] = Idle
  BY DEF Init
<1>2. \A o \in Orders : ~PaidFor(o) /\ ~Shipped(o) /\ ~Holding(o) /\ ~Cancelled(o) /\ ~Announced(o)
  BY <1>1 DEF Init, PaidFor, Shipped, Holding, Cancelled, Announced, Past, Idle, Tasks
<1>3. \A o \in Orders : Life(o) = "none"
  BY <1>2 DEF Life
<1>4. [o \in Orders |-> Life(o)] = [o \in Orders |-> "none"]
  BY <1>3
<1>5. Book!Init
  BY <1>4 DEF Init, Book!Init
<1>6. BookInv
  BY <1>2 DEF Init, BookInv, AnnouncedExactly
<1> QED BY <1>5, <1>6
-----------------------------------------------------------------------------
\* Whatever will fail later, up to the first failure the order service with its
\* row locks, its remote calls inside transactions and its repeated messages is
\* the state machine of OrderBook (create.go, pay.go, cancel.go, handler.go).
THEOREM FollowsBook == Spec => Book!Init /\ [][faults' = 0 => [Book!Next]_(Book!vars)]_vars
<1>1. IInv /\ CalmInv /\ BookInv /\ [Next]_vars => [faults' = 0 => [Book!Next]_(Book!vars)]_vars
  BY BookStep
<1> QED BY <1>1, InitIInv, IInvStep, InitCalm, CalmStep, InitBook, BookInvStep, PTL DEF Spec

\* When nothing fails, the services implement OrderBook for any number of orders,
\* parts, requests at once and repeated messages.
THEOREM FlowImplementsBook == MaxFaults = 0 => (Spec => ImplementsBook)
<1> SUFFICES ASSUME MaxFaults = 0 PROVE Spec => ImplementsBook
  OBVIOUS
<1>1. IInv /\ IInv' /\ CalmInv /\ BookInv /\ [Next]_vars => [Book!Next]_(Book!vars)
  <2> SUFFICES ASSUME IInv, IInv', CalmInv, BookInv, [Next]_vars PROVE [Book!Next]_(Book!vars)
    OBVIOUS
  <2>1. faults' = 0
    BY DEF IInv, TypeOK
  <2> QED BY <2>1, BookStep
<1> QED BY <1>1, InitIInv, IInvStep, InitCalm, CalmStep, InitBook, BookInvStep, PTL
        DEF Spec, ImplementsBook, Book!Spec
=============================================================================
