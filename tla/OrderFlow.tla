------------------------------ MODULE OrderFlow ------------------------------
(***************************************************************************)
(* The life of an order across the services: the order service's Create,   *)
(* Pay and Cancel and its consumer of assembly.ship-assembled, the         *)
(* assembly service between the two Kafka topics, the payment service, and *)
(* the inventory as the atomic ledger that Inventory.tla implements.       *)
(*                                                                         *)
(* A task is one running handler in one replica of a service: an HTTP      *)
(* request or a Kafka message.  The order's row lock (SELECT ... FOR       *)
(* UPDATE) is held over the remote calls, and released when the            *)
(* transaction ends.  A remote call is two steps, the callee's and the     *)
(* caller's: between them the caller may give up (timeout, cancelled       *)
(* context, database error, crash), its transaction rolls back, and what   *)
(* the callee did or will still do is not undone.                          *)
(*                                                                         *)
(* The topics deliver at least once, as KafkaConsumer.tla shows: a         *)
(* published message is delivered, and may be delivered again; a message   *)
(* whose handler failed may come back or be passed over.                   *)
(***************************************************************************)
EXTENDS Part, FiniteSets

CONSTANTS
  Orders,           \* order uuids: Create draws a fresh one
  Parts,
  Items,            \* the parts of each order
  Clients,          \* slots for HTTP requests to the order service
  Builders,         \* slots for messages in the assembly service
  Shippers,         \* slots for messages in the order service
  NoTask,
  MaxStock,         \* bound on the seeded stock
  MaxFaults,        \* bound: failures of a caller or a transaction
  MaxRedeliveries   \* bound: messages delivered once more

Tasks == Clients \cup Builders \cup Shippers

ASSUME FlowAssumption ==
  /\ Items \in [Orders -> SUBSET Parts]
  /\ NoTask \notin Tasks
  /\ Clients \cap Builders = {} /\ Clients \cap Shippers = {} /\ Builders \cap Shippers = {}
  /\ MaxStock \in Nat /\ MaxFaults \in Nat /\ MaxRedeliveries \in Nat

VARIABLES
  rows,         \* the inventory's rows, as in PartLedger
  status,       \* the committed status of each order, "none" before it exists
  rowLock,      \* the task whose transaction has locked the order's row
  task,         \* what each task is doing
  used,         \* uuids drawn by Create
  charges,      \* payments the payment service has made for each order
  consumed,     \* CommitParts the inventory has done for each order
  published,    \* order.paid messages of each order
  built,        \* assembly.ship-assembled messages of each order
  paidQueue,    \* order.paid messages to be delivered
  builtQueue,   \* assembly.ship-assembled messages to be delivered
  late,         \* calls on their way whose caller has given up
  faults,
  redeliveries

orderVars == <<status, rowLock, used>>
effectVars == <<rows, charges, consumed>>
topicVars == <<published, built, paidQueue, builtQueue>>
vars == <<orderVars, effectVars, topicVars, task, late, faults, redeliveries>>

Statuses == {"PENDING_PAYMENT", "PAID", "CANCELLED", "ASSEMBLED"}

Idle == [op |-> "none", order |-> NoTask, pc |-> "idle", wire |-> "none"]

TaskOps == {"Create", "Pay", "Cancel", "Assemble", "Ship"}

PCs == {"list", "lock", "call", "publish", "commit", "build"}

\* wire is the state of the remote call of a task: sent, and then answered.
TaskSet == [op : TaskOps, order : Orders, pc : PCs, wire : {"none", "sent", "ok", "error"}]

CallSet == [op : TaskOps, order : Orders, id : Nat]

Init ==
  /\ rows \in [Parts -> [stock : 0 .. MaxStock, reserved : {0}]]
  /\ status = [o \in Orders |-> "none"]
  /\ rowLock = [o \in Orders |-> NoTask]
  /\ task = [k \in Tasks |-> Idle]
  /\ used = {}
  /\ charges = [o \in Orders |-> 0]
  /\ consumed = [o \in Orders |-> 0]
  /\ published = [o \in Orders |-> 0]
  /\ built = [o \in Orders |-> 0]
  /\ paidQueue = [o \in Orders |-> 0]
  /\ builtQueue = [o \in Orders |-> 0]
  /\ late = {}
  /\ faults = 0
  /\ redeliveries = 0
-----------------------------------------------------------------------------
(* Steps shared by the handlers. *)

Start(k, op, o, pc) ==
  /\ task[k] = Idle
  /\ task' = [task EXCEPT ![k] = [op |-> op, order |-> o, pc |-> pc, wire |-> "none"]]

Move(k, pc, wire) ==
  task' = [task EXCEPT ![k] = [op |-> @.op, order |-> @.order, pc |-> pc, wire |-> wire]]

Goto(k, pc) == Move(k, pc, "none")

Send(k) == Move(k, "call", "sent")

End(k) == task' = [task EXCEPT ![k] = Idle]

Unlock(k) == rowLock' = [o \in Orders |-> IF rowLock[o] = k THEN NoTask ELSE rowLock[o]]

\* The inventory call each handler makes.
PartOp(op) ==
  CASE op = "Create" -> "Reserve"
    [] op = "Cancel" -> "Release"
    [] OTHER -> "Commit"

(* Mutant forms stand before the definition they replace. *)

\* Mutant: the inventory refuses nothing.
AcceptsAll(op, o) == TRUE

\* The callee can do what is asked: the inventory by its rows, payment always
\* (it refuses an unspecified method only, and so does Pay before it starts).
Accepts(op, o) == op = "Pay" \/ \A p \in Items[o] : Can(PartOp(op), rows[p])

\* What the callee does.
Effect(op, o) ==
  /\ rows' = IF op = "Pay" THEN rows
             ELSE [p \in Parts |-> IF p \in Items[o] THEN Apply(PartOp(op), rows[p]) ELSE rows[p]]
  /\ charges' = [charges EXCEPT ![o] = IF op = "Pay" THEN @ + 1 ELSE @]
  /\ consumed' = [consumed EXCEPT ![o] = IF op = "Ship" THEN @ + 1 ELSE @]

\* The callee serves a call, or refuses it by its domain rules.
Serve(k) ==
  LET t == task[k] IN
  /\ t.wire = "sent"
  /\ \/ /\ Accepts(t.op, t.order)
        /\ Effect(t.op, t.order)
        /\ Move(k, "call", "ok")
     \/ /\ ~Accepts(t.op, t.order)
        /\ Move(k, "call", "error")
        /\ UNCHANGED effectVars
  /\ UNCHANGED <<orderVars, topicVars, late, faults, redeliveries>>

\* A call whose caller has given up reaches the callee all the same.
ServeLate(c) ==
  /\ late' = late \ {c}
  /\ \/ Accepts(c.op, c.order) /\ Effect(c.op, c.order)
     \/ ~Accepts(c.op, c.order) /\ UNCHANGED effectVars
  /\ UNCHANGED <<orderVars, topicVars, task, faults, redeliveries>>

\* The callee answered with an error: the handler returns it, which rolls
\* back the transaction if there is one.
CallFailed(k) ==
  /\ task[k].wire = "error"
  /\ End(k) /\ Unlock(k)
  /\ UNCHANGED <<status, used, effectVars, topicVars, late, faults, redeliveries>>
-----------------------------------------------------------------------------
(* Create *)

StartCreate(k, o) ==
  /\ o \notin used
  /\ Start(k, "Create", o, "list")
  /\ used' = used \cup {o}
  /\ UNCHANGED <<status, rowLock, effectVars, topicVars, late, faults, redeliveries>>

\* validateUniqueUUIDs, ListParts or ValidateCompatibility turns the request
\* away, or a part has nothing in stock: the checks of CreateOrder.tla, which
\* may find fault with any request.
CreateRefused(k) ==
  /\ task[k].op = "Create" /\ task[k].pc = "list"
  /\ End(k)
  /\ UNCHANGED <<orderVars, effectVars, topicVars, late, faults, redeliveries>>

\* The checks pass; ReserveParts is called.  They look at the stock alone, not
\* at what is reserved of it.
CreateReserve(k) ==
  LET o == task[k].order IN
  /\ task[k].op = "Create" /\ task[k].pc = "list"
  /\ \A p \in Items[o] : rows[p].stock > 0
  /\ Send(k)
  /\ UNCHANGED <<orderVars, effectVars, topicVars, late, faults, redeliveries>>

\* The parts are reserved and the order and its items are inserted.
CreateInsert(k) ==
  /\ task[k].op = "Create" /\ task[k].wire = "ok"
  /\ status' = [status EXCEPT ![task[k].order] = "PENDING_PAYMENT"]
  /\ End(k)
  /\ UNCHANGED <<rowLock, used, effectVars, topicVars, late, faults, redeliveries>>
-----------------------------------------------------------------------------
(* Pay, Cancel and the ship-assembled handler: one transaction each. *)

StartRequest(k, op, o) ==
  /\ Start(k, op, o, "lock")
  /\ UNCHANGED <<orderVars, effectVars, topicVars, late, faults, redeliveries>>

\* Mutants: a repeated message is not recognised; Cancel does not look at the
\* status; the ship-assembled handler waits for the wrong status.
ProceedsAgain(op, s) == IF op = "Ship" THEN s # "none" ELSE s = "PENDING_PAYMENT"

ProceedsCancelAny(op, s) ==
  CASE op = "Ship" -> s \notin {"none", "ASSEMBLED"}
    [] op = "Cancel" -> s # "none"
    [] OTHER -> s = "PENDING_PAYMENT"

ProceedsPendingOnly(op, s) == s = "PENDING_PAYMENT"

\* The status a handler goes on from.  The ship-assembled handler refuses only
\* ASSEMBLED, which it takes for a message delivered again.
Proceeds(op, s) ==
  IF op = "Ship" THEN s \notin {"none", "ASSEMBLED"} ELSE s = "PENDING_PAYMENT"

\* GetForUpdate finds no row, or a status that ends the handler.
GetAndLeave(k) ==
  LET t == task[k] IN
  /\ t.pc = "lock"
  /\ rowLock[t.order] = NoTask
  /\ ~Proceeds(t.op, status[t.order])
  /\ End(k)
  /\ UNCHANGED <<orderVars, effectVars, topicVars, late, faults, redeliveries>>

\* Mutant: the order is read without FOR UPDATE.
GetWithoutLock(k) ==
  LET t == task[k] IN
  /\ t.pc = "lock"
  /\ Proceeds(t.op, status[t.order])
  /\ Send(k)
  /\ UNCHANGED <<orderVars, effectVars, topicVars, late, faults, redeliveries>>

\* GetForUpdate locks the row; PayOrder, ReleaseParts or CommitParts is called.
GetForUpdate(k) ==
  LET t == task[k] IN
  /\ t.pc = "lock"
  /\ rowLock[t.order] = NoTask
  /\ Proceeds(t.op, status[t.order])
  /\ rowLock' = [rowLock EXCEPT ![t.order] = k]
  /\ Send(k)
  /\ UNCHANGED <<status, used, effectVars, topicVars, late, faults, redeliveries>>

\* Mutant: Pay does not publish.
CallDoneSilent(k) ==
  /\ task[k].pc = "call" /\ task[k].wire = "ok" /\ task[k].op # "Create"
  /\ Goto(k, "commit")
  /\ UNCHANGED <<orderVars, effectVars, topicVars, late, faults, redeliveries>>

\* The call is done.  Update writes the new status into the transaction; Pay
\* has yet to publish.
CallDone(k) ==
  /\ task[k].pc = "call" /\ task[k].wire = "ok" /\ task[k].op # "Create"
  /\ Goto(k, IF task[k].op = "Pay" THEN "publish" ELSE "commit")
  /\ UNCHANGED <<orderVars, effectVars, topicVars, late, faults, redeliveries>>

\* Mutant: the producer sends again what the broker already has.
PublishOrderPaidAgain(k) ==
  LET o == task[k].order IN
  /\ task[k].pc = "publish"
  /\ published' = [published EXCEPT ![o] = @ + 1]
  /\ paidQueue' = [paidQueue EXCEPT ![o] = @ + 1]
  /\ \E pc \in {"publish", "commit"} : Goto(k, pc)
  /\ UNCHANGED <<orderVars, effectVars, built, builtQueue, late, faults, redeliveries>>

\* ProduceOrderPaid, inside the transaction.
PublishOrderPaid(k) ==
  LET o == task[k].order IN
  /\ task[k].pc = "publish"
  /\ published' = [published EXCEPT ![o] = @ + 1]
  /\ paidQueue' = [paidQueue EXCEPT ![o] = @ + 1]
  /\ Goto(k, "commit")
  /\ UNCHANGED <<orderVars, effectVars, built, builtQueue, late, faults, redeliveries>>

NewStatus(op) ==
  CASE op = "Pay" -> "PAID"
    [] op = "Cancel" -> "CANCELLED"
    [] OTHER -> "ASSEMBLED"

\* The transaction commits.
CommitOrder(k) ==
  /\ task[k].pc = "commit"
  /\ status' = [status EXCEPT ![task[k].order] = NewStatus(task[k].op)]
  /\ End(k) /\ Unlock(k)
  /\ UNCHANGED <<used, effectVars, topicVars, late, faults, redeliveries>>
-----------------------------------------------------------------------------
(* The two topics and the assembly service. *)

DeliverOrderPaid(k, o) ==
  /\ paidQueue[o] > 0
  /\ paidQueue' = [paidQueue EXCEPT ![o] = @ - 1]
  /\ Start(k, "Assemble", o, "build")
  /\ UNCHANGED <<orderVars, effectVars, published, built, builtQueue, late, faults, redeliveries>>

\* Assemble waits for the build time and publishes.
PublishShipAssembled(k) ==
  LET o == task[k].order IN
  /\ task[k].pc = "build"
  /\ built' = [built EXCEPT ![o] = @ + 1]
  /\ builtQueue' = [builtQueue EXCEPT ![o] = @ + 1]
  /\ End(k)
  /\ UNCHANGED <<orderVars, effectVars, published, paidQueue, late, faults, redeliveries>>

DeliverShipAssembled(k, o) ==
  /\ builtQueue[o] > 0
  /\ builtQueue' = [builtQueue EXCEPT ![o] = @ - 1]
  /\ Start(k, "Ship", o, "lock")
  /\ UNCHANGED <<orderVars, effectVars, published, built, paidQueue, late, faults, redeliveries>>

\* A message comes once more: its offset was not committed before a restart
\* or a rebalance.
Redeliver(o) ==
  /\ redeliveries < MaxRedeliveries
  /\ redeliveries' = redeliveries + 1
  /\ \/ published[o] > 0 /\ paidQueue' = [paidQueue EXCEPT ![o] = @ + 1] /\ UNCHANGED builtQueue
     \/ built[o] > 0 /\ builtQueue' = [builtQueue EXCEPT ![o] = @ + 1] /\ UNCHANGED paidQueue
  /\ UNCHANGED <<orderVars, effectVars, published, built, task, late, faults>>

\* A task ends without finishing: a call timed out, the context was cancelled,
\* a statement or the commit failed, the process died.  Its transaction rolls
\* back.  The message of a consumer comes back, or is passed over.
Abandon(k) ==
  LET t == task[k] IN
  /\ t # Idle
  /\ faults < MaxFaults
  /\ faults' = faults + 1
  /\ End(k) /\ Unlock(k)
  /\ late' = IF t.wire = "sent" THEN late \cup {[op |-> t.op, order |-> t.order, id |-> faults]} ELSE late
  /\ \/ UNCHANGED <<paidQueue, builtQueue>>
     \/ /\ t.op = "Assemble"
        /\ paidQueue' = [paidQueue EXCEPT ![t.order] = @ + 1]
        /\ UNCHANGED builtQueue
     \/ /\ t.op = "Ship"
        /\ builtQueue' = [builtQueue EXCEPT ![t.order] = @ + 1]
        /\ UNCHANGED paidQueue
  /\ UNCHANGED <<status, used, effectVars, published, built, redeliveries>>
-----------------------------------------------------------------------------
\* What a running task does next by itself.
Run(k) ==
  \/ CallFailed(k)
  \/ CreateRefused(k) \/ CreateReserve(k) \/ CreateInsert(k)
  \/ CallDone(k) \/ PublishOrderPaid(k) \/ CommitOrder(k)
  \/ PublishShipAssembled(k)

Lock(k) == GetAndLeave(k) \/ GetForUpdate(k)

Next ==
  \/ \E k \in Clients, o \in Orders : StartCreate(k, o)
  \/ \E k \in Clients, o \in Orders, op \in {"Pay", "Cancel"} : StartRequest(k, op, o)
  \/ \E k \in Builders, o \in Orders : DeliverOrderPaid(k, o)
  \/ \E k \in Shippers, o \in Orders : DeliverShipAssembled(k, o)
  \/ \E k \in Tasks : Run(k) \/ Lock(k) \/ Serve(k) \/ Abandon(k)
  \/ \E c \in late : ServeLate(c)
  \/ \E o \in Orders : Redeliver(o)

Spec == Init /\ [][Next]_vars

\* Handlers run on and their calls are served, messages are delivered, and
\* PostgreSQL hands the row lock to its waiters in turn.
Fairness ==
  /\ \A k \in Tasks : WF_vars(Run(k) \/ Serve(k))
  /\ \A k \in Shippers : SF_vars(Lock(k))
  /\ \A o \in Orders : WF_vars(\E k \in Builders : DeliverOrderPaid(k, o))
  /\ \A o \in Orders : WF_vars(\E k \in Shippers : DeliverShipAssembled(k, o))

FairSpec == Spec /\ Fairness
-----------------------------------------------------------------------------
TypeOK ==
  /\ rows \in [Parts -> Row]
  /\ status \in [Orders -> Statuses \cup {"none"}]
  /\ rowLock \in [Orders -> Tasks \cup {NoTask}]
  /\ task \in [Tasks -> TaskSet \cup {Idle}]
  /\ used \subseteq Orders
  /\ charges \in [Orders -> Nat] /\ consumed \in [Orders -> Nat]
  /\ published \in [Orders -> Nat] /\ paidQueue \in [Orders -> Nat]
  /\ built \in [Orders -> Nat] /\ builtQueue \in [Orders -> Nat]
  /\ late \subseteq CallSet
  /\ faults \in 0 .. MaxFaults
  /\ redeliveries \in 0 .. MaxRedeliveries

\* A task of o's whose remote call has been done.
Past(k, op, o) ==
  /\ task[k].op = op /\ task[k].order = o
  /\ task[k].wire = "ok" \/ task[k].pc \in {"publish", "commit"}

\* The order has a claim on one unit of each of its parts.
Holding(o) ==
  \/ \E k \in Clients : Past(k, "Create", o)
  \/ /\ status[o] \in {"PENDING_PAYMENT", "PAID"}
     /\ \A k \in Tasks : ~Past(k, "Cancel", o) /\ ~Past(k, "Ship", o)

\* The reserved column counts exactly the orders that hold a claim, through
\* every interleaving of creation, cancelling and shipping.  It is what lets
\* CommitParts succeed for a paid order.
ReservedForOrders ==
  \A p \in Parts :
    rows[p].reserved = Cardinality({o \in Orders : p \in Items[o] /\ Holding(o)})

\* The parts of an order leave the stock at most once, however often its
\* ship-assembled message is delivered.
PartsLeaveStockOnce == \A o \in Orders : consumed[o] <= 1

\* The order is assembled, or the transaction that will make it so has taken
\* its parts.
Shipped(o) == status[o] = "ASSEMBLED" \/ \E k \in Tasks : Past(k, "Ship", o)

\* The order is paid, or the transaction that will make it so has charged.
PaidFor(o) ==
  \/ status[o] \in {"PAID", "ASSEMBLED"}
  \/ \E k \in Clients : Past(k, "Pay", o)

\* Two Pay requests, or a Pay and a Cancel, never make a second charge or one
\* for an order that ends up unpaid.
ChargedExactlyPaid ==
  \A o \in Orders : charges[o] = IF PaidFor(o) THEN 1 ELSE 0

\* The order.paid event of Pay belongs to an order that is PAID, or that the
\* publishing transaction is about to make so ("in a single transaction ... moves
\* the order to PAID and publishes the order.paid event", README).  A commit that
\* fails breaks it.
EventOnlyOfPaidOrders == \A o \in Orders : published[o] > 0 => PaidFor(o)

\* Whatever fails on the way, an order seen as PAID was charged and its event
\* is on the topic, and an ASSEMBLED one has taken its parts.
PaidWasCharged ==
  \A o \in Orders :
    /\ status[o] \in {"PAID", "ASSEMBLED"} => charges[o] > 0 /\ published[o] > 0
    /\ status[o] = "ASSEMBLED" => consumed[o] > 0

\* Whatever fails on the way, a paid order can only become ASSEMBLED, an
\* assembled one stays so, and no order goes back to waiting for its payment.
PaidNeverUndone ==
  [][\A o \in Orders :
       /\ status[o] = "PAID" => status'[o] \in {"PAID", "ASSEMBLED"}
       /\ status[o] = "ASSEMBLED" => status'[o] = "ASSEMBLED"
       /\ status'[o] = "PENDING_PAYMENT" => status[o] \in {"none", "PENDING_PAYMENT"}]_vars

\* "A user ... creates an order from a set of parts and pays for it - after which
\* the ship is assembled" (README): only a paid order becomes ASSEMBLED, although
\* the ship-assembled handler takes any status but ASSEMBLED.  A Pay that
\* published and failed to commit breaks it: the order is waiting for its
\* payment, or cancelled by now, when the message of its ship comes.
OnlyPaidAreAssembled ==
  [][\A o \in Orders : status'[o] = "ASSEMBLED" => status[o] \in {"PAID", "ASSEMBLED"}]_vars

\* Without failures every paid order is assembled in the end: the event is
\* delivered, the ship is built and CommitParts finds the reservation.
PaidIsAssembled == \A o \in Orders : status[o] = "PAID" ~> status[o] = "ASSEMBLED"

\* The order is cancelled, or the transaction that will make it so has given
\* back its parts.
Cancelled(o) == status[o] = "CANCELLED" \/ \E k \in Tasks : Past(k, "Cancel", o)

\* What an order amounts to: its status, or what the call that the running
\* handler has done will make of it.
Life(o) ==
  CASE Shipped(o) -> "assembled"
    [] ~Shipped(o) /\ PaidFor(o) -> "paid"
    [] ~Shipped(o) /\ ~PaidFor(o) /\ Holding(o) -> "open"
    [] ~Shipped(o) /\ ~PaidFor(o) /\ ~Holding(o) /\ Cancelled(o) -> "cancelled"
    [] OTHER -> "none"

Book == INSTANCE OrderBook WITH life <- [o \in Orders |-> Life(o)], events <- published

\* Without failures the handlers, their row locks, their calls to two services
\* and the messages between them add up to one state machine per order: every
\* step takes one order one transition further, together with its effect on the
\* stock or its charge, or changes nothing that counts.
ImplementsBook == Book!Spec
=============================================================================
