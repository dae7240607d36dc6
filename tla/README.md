# Rocket factory: TLA+ models, checks and proofs

The repository is a set of Go services that sell rocket ships: a customer orders
a hull, an engine and perhaps a shield and a weapon, pays, and gets the ship
assembled. This directory holds TLA+ models of the services, the TLC
configurations that check them on small instances, and TLAPS proofs of their
main properties for instances of any size. `PROJECT.json` lists the runs, the
mutants that show each property can fail, the source lines each definition
stands for, the findings, the hazards and the theorems.

## The system

| Part | State | Operations | Talks to |
|---|---|---|---|
| **inventory** (gRPC) | table `parts`: `stock_quantity`, `reserved`, type, JSONB properties | ReserveParts, ReleaseParts, CommitParts (transactions with row locks); ListParts, GetPart, ValidateCompatibility (reads) | PostgreSQL, IAM (each call's session) |
| **order** (HTTP and a Kafka consumer) | tables `orders`, `order_items`; statuses PENDING_PAYMENT, PAID, CANCELLED, ASSEMBLED | Create, Pay, Cancel, Get; handler of `assembly.ship-assembled` | inventory, payment, IAM, PostgreSQL, Kafka, Redis (rate limit) |
| **payment** (gRPC) | none | PayOrder | - |
| **assembly** (Kafka) | none | handler of `order.paid`: waits, publishes `assembly.ship-assembled` | Kafka |
| **iam** (gRPC) | table `users`; session hashes in Redis with an expiry | Register, Login, Whoami, Logout, GetUser | PostgreSQL, Redis |
| **platform** | consumer-group offsets; the closer's list of close functions | Consume / ConsumeClaim; Add / CloseAll; producer, session headers, rate limiter, logging, tracing | Kafka, Redis |

An order goes through them like this. *Create* checks the request, lists the
parts, has the inventory check that they fit, reserves one unit of each and
inserts the order. *Pay* locks the order's row, calls payment, writes PAID,
publishes `order.paid` and commits. Assembly consumes the event and publishes
`assembly.ship-assembled`; the order service consumes that, locks the order,
has the inventory take the reserved units out of the stock, and writes
ASSEMBLED. *Cancel* releases the reservation of an unpaid order.

What is hard about it:

- concurrent transactions over several rows of one table, with row locks held
  from a SELECT to the COMMIT and absolute values written back;
- a transaction in one service held open over a call to another, with no
  distributed commit: the callee's effect survives the caller's rollback, and
  may even come after it;
- a message published inside a transaction that may still fail;
- at-least-once delivery, skipped messages, rebalances, evicted members;
- a session checked by several services in turn, which travels through two
  Kafka topics and may end in between;
- three replicas that share one rate limit in a Redis that may be away, or come
  back without its keys;
- requests and answers that pass a router, decoders, validators, conversions and
  error mappings in both directions, where a value unknown to one of them
  silently becomes a default;
- two Redis commands that together store one session;
- lazily created resources, closed in reverse order of creation while handlers
  still run.

The full list, each with its line and the properties aimed at it, is in
`PROJECT.json` under `hazards`.

## Modules

| Module | Models | State and actions |
|---|---|---|
| `Part` | `inventory/internal/model/entity/part.go` | a row `[stock, reserved]`; guard and effect of Reserve, Release, Commit |
| `PartCalls` | the inventory's requests and gRPC codes | which rows a call is about, when it parses and names each part once |
| `PartLedger` | *abstract*: what the inventory promises | each call takes effect at one instant, wholly or not at all, and its reply is justified at that instant |
| `Inventory` | the three transactions as written | auth, parse, BEGIN, one `LockRow` per row in ORDER BY order, `mapAndOrder`, domain loop, UPDATE and COMMIT; `Fail`, `Crash` |
| `OrderBook` | *abstract*: what the services promise of an order while nothing fails | one state machine per order; each transition and its effect on stock or money is one step |
| `KafkaConsumer` | `platform/pkg/kafka/consumer` | `Consume`'s loop, one `ConsumeClaim` per partition; the broker and sarama are external |
| `OrderFlow` | order, assembly and payment over the ledger | tasks (running handlers), the order's row lock, remote calls in two steps, two topics, late effects |
| `CreateOrder` | the checks of `POST /orders` in both services | the first check that fails decides the HTTP code; other orders, the end of the session and a call that fails interleave |
| `Iam` | users and sessions | one step per access to PostgreSQL or Redis; a clock; handlers cut off |
| `SessionChain` | the payer's session: HTTP, Kafka, assembly, Kafka, gRPC; composed with `Iam`, which it extends | handlers with a session in their context, headers on two topics, the inventory's check at the far end |
| `RateLimit` | `platform/pkg/ratelimit` | the backlog of each key in Redis, Redis up, away or started anew without its keys, and an observer's window; redis_rate's script is external |
| `OrderJson` | the types of `shared/pkg/openapi/order/v1` | no state: encoding, decoding and validation of the messages, one generic form and a table per type |
| `OrderApi` | the HTTP side of the order service and its generated client, composed with `RateLimit` | one request per instance: limiter, session, router, decoding, service, answer |
| `Lifecycle` | `closer` and the five `internal/app` packages | boot order, goroutines of `Run`, CloseAll, handlers that use the resources |
| `*Proofs` | proofs about the module they extend; `SessionChainProofs` about `Iam` too, `OrderApiProofs` about `RateLimit` too, on top of `OrderJsonProofs` | |
| `MC*` | values of the constants for TLC | |

`OrderFlow` uses the inventory as the atomic ledger that `Inventory` is shown
to implement, and topics that deliver at least once, as `KafkaConsumer` shows; up to
the first failure it implements `OrderBook` in turn.
`OrderApi` takes the service layer as its contract: what `OrderFlow` and
`CreateOrder` show it to do. `SessionChain` keeps of the handlers in `OrderFlow`
what moves the session. Operators named as mutants stand before the definition they are a slip of; no
specification uses them.

Abstractions worth knowing:

- Uuids are numbers (so that ORDER BY uuid is `<=`), model values elsewhere. A
  login's bcrypt hash is the password it was made from.
- In `Inventory` the UPDATE and the COMMIT are one step, since nobody sees the
  former before the latter. The reply may be lost at that step.
- A handler's remote call in `OrderFlow` is the callee's step and the caller's
  step. `Abandon` ends a task at any point; a call already sent goes to `late`
  and may still be served.
- In `OrderJson` a JSON object is the sequence of its members, so that a key may
  repeat, and a string is known only by what the code asks of it (is it a uuid,
  a time, a known method). A Go struct is a function from keys to values.
- In `OrderApi` a path is the sequence of its segments. Requests of all kinds
  come one by one and bursts are of polls alone (`spaced`), which keeps two
  independent questions apart: what becomes of one request, and how many pass.
- In `SessionChain` a message stays on its topic and may come at any time and any
  number of times, which is more than Kafka does; Whoami is one step.
- In `CreateOrder` the parts' properties are kept to what the rules compare. A call
  or the insert may fail (`CallFails`); a reservation whose answer was lost is made at
  that step or never, since nothing of the request looks at the rows afterwards. One
  that comes later still is in `OrderFlow`.
- In `Lifecycle` a close function starts (the resource refuses new work) and
  ends when what it waits for is done: GracefulStop waits for the handlers, the
  HTTP server's Shutdown until its context expires (`slow`, chosen initially), pgxpool's Close for
  the connections that are out.

## Runs

All runs take about two and a half minutes or less. Bounds are constants named in the
modules.

| Run | Shows | Instance |
|---|---|---|
| `inventory` | types, no overselling, no lost update, no deadlock, every call answered, refinement of `PartLedger` | 2 calls, 3 parts (one row does not decode), stock 0..1, requests in both orders, repeated, unknown, malformed, empty |
| `kafka` | at-least-once, committed offsets never go back, every message is settled | 2 members, 3 messages on one partition, 2 faults |
| `order_flow` | reserved column, stock, charges and events agree with the orders; only a paid order is assembled; refinement of `OrderBook`; a paid order is assembled | 2 orders that share parts, 2 clients, 1 builder, 2 shippers, 1 redelivery, no faults |
| `order_faults` | what faults cannot break: PAID was charged and announced, and is never undone | 2 orders, 1 fault, 1 redelivery |
| `sessions` | one registrant per login, sessions expire, logout counts at once; parts leave the stock only under the payer's valid session, and no hop loses it | 2 IAM handlers, 1 session, clock 0..2, 1 cut; 1 order, 1 handler of requests and messages |
| `create_order` | only buildable ships are ordered; the code says what is wrong | every mixture of slots over a catalogue with hulls of strength 29, 30, 200 and 201 (30 to 200 decode) and engines that require 30 and 70, 2 steps of other orders, a session that may end, calls that fail |
| `lifecycle` | which handlers meet a closed resource, and that no other does; what was registered is closed; a process that is told to end does | all five services, requests that end within the shutdown timeout and that do not |
| `order_api` | the limit is one for all replicas; the service is called as asked; the client understands every answer; GET shows what was asked for; every request is answered | 2 instances, burst 2, windows of 3 ticks, 1 order, calls and requests with repeated, null, missing and unknown keys, wrong types, paths and methods; one loss of Redis's keys |

The bounds are the least at which the interesting case happens: two
transactions for a lost update or a deadlock; three messages so that one can be
skipped between two others; two orders that share a part, so that one may be
refused or take the other's unit; a lifetime of one tick, so that a session
expires while its Login, its Whoami or its Logout is under way. `sessions` has
one session and one order: a message of another order or under another session
shares nothing with it but the handler, and the theorems cover any number of
them. Two replicas and a burst of two let a limit per replica show. One fault is
enough for the counterexamples below; what survives faults is proved for any
number of them, as is the absence of deadlock for any number of transactions.

### Disagreements with what the repository says

Each is a run that TLC refutes; the quotations are in `PROJECT.json`.

- `kafka_skip`: a message whose handler failed is committed past by the next
  one, so it is not delivered again after a restart.
- `order_leak`: a Create that fails after ReserveParts leaves units reserved
  for no order (and a Cancel that fails after ReleaseParts the reverse).
- `create_order_bare`: a part with the default properties `'{}'` panics the
  compatibility check.
- `lifecycle_use`: the assembly service closes its producer before the consumer
  group whose handlers use it, and a handler finds it closed. With
  `Services = {"order"}` the same property fails for a request that outlasts the
  shutdown timeout and finds the payment client closed; the other clients and the
  database follow.

Three more configurations show what becomes of a property of a passing run when the
condition it holds under is dropped. They are not among the runs of `PROJECT.json`;
`tlc -config <file> <module>` finds each violated in a few seconds:

- `MCOrderFlowTwice.cfg` (module `MCOrderFlow`): with one fault `PartsLeaveStockOnce`
  fails. A ship-assembled handler that fails after CommitParts takes the parts again
  when the message comes back. `order_leak` refutes `ReservedForOrders` for the same
  cause.
- `MCOrderFlowUnpaid.cfg` (module `MCOrderFlow`): with one fault `OnlyPaidAreAssembled`
  fails. `order.paid` is sent inside the transaction, so a Pay whose commit fails has
  published the event of an order that is not paid. The ship is built, and the
  handler of `ship-assembled`, which refuses no status but ASSEMBLED, takes the
  unpaid, by then perhaps cancelled, order to ASSEMBLED.
- `MCLifecycleLate.cfg` (module `MCLifecycle`): `EveryCloseFinished`, which is
  `EverythingClosed` for all resources, fails. A consumer group that the consumer's
  goroutine registers after CloseAll took the list is never closed.

### Known limits of the code that the properties step around

- `NoDeadlock` is about calls that name a part. An empty list of uuids locks
  every part in the order of the *names*, and with a call that locks by uuid it
  can deadlock. The run has such calls: PostgreSQL breaks the deadlock, and
  `EveryCallAnswered` holds of every caller. The order service always names
  parts.
- `EventOnlyOfPaidOrders` and `OnlyPaidAreAssembled` pass in `order_flow`, where nothing
  fails; `MCOrderFlowUnpaid.cfg` shows what one failure does to both.
- A session that ends while the ship is built leaves the order PAID: CommitParts
  is unauthenticated, the handler fails, and the message is skipped.
  `RefusedOnlyEnded` says that this is the only way to get there.
- `RateHolds` is per path, as the key is. docs/infrastructure.md (lines 104-106)
  reads as if `rate` were one limit for the whole system; a client that polls
  different orders has a limit for each. A Redis that loses its keys forgets what
  passed, so the bound grows by one burst with every loss.
- `ClientUnderstands` leaves out what the middlewares answer: 401 and 429 in
  plain text, which the OpenAPI document does not declare (401 of createOrder is
  declared, as JSON), so that the generated client reports an error.
- `IssuedExpire` is about sessions a client knows. A Login cut off between HSET
  and EXPIREAT leaves a hash without an expiry, whose id nobody was told.
- `NoUseAfterClose` names the two handlers that do meet a closed resource: a
  message of the assembly service, whose producer is closed before its consumer
  group, and a request of the order service that outlasts the shutdown timeout.
  `lifecycle_use` shows that they do; this bounds the damage to those two.
- `EverythingClosed` is about the resources registered when CloseAll takes the
  list. `MCLifecycleLate.cfg` shows the one that comes later.

### Fairness

- `Inventory`: weak fairness of each handler's own steps (a goroutine that can
  go on does) and strong fairness of `LockRow`, as PostgreSQL queues the waiters
  of a row lock, and weak fairness of the deadlock detector failing a
  transaction of a deadlock it finds.
- `KafkaConsumer`: weak fairness of claims, of the end of a session, of the
  coordinator's assignment, and of a process being started again. The last is
  the operator's: the compose files set no restart policy. Faults are bounded.
- `OrderFlow`: weak fairness of a task that runs and of the services serving its
  calls, strong fairness of the row lock for the ship-assembled handlers (as in
  `Inventory`), weak fairness of deliveries (`KafkaConsumer` shows that messages
  come). Clients need not send any request.
- `OrderApi`: weak fairness of the steps of a request that has arrived; every
  call it makes has a timeout. Nothing is assumed of Redis, of the clock or of
  clients.
- `Lifecycle`: the main goroutine runs on; a handler returns (every remote call
  has a timeout).

`CHECK_DEADLOCK FALSE` is set where the modelled thing really ends: the one
request of `CreateOrder`, the process of `Lifecycle`.

## Proofs

All proofs hold for any number of parts, calls, members, orders, sessions and
so on, from the named assumptions on the constants (`PartsAssumption`,
`RequestsAssumption`, `ConsumerAssumption`, `FlowAssumption`, `IamAssumption`,
`ChainAssumption`, `RateAssumption`, `PathsAssumption`, `CallsAssumption`,
`WireAssumption`, `RowsAssumption`, `CreateAssumption`, `LifecycleAssumption`), which TLC
evaluates on every run. The
pattern is the same everywhere: an inductive invariant (`IInv` or the name given
below), checked with TLC first, lemmas per action, `Spec => []IInv`, and each
property from `IInv`.

- **InventoryProofs.** Types alone are not inductive: a copy may be written back
  only because it is current, and it is current only because its row is locked.
  `IInv` adds that locks are held by the transactions that work on the rows,
  that every lock a transaction holds is of a row it asked for and comes before
  those it still waits for, and `ReadsAreCurrent`. From it follow
  `NeverOversold`, `NoDeadlock` (among calls that name their parts the locked
  row with the greatest uuid gives a transaction that waits for nobody in the
  set) and the refinement of `PartLedger`, whose step is the
  COMMIT or the rollback and which stutters on everything else.
- **KafkaConsumerProofs.** `IInv` says that an owner's marks are not below the
  committed offset, and that everything below a mark is settled. At-least-once
  and the monotony of committed offsets follow.
- **OrderFlowProofs.** The invariant is about evidence: what a task's position
  tells of charges, messages and the order's status, which the row lock keeps
  still. It holds under any number of faults; `PaidWasCharged` and
  `PaidNeverUndone` follow.

  The four properties that faults break (`ReservedForOrders`,
  `PartsLeaveStockOnce`, `ChargedExactlyPaid`, `EventOnlyOfPaidOrders`) are proved
  up to the first fault, `Spec => [](faults = 0 => P)`, whatever may fail after
  it. `CalmInv` says why they hold till then: at most one task is past the row
  lock of an order (`Alone`), what it has already done to the callee is the only
  difference between the order's status and the callee's state (`ShipsPaid`,
  `Shipped`, `ConsumedExactlyShipped`), and the reserved column is the cardinality
  of the set of orders that hold the part (`Holders`), which each step leaves alone
  or changes by one member.

  The refinement of `OrderBook` puts these together. Its mapping, `Life`, reads an
  order's place from its status and from what the handler that has it locked has
  already had done. The callee's step (`Serve`) and the publishing of `order.paid` are
  the steps of the book; arrivals, reads, locks, refusals, deliveries and the commits
  are stutters, since a commit writes what the done call already stood for
  (`CommitView`). It needs besides that an order has no event before its one Pay
  publishes (`AnnouncedExactly`). `OnlyPaidAreAssembled` comes
  from `ShipsPaid`: a ship-assembled handler past the row lock has a PAID order. `FollowsBook` says it up to the first failure, whatever
  fails later; `FlowImplementsBook` is the refinement of an instance without failures.
- **SessionChainProofs.** First about `Iam` by itself: `IInv` says that a session being
  stored belongs to one handler and to no client yet, that a hash agrees with what
  Login computed, that a revoked session has no hash and that a login has one
  registration. All four safety properties of users and sessions follow. On top
  of it, `ChainInv` says of every
  envelope (a message's headers, a handler's context) that it holds a session
  that has paid for its order and was issued to a client. With it a refusal is a
  statement about that session: it has ended. `CommittedByPayer` needs besides
  that Redis's expiry agrees with `expires_at` and that a revoked session has no
  hash, which are `Iam`'s.
- **OrderApiProofs.** First the limiter by itself: `RateHolds` alone is not
  inductive. The invariant is that what a window has seen pass, less what the time
  since has drained, is at most the key's backlog, which GCRA keeps within the
  burst; a key that Redis lost is forgiven by the burst that the bound grows by. Then every step of `OrderApi` is a step of `RateLimit` or leaves its
  variables alone, for any calls and requests (`ImplementsLimit`), so the limit
  holds of the service as a whole. `ApiInv` follows a call of the generated
  client: it is on the way as it was sent, it has exactly one route, the service is
  called for its operation, and the status of the answer is in the client's switch
  for that operation. `TypeOK` follows.

  For what is inside the bodies `ApiInv` is too weak. `FullInv` adds that a request
  inside the service has been called with what its body says (`Said`), that an answer
  is the error handler's or the encoding of what a handler returned (`Replied`), and
  that the order in the database is the one its creator and its payer asked for: rows
  of the parts of the request, each in its slot, a method and a transaction exactly
  when it is paid (`RowsTrue`). The last is what ties a GET to requests that ended
  long before it. `CalledAsAsked`, `ClientUnderstands` and `GetTellsTruth` follow for
  any calls and requests, bodies of any length, any catalogue and prices.
- **OrderJsonProofs.** What those three need of the generated encoders and decoders.
  Both are loops, modelled as recursive functions of the number of rounds, and so is
  the sum of the prices. The proofs are by induction on the rounds (`Induction`, from
  the library's minimal elements of a well-founded relation, which unlike its
  induction theorems has no operator as a parameter): what the decoder has read after
  n members (`After`: of a key that repeats the last counts, a missing one has its
  zero value), what the encoder has written after n fields (`Written`: just the fields
  that are set). `RoundTrip` says that a struct whose values fit their types comes
  back from Encode and Decode as it was.
- **CreateOrderProofs.** `CreateInv` says that at each stage the checks before it
  have been passed (`Checked`), and that other orders keep every row covered.
  What the properties call a sound row is stated by itself, without the decoder, and
  shown to be what the decoder lets through (`DecodesSound`, `SoundDecodes`).
  `CreatedIsBuildable` and `CodeTellsWhy` follow for every catalogue and request,
  whichever calls fail.
  `PanicNeedsUnsound` is the converse of the finding `create_order_bare`: the
  compatibility check panics on nothing but a requested row that lacks the properties
  of its type. The proof needs that a row which is no engine, shield or weapon has
  no model of one (`CreateAssumption`), as `Record` keeps a model for every kind.
- **LifecycleProofs.** The closer's list, what CloseAll still has to close and what
  the boot has still to create are at all times a prefix and the rest of one list
  per service, the order in which its resources come up. So a resource is up as
  long as one that came after it is, and a handler that the server or the consumer
  group waits for finds open everything it needs. `LInv` says so, with what each
  goroutine's stage tells of the list; `NoUseAfterClose` and `EverythingClosed`
  follow for any number of handlers at once.

Every invariant and action property of a passing run, and both refinements, are stated
by a theorem. Only model-checked is liveness, which is out of the prover's reach:
`EveryCallAnswered`, `EveryMessageSettled`, `PaidIsAssembled`, `EveryRequestAnswered`
and `ShutdownCompletes`.

## Not modelled

- Reads that change nothing and that no other part depends on: GetPart, GetUser,
  the filter of ListParts by type.
- Logging, metrics, tracing, health and configuration: no behaviour of the
  services depends on their state. Close functions are in `Lifecycle`.
- The protobuf messages and their converters: the generated code is descriptors
  for the protobuf runtime, and the converters copy fields. What a conversion
  decides (codes, parsing of uuids, types) is in the modules.
- Of the generated OpenAPI code: `FindPath` (a second form of the router that
  the service does not call), `MarshalJSON`/`UnmarshalJSON` (wrappers of Encode
  and Decode), getters and setters.
- The scripts of redis_rate, PostgreSQL, Kafka and sarama are external: modelled
  from how the code uses them.

## State of the project

Part, Inventory and its refinement of PartLedger, KafkaConsumer, OrderFlow and its
refinement of OrderBook, CreateOrder, Iam, SessionChain, RateLimit, OrderJson, OrderApi
and Lifecycle are modelled, checked and proved as above. Worth adding, should the code
change there:

1. A compensation for reservations that a failed Create leaves (`order_leak`) would turn
   that run into a passing one, and `ReservedForOrders` into a property under faults.
2. An outbox for `order.paid` would do the same for `EventOnlyOfPaidOrders`, and
   a handler that takes only PAID orders for `OnlyPaidAreAssembled`.
3. A producer created before the consumer group would take the assembly service out of
   `lifecycle_use` and of the names in `NoUseAfterClose`; a consumer group created before
   its goroutine starts would make `EveryCloseFinished` a property of the `lifecycle` run.
