------------------------------ MODULE Lifecycle ------------------------------
(***************************************************************************)
(* The life of one service process: app.New registers the close function   *)
(* of each resource it creates, Run starts the server and the Kafka        *)
(* consumer in goroutines of their own and waits for a signal or for one   *)
(* of the two to end, and closer.CloseAll closes what has been registered, *)
(* last first.  Meanwhile handlers run and use the resources.              *)
(*                                                                         *)
(* The containers create resources lazily, in the order the calls reach    *)
(* them; the consumer's are created in the consumer's goroutine, next to   *)
(* the waiting Run.  GracefulStop waits for the handlers without limit,    *)
(* http.Server.Shutdown until the shutdown context expires, and            *)
(* pgxpool.Close for the connections that are out.                         *)
(*                                                                         *)
(* Logger, metrics and tracer are registered and closed like the others,   *)
(* but a handler can do without them.                                      *)
(***************************************************************************)
EXTENDS Naturals, Sequences, SequencesExt

CONSTANTS
  Services,   \* the services looked at
  Slots,      \* handlers running at once
  None        \* nothing is being closed

AllServices == {"order", "inventory", "iam", "payment", "assembly"}

Resources == {"Logger", "Metrics", "Tracer", "Pool", "Redis", "IAM", "Inventory", "Payment",
              "Producer", "Group", "Server"}

ASSUME LifecycleAssumption ==
  /\ Services \subseteq AllServices
  /\ None \notin Resources

VARIABLES
  service,
  slow,       \* a request may outlast the order service's shutdown timeout
  stage,      \* of the main goroutine
  funcs,      \* the closer's slice
  todo,       \* what CloseAll has taken out of it and not yet closed
  closing,    \* the resource whose close function is running
  created,    \* resources the container has created
  up,         \* the ones that are not closed
  server,
  consumer,
  signalled,  \* the context of Run is cancelled
  work,       \* what each handler serves, and whether it holds a connection
  misused     \* the kinds of handler that met a closed resource, and which

vars == <<service, slow, stage, funcs, todo, closing, created, up, server, consumer, signalled, work, misused>>

Idle == [kind |-> "none", conn |-> FALSE]

Init ==
  /\ service \in Services /\ slow \in BOOLEAN
  /\ stage = "init"
  /\ funcs = <<>> /\ todo = <<>>
  /\ closing = None
  /\ created = {} /\ up = {}
  /\ server = "none" /\ consumer = "none"
  /\ signalled = FALSE
  /\ work = [k \in Slots |-> Idle]
  /\ misused = {}
-----------------------------------------------------------------------------
(* What each service registers, in order. *)

OrderBoot == <<"Logger", "Metrics", "Tracer", "IAM", "Redis", "Pool", "Producer", "Inventory", "Payment", "Server">>

\* Mutants: the server is registered before the pool is created; the pool is
\* created once for the transactions and once for the repository.
InventoryBootEarly == <<"Logger", "Tracer", "IAM", "Server", "Pool">>

InventoryBootTwice == <<"Logger", "Tracer", "IAM", "Pool", "Pool", "Server">>

InventoryBoot == <<"Logger", "Tracer", "IAM", "Pool", "Server">>

IamBoot == <<"Logger", "Tracer", "Pool", "Redis", "Server">>

PaymentBoot == <<"Logger", "Tracer", "Server">>

AssemblyBoot == <<"Logger">>

Boot ==
  CASE service = "order" -> OrderBoot
    [] service = "inventory" -> InventoryBoot
    [] service = "iam" -> IamBoot
    [] service = "payment" -> PaymentBoot
    [] OTHER -> AssemblyBoot

\* The pool and the inventory client are there by then.
OrderLazy == <<"Group">>

AssemblyLazy == <<"Group", "Producer">>

Lazy ==
  CASE service = "order" -> OrderLazy
    [] service = "assembly" -> AssemblyLazy
    [] OTHER -> <<>>

\* What a handler of each kind works with.
Needs(kind) ==
  CASE service = "order" /\ kind = "request" -> {"Redis", "IAM", "Pool", "Producer", "Inventory", "Payment"}
    [] service = "order" /\ kind # "request" -> {"Pool", "Inventory"}
    [] service = "inventory" -> {"IAM", "Pool"}
    [] service = "iam" -> {"Pool", "Redis"}
    [] service = "payment" -> {}
    [] OTHER -> {"Producer"}

Running == stage \in {"wait", "close"}

Add(r) ==
  /\ funcs' = Append(funcs, r)
  /\ created' = created \cup {r}
  /\ up' = up \cup {r}
-----------------------------------------------------------------------------
(* app.New and the goroutines of Run. *)

InitDep ==
  /\ stage = "init" /\ Len(funcs) < Len(Boot)
  /\ Add(Boot[Len(funcs) + 1])
  /\ UNCHANGED <<service, slow, stage, todo, closing, server, consumer, signalled, work, misused>>

\* os.Exit(1), in app.New or in the consumer's goroutine.
Exit ==
  /\ stage = "init" \/ consumer = "setup"
  /\ stage' = "exited" /\ server' = "none" /\ consumer' = "none"
  /\ work' = [k \in Slots |-> Idle]
  /\ UNCHANGED <<service, slow, funcs, todo, closing, created, up, signalled, misused>>

Run ==
  /\ stage = "init" /\ Len(funcs) = Len(Boot)
  /\ stage' = "wait"
  /\ server' = IF "Server" \in up THEN "serving" ELSE "none"
  /\ consumer' = IF Lazy = <<>> THEN "none" ELSE "setup"
  /\ UNCHANGED <<service, slow, funcs, todo, closing, created, up, signalled, work, misused>>

\* The consumer's goroutine comes to the next resource it has to create.
SetupConsumer ==
  /\ Running /\ consumer = "setup"
  /\ \E i \in DOMAIN Lazy :
       /\ Lazy[i] \notin created /\ \A j \in 1 .. i - 1 : Lazy[j] \in created
       /\ Add(Lazy[i])
  /\ UNCHANGED <<service, slow, stage, todo, closing, server, consumer, signalled, work, misused>>

\* All is there: Consume, which gets no session if the context is cancelled.
Consume ==
  /\ Running /\ consumer = "setup"
  /\ Range(Lazy) \subseteq created
  /\ consumer' = IF signalled THEN "returned" ELSE "consuming"
  /\ UNCHANGED <<service, slow, stage, funcs, todo, closing, created, up, server, signalled, work, misused>>

\* Consume returns: cancelled, closed, or failed for good.
ConsumeReturns ==
  /\ Running /\ consumer = "consuming"
  /\ \A k \in Slots : work[k].kind # "message"
  /\ consumer' = "returned"
  /\ UNCHANGED <<service, slow, stage, funcs, todo, closing, created, up, server, signalled, work, misused>>

\* Serve or ListenAndServe fails of itself; the handlers go on.
ServerFails ==
  /\ Running /\ server = "serving"
  /\ server' = "failed"
  /\ UNCHANGED <<service, slow, stage, funcs, todo, closing, created, up, consumer, signalled, work, misused>>

Signal ==
  /\ stage = "wait" /\ ~signalled
  /\ signalled' = TRUE
  /\ UNCHANGED <<service, slow, stage, funcs, todo, closing, created, up, server, consumer, work, misused>>

\* Mutant: select has no case for the goroutines' errors.
ShutDownOnSignal ==
  /\ stage = "wait" /\ signalled
  /\ stage' = "close"
  /\ todo' = funcs /\ funcs' = <<>>
  /\ UNCHANGED <<service, slow, closing, created, up, server, consumer, signalled, work, misused>>

\* select: the signal, or one of the goroutines has ended.  The context is
\* cancelled and CloseAll takes the slice.
ShutDown ==
  /\ stage = "wait"
  /\ signalled \/ server = "failed" \/ consumer = "returned"
  /\ stage' = "close"
  /\ signalled' = TRUE
  /\ todo' = funcs /\ funcs' = <<>>
  /\ UNCHANGED <<service, slow, closing, created, up, server, consumer, work, misused>>

\* A second signal: nobody catches it any more.
Killed ==
  /\ stage = "close"
  /\ stage' = "exited" /\ server' = "none" /\ consumer' = "none"
  /\ work' = [k \in Slots |-> Idle]
  /\ UNCHANGED <<service, slow, funcs, todo, closing, created, up, signalled, misused>>
-----------------------------------------------------------------------------
(* closer.CloseAll *)

\* The close function of the last resource starts; from now on the resource
\* refuses new work.
BeginClose ==
  /\ stage = "close" /\ closing = None /\ todo # <<>>
  /\ closing' = Last(todo)
  /\ up' = up \ {Last(todo)}
  /\ server' = IF Last(todo) = "Server" THEN "stopped" ELSE server
  /\ UNCHANGED <<service, slow, stage, funcs, todo, consumer, signalled, work, misused, created>>

\* What the close function waits for.
Drained(r) ==
  CASE r = "Server" -> (service = "order" /\ slow) \/ \A k \in Slots : work[k].kind # "request"
    [] r = "Group" -> \A k \in Slots : work[k].kind # "message"
    [] r = "Pool" -> \A k \in Slots : ~work[k].conn
    [] OTHER -> TRUE

\* Mutant: the first error ends the loop.
EndCloseOrStop ==
  /\ stage = "close" /\ closing # None /\ Drained(closing)
  /\ todo' \in {Front(todo), <<>>}
  /\ closing' = None
  /\ UNCHANGED <<service, slow, stage, funcs, created, up, server, consumer, signalled, work, misused>>

\* It returns; its error, if any, is kept and the loop goes on.
EndClose ==
  /\ stage = "close" /\ closing # None /\ Drained(closing)
  /\ todo' = Front(todo)
  /\ closing' = None
  /\ UNCHANGED <<service, slow, stage, funcs, created, up, server, consumer, signalled, work, misused>>

\* The process ends, and with it whatever still runs.
Return ==
  /\ stage = "close" /\ closing = None /\ todo = <<>>
  /\ stage' = "returned" /\ server' = "none" /\ consumer' = "none"
  /\ work' = [k \in Slots |-> Idle]
  /\ UNCHANGED <<service, slow, funcs, todo, closing, created, up, signalled, misused>>
-----------------------------------------------------------------------------
(* The handlers. *)

Accept(k, kind) ==
  /\ Running /\ work[k] = Idle
  /\ \/ kind = "request" /\ server = "serving"
     \/ kind = "message" /\ consumer = "consuming" /\ "Group" \in up
  /\ work' = [work EXCEPT ![k] = [kind |-> kind, conn |-> FALSE]]
  /\ UNCHANGED <<service, slow, stage, funcs, todo, closing, created, up, server, consumer, signalled, misused>>

\* A transaction takes a connection and keeps it to the end of the handler.
Acquire(k) ==
  /\ work[k] # Idle /\ ~work[k].conn
  /\ "Pool" \in Needs(work[k].kind) \cap up
  /\ work' = [work EXCEPT ![k] = [kind |-> @.kind, conn |-> TRUE]]
  /\ UNCHANGED <<service, slow, stage, funcs, todo, closing, created, up, server, consumer, signalled, misused>>

\* The handler turns to a resource that is closed, and fails.
FindClosed(k, r) ==
  /\ work[k] # Idle
  /\ r \in Needs(work[k].kind) \ up
  /\ r = "Pool" => ~work[k].conn
  /\ misused' = misused \cup {[kind |-> work[k].kind, resource |-> r]}
  /\ work' = [work EXCEPT ![k] = Idle]
  /\ UNCHANGED <<service, slow, stage, funcs, todo, closing, created, up, server, consumer, signalled>>

\* The handler returns, with or without an error.
Finish(k) ==
  /\ work[k] # Idle
  /\ work' = [work EXCEPT ![k] = Idle]
  /\ UNCHANGED <<service, slow, stage, funcs, todo, closing, created, up, server, consumer, signalled, misused>>

Main == InitDep \/ Run \/ ShutDown \/ BeginClose \/ EndClose \/ Return

Next ==
  \/ Main \/ Exit \/ Signal \/ Killed
  \/ SetupConsumer \/ Consume \/ ConsumeReturns \/ ServerFails
  \/ \E k \in Slots :
       \/ \E kind \in {"request", "message"} : Accept(k, kind)
       \/ Acquire(k) \/ Finish(k)
       \/ \E r \in Resources : FindClosed(k, r)

Spec == Init /\ [][Next]_vars

\* The main goroutine runs on once it can, and a handler that has been started
\* returns.
FairSpec == Spec /\ WF_vars(Main) /\ \A k \in Slots : WF_vars(Finish(k))
-----------------------------------------------------------------------------
\* The container creates each resource once, so that none is registered twice.
TypeOK ==
  /\ service \in Services /\ slow \in BOOLEAN
  /\ stage \in {"init", "wait", "close", "returned", "exited"}
  /\ funcs \in Seq(Resources) /\ IsInjective(funcs)
  /\ todo \in Seq(Resources) /\ IsInjective(todo)
  /\ closing \in Resources \cup {None}
  /\ up \subseteq created /\ created \subseteq Resources
  /\ server \in {"none", "serving", "failed", "stopped"}
  /\ consumer \in {"none", "setup", "consuming", "returned"}
  /\ signalled \in BOOLEAN
  /\ work \in [Slots -> [kind : {"none", "request", "message"}, conn : BOOLEAN]]
  /\ misused \subseteq [kind : {"request", "message"}, resource : Resources]

\* Two kinds of handler meet a closed resource: a request of the order service
\* that outlasts the deadline of http.Server.Shutdown, and a message of the
\* assembly service, whose container creates the producer after the consumer
\* group and so closes it first.  No other does, a message of the order service
\* beside such a request included, and nothing but the producer is taken from
\* under an assembly.
NoUseAfterClose ==
  \A m \in misused :
    \/ service = "order" /\ slow /\ m.kind = "request"
    \/ service = "assembly" /\ m.kind = "message" /\ m.resource = "Producer"

\* When Run returns, every resource is closed that was registered by the time
\* CloseAll took the list, whatever the close functions returned; what the
\* consumer's goroutine registered after that is still in the list.
EverythingClosed == stage = "returned" => up = Range(funcs)

\* "the resource added last is closed first, which keeps the dependency order
\* correct", and "in-flight business logic finishes, and only then the database
\* closes" (closer.go): no handler is left without what it works with.  Not so:
\* the assembly service adds the producer after the consumer group, and Shutdown
\* of the order service's HTTP server gives up at its deadline.
DependencyOrder == misused = {}

\* "the main goroutine is guaranteed to wait for every close to finish before
\* Run returns" (app.go of the order service).  Not so: the consumer's goroutine
\* may register the consumer group after CloseAll has taken the list.
EveryCloseFinished == stage = "returned" => up = {}

\* A process that has got a signal, or has lost its server or its consumer,
\* ends, however busy it is.
ShutdownCompletes ==
  signalled \/ server = "failed" \/ consumer = "returned" ~> stage \in {"returned", "exited"}
=============================================================================
