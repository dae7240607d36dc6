---------------------------- MODULE SessionChain -----------------------------
(***************************************************************************)
(* The session a user pays with travels behind the order: HTTP -> Kafka -> *)
(* assembly -> Kafka -> gRPC.  Every hop takes it out of one envelope and  *)
(* puts it into the next (a context, a header, metadata), and at the far   *)
(* end, when the ship is built, the inventory asks IAM whether it is valid *)
(* still.  IAM is Iam.tla, whose users log in and out meanwhile.           *)
(*                                                                         *)
(* Of Pay, Assemble and ShipAssembledHandler this module keeps what moves  *)
(* the session and the order's status; their transactions and effects are  *)
(* in OrderFlow.  A message stays on its topic and may be delivered at any *)
(* time, any number of times.  Whoami is one step here, its HGETALL.       *)
(***************************************************************************)
EXTENDS Iam, Sequences

CONSTANTS
  Orders,
  Handlers    \* goroutines of requests and messages

VARIABLES
  order,      \* the status of each order
  payers,     \* the sessions of the Pays that have sent order.paid
  paidTopic,  \* order.paid
  shipTopic,  \* assembly.ship-assembled
  work,       \* what each handler does, and the session in its context
  admitted,   \* how the inventory let the CommitParts of each order in
  refused     \* orders whose CommitParts the inventory found unauthenticated

chainVars == <<order, payers, paidTopic, shipTopic, work, admitted, refused>>

allVars == <<chainVars, vars>>

\* The session CommitParts came in under, when, and whether it had been revoked.
Admission == [session : Sessions, at : Nat, dead : BOOLEAN]

ASSUME ChainAssumption == None \notin Admission

Free == [op |-> "none", order |-> None, ctx |-> None]

ChainInit ==
  /\ Init
  /\ order = [o \in Orders |-> "PENDING_PAYMENT"]
  /\ payers = [o \in Orders |-> {}]
  /\ paidTopic = {} /\ shipTopic = {}
  /\ work = [h \in Handlers |-> Free]
  /\ admitted = [o \in Orders |-> None]
  /\ refused = {}
-----------------------------------------------------------------------------
(* The envelopes.  A context without a session is None. *)

SessionHeaderKey == "session-uuid"

\* Mutant: the header is left out.
ProducerSessionHeadersNone(ctx) == <<>>

ProducerSessionHeaders(ctx) ==
  IF ctx = None THEN <<>> ELSE <<[key |-> SessionHeaderKey, value |-> ctx]>>

\* The producer's Send: the message is on its topic when it returns.
Send(topic, o, ctx) == topic \cup {[order |-> o, headers |-> ProducerSessionHeaders(ctx)]}

\* The first header of the key that is not empty, and none ever is.
ConsumerSession(headers) ==
  LET own == {i \in DOMAIN headers : headers[i].key = SessionHeaderKey}
  IN  IF own = {} THEN None ELSE headers[CHOOSE i \in own : \A j \in own : i <= j].value

SessionForwarder(ctx) == IF ctx = None THEN <<>> ELSE <<ctx>>

\* IAM's answer to Whoami.
Valid(s) == s \in Sessions /\ Visible(s)

\* Mutant: Whoami's error is logged and the call let in.
AuthLenient(metadata) == metadata # <<>>

\* The inventory's interceptor lets the call in.
Auth(metadata) == metadata # <<>> /\ Valid(metadata[1])
-----------------------------------------------------------------------------
Works(h, op, o, ctx) == work' = [work EXCEPT ![h] = [op |-> op, order |-> o, ctx |-> ctx]]

Done(h) == work' = [work EXCEPT ![h] = Free]

\* A request to pay, whose session the order service's AuthMiddleware asks
\* IAM about.
PayRequest(h, o, s) ==
  /\ work[h] = Free
  /\ s \in issued /\ Valid(s)
  /\ Works(h, "Pay", o, s)
  /\ UNCHANGED <<order, payers, paidTopic, shipTopic, admitted, refused>>

\* The order's row is locked, by one of the transactions.
Locked(o) ==
  \E h \in Handlers : work[h].op \in {"Commit", "CommitParts", "Update"} /\ work[h].order = o

\* In its transaction, Pay sends order.paid.
ProduceOrderPaid(h) ==
  LET o == work[h].order IN
  /\ work[h].op = "Pay"
  /\ ~Locked(o) /\ order[o] = "PENDING_PAYMENT"
  /\ payers' = [payers EXCEPT ![o] = @ \cup {work[h].ctx}]
  /\ paidTopic' = Send(paidTopic, o, work[h].ctx)
  /\ Works(h, "Commit", o, work[h].ctx)
  /\ UNCHANGED <<order, shipTopic, admitted, refused>>

\* The transaction of Pay commits.
Commit(h) ==
  /\ work[h].op = "Commit"
  /\ order' = [order EXCEPT ![work[h].order] = "PAID"]
  /\ Done(h)
  /\ UNCHANGED <<payers, paidTopic, shipTopic, admitted, refused>>

\* The assembly service's consumer.
OrderPaidHandler(h, m) ==
  /\ m \in paidTopic
  /\ work[h] = Free
  /\ Works(h, "Assemble", m.order, ConsumerSession(m.headers))
  /\ UNCHANGED <<order, payers, paidTopic, shipTopic, admitted, refused>>

\* The build time is over.
ProduceShipAssembled(h) ==
  /\ work[h].op = "Assemble"
  /\ shipTopic' = Send(shipTopic, work[h].order, work[h].ctx)
  /\ Done(h)
  /\ UNCHANGED <<order, payers, paidTopic, admitted, refused>>

\* The order service's consumer; an ASSEMBLED order is skipped.
ShipAssembledHandler(h, m) ==
  /\ m \in shipTopic
  /\ work[h] = Free
  /\ ~Locked(m.order) /\ order[m.order] # "ASSEMBLED"
  /\ Works(h, "CommitParts", m.order, ConsumerSession(m.headers))
  /\ UNCHANGED <<order, payers, paidTopic, shipTopic, admitted, refused>>

\* CommitParts reaches the inventory, which lets it in.
Admit(h) ==
  LET o == work[h].order IN
  /\ work[h].op = "CommitParts"
  /\ Auth(SessionForwarder(work[h].ctx))
  /\ admitted' = [admitted EXCEPT ![o] =
                    [session |-> work[h].ctx, at |-> clock, dead |-> work[h].ctx \in revoked]]
  /\ Works(h, "Update", o, work[h].ctx)
  /\ UNCHANGED <<order, payers, paidTopic, shipTopic, refused>>

\* Unauthenticated, an internal error to the order service: the handler fails
\* and the message is not marked.
Unauthenticated(h) ==
  /\ work[h].op = "CommitParts"
  /\ ~Auth(SessionForwarder(work[h].ctx))
  /\ refused' = refused \cup {work[h].order}
  /\ Done(h)
  /\ UNCHANGED <<order, payers, paidTopic, shipTopic, admitted>>

\* The parts are committed and the order's transaction with them.
Update(h) ==
  /\ work[h].op = "Update"
  /\ order' = [order EXCEPT ![work[h].order] = "ASSEMBLED"]
  /\ Done(h)
  /\ UNCHANGED <<payers, paidTopic, shipTopic, admitted, refused>>

\* Any of them fails for another reason: a timeout, a store, a status, IAM
\* that does not answer, a shutdown.
Fail(h) ==
  /\ work[h] # Free
  /\ Done(h)
  /\ UNCHANGED <<order, payers, paidTopic, shipTopic, admitted, refused>>

Carry ==
  \E h \in Handlers :
    \/ \E o \in Orders, s \in issued : PayRequest(h, o, s)
    \/ \E m \in paidTopic : OrderPaidHandler(h, m)
    \/ \E m \in shipTopic : ShipAssembledHandler(h, m)
    \/ ProduceOrderPaid(h) \/ Commit(h) \/ ProduceShipAssembled(h)
    \/ Admit(h) \/ Unauthenticated(h) \/ Update(h) \/ Fail(h)

ChainNext ==
  \/ Next /\ UNCHANGED chainVars
  \/ Carry /\ UNCHANGED vars

ChainSpec == ChainInit /\ [][ChainNext]_allVars
-----------------------------------------------------------------------------
\* However long the ship is built and however often the messages come, parts
\* leave the stock under a session that has paid for the order, while IAM has
\* it: before its expiry, and not after the answer to its Logout.
CommittedByPayer ==
  \A o \in Orders :
    /\ order[o] = "ASSEMBLED" => admitted[o] # None
    /\ admitted[o] # None =>
         /\ admitted[o].session \in payers[o]
         /\ admitted[o].at < opened[admitted[o].session].expires
         /\ ~admitted[o].dead

\* "so that the same session-uuid travels the whole HTTP -> Kafka -> gRPC
\* chain" (platform/pkg/middleware/kafka/session.go): no hop loses it.  The
\* inventory finds the CommitParts of an order unauthenticated only when a
\* session that has paid for it has ended.
RefusedOnlyEnded == \A o \in refused : \E s \in payers[o] : ~Visible(s)
=============================================================================
