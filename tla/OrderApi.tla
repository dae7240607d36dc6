------------------------------ MODULE OrderApi -------------------------------
(***************************************************************************)
(* The HTTP side of the order service: what a request meets between the    *)
(* socket and the service layer, and what its sender makes of the answer.  *)
(*                                                                         *)
(*   rate limit -> session -> router -> parameters and body -> API handler *)
(*   -> service -> answer -> (generated client) decoded answer             *)
(*                                                                         *)
(* The sender is the generated client (oas_client_gen.go), with a typed    *)
(* call, or anybody else, with any request.  The service layer is its      *)
(* contract here: an order with the parts, the method and the transaction  *)
(* it was given, and the errors each operation may return; how it does     *)
(* that is in OrderFlow and CreateOrder.  Tracing and metrics are left     *)
(* out; ogen's own middleware is not configured (di.go).                   *)
(*                                                                         *)
(* A path is the sequence of its segments, "/api/v1/orders" being one, and *)
(* percent encoding is undone.                                             *)
(***************************************************************************)
EXTENDS OrderJson, RateLimit

CONSTANTS
  TypeOf,     \* the catalogue: the type of each part,
  PriceOf,    \* and its price
  Calls,      \* the calls made with the generated client
  Requests,   \* the other requests
  Polls,      \* calls that come in bursts
  OrderUuid,  \* the uuid of the order that is created
  TxUuid,     \* of its payment
  UserUuid,   \* of the session's user
  Now,        \* its created_at
  None

VARIABLES
  order,      \* the order's rows, or None
  asked,      \* what its creator and its payer asked for
  slot,       \* the request each instance is working on
  spaced      \* whether requests come one by one or in bursts

apiVars == <<order, asked, slot, spaced>>

vars == <<order, asked, slot, spaced, backlog, redisUp, window>>

Root == "/api/v1/orders"

Nil == ""   \* a nil pointer

Idle == [stage |-> "idle", want |-> None, req |-> None, call |-> None, answer |-> None, by |-> "none",
         reply |-> None, shown |-> None]

Init ==
  /\ LimitInit
  /\ order = None /\ asked = None
  /\ slot = [k \in Instances |-> Idle]
  /\ spaced \in BOOLEAN
  /\ spaced => redisUp
-----------------------------------------------------------------------------
(* The generated client: the request of a call. *)

HttpRequest(method, path, ctype, body, auth) ==
  [method |-> method, path |-> path, ctype |-> ctype, body |-> body, auth |-> auth]

encodeCreateOrderRequest(x) == Encode(CreateOrderRequest, x)

encodePayOrderRequest(x) == Encode(PayOrderRequest, x)

sendCreateOrder(c) == HttpRequest("POST", <<Root>>, "json", encodeCreateOrderRequest(c.x), c.auth)

sendGetOrder(c) == HttpRequest("GET", <<Root, c.uuid>>, "none", NoBody, c.auth)

sendPayOrder(c) == HttpRequest("POST", <<Root, c.uuid, "pay">>, "json", encodePayOrderRequest(c.x), c.auth)

sendCancelOrder(c) == HttpRequest("POST", <<Root, c.uuid, "cancel">>, "none", NoBody, c.auth)

Operations == {"createOrder", "getOrder", "payOrder", "cancelOrder"}

Sent(c) ==
  CASE c.op = "createOrder" -> sendCreateOrder(c)
    [] c.op = "getOrder" -> sendGetOrder(c)
    [] c.op = "payOrder" -> sendPayOrder(c)
    [] c.op = "cancelOrder" -> sendCancelOrder(c)

\* The client has a method for each operation and no other; an order that is
\* to be created has no uuid yet.
ASSUME CallsAssumption ==
  \A c \in Calls \cup Polls : c.op \in Operations /\ (c.op = "createOrder" => c.uuid = Nil)

ASSUME PathsAssumption ==
  /\ \A c \in Calls \cup Polls : Sent(c).path \in Paths
  /\ \A r \in Requests : r.path \in Paths

\* What may come in.
OnTheWire == Requests \cup {Sent(c) : c \in Calls \cup Polls}

\* A path is a sequence of segments, a body one of members, whose values are
\* JSON.
ASSUME WireAssumption ==
  /\ \A r \in Requests : r.path \in Seq(STRING) /\ r.body.members \in Seq(Range(r.body.members))
  /\ \A r \in OnTheWire : \A m \in Range(r.body.members) : IsJson(m.value)

\* The uuids of the database are uuids, its timestamps are times, its prices
\* numbers, and a nil pointer is no uuid.
ASSUME RowsAssumption ==
  /\ {OrderUuid, TxUuid, UserUuid} \cup DOMAIN TypeOf \subseteq Uuids
  /\ Nil \notin Uuids /\ Now \in Times
  /\ \A u \in DOMAIN TypeOf : PriceOf[u] \in Int
-----------------------------------------------------------------------------
(* The router. *)

\* The generated switch over prefixes of the path: the shapes it knows, the
\* method of each and its operation.
Routes ==
  {[path |-> <<Root>>, method |-> "POST", op |-> "createOrder"],
   [path |-> <<Root, "{order_uuid}">>, method |-> "GET", op |-> "getOrder"],
   [path |-> <<Root, "{order_uuid}", "pay">>, method |-> "POST", op |-> "payOrder"],
   [path |-> <<Root, "{order_uuid}", "cancel">>, method |-> "POST", op |-> "cancelOrder"]}

Matches(route, path) ==
  /\ Len(route.path) = Len(path)
  /\ \A i \in DOMAIN path : i = 2 \/ route.path[i] = path[i]

Text(status) == [status |-> status, ctype |-> "text", body |-> OtherBody]

Bare(status) == [status |-> status, ctype |-> "none", body |-> NoBody]

notFound == Text(404)

notAllowed(r) == Bare(IF r.method = "OPTIONS" THEN 204 ELSE 405)
-----------------------------------------------------------------------------
(* Parameters and bodies. *)

decodeGetOrderParams(r) == r.path[2] \in Uuids

decodePayOrderParams(r) == r.path[2] \in Uuids

decodeCancelOrderParams(r) == r.path[2] \in Uuids

Undecoded == [ok |-> FALSE, x |-> None]

decodeCreateOrderRequest(r) ==
  IF r.ctype # "json" \/ r.body.kind = "none" THEN Undecoded ELSE Decode(CreateOrderRequest, r.body)

\* Mutant: the body is not validated.
decodePayOrderRequestOnly(r) ==
  IF r.ctype # "json" \/ r.body.kind = "none" THEN Undecoded ELSE Decode(PayOrderRequest, r.body)

decodePayOrderRequest(r) ==
  IF r.ctype # "json" \/ r.body.kind = "none" THEN Undecoded
  ELSE LET d == Decode(PayOrderRequest, r.body)
       IN  IF d.ok /\ ValidPayOrderRequest(d.x) THEN d ELSE Undecoded
-----------------------------------------------------------------------------
(* The conversions between the API and the service. *)

Ptr(o) == IF HasUUID(o) THEN o.value.s ELSE Nil

OptNilUUIDFromPtr(u) == IF u = Nil THEN Unset ELSE NewOptNilUUID(JStr(u))

PaymentMethodFromApiToModel(m) == IF m \in PaymentMethods THEN m ELSE "UNSPECIFIED"

\* Mutant: one of the methods has no case.
PaymentMethodFromModelToApiPart(m) == IF m \in PaymentMethods \ {"CREDIT_CARD"} THEN m ELSE Nil

PaymentMethodFromModelToApi(m) == IF m \in PaymentMethods THEN m ELSE Nil

OptNilPaymentMethodFromPtr(m) ==
  LET api == PaymentMethodFromModelToApi(m)
  IN  IF api = Nil THEN Unset ELSE NewOptNilPaymentMethod(JStr(api))

\* Mutant: a status has no case.
OrderStatusFromModelToApiPart(s) == IF s \in OrderStatuses \ {"ASSEMBLED"} THEN s ELSE ""

OrderStatusFromModelToApi(s) == IF s \in OrderStatuses THEN s ELSE ""

\* The price after each of the items.
Prices(items) ==
  LET sum[i \in 0 .. Len(items)] == IF i = 0 THEN 0 ELSE sum[i - 1] + items[i].price
  IN  sum

TotalPrice(items) == Prices(items)[Len(items)]

\* The last item of the type, for the loop assigns.
LastOfType(items, type) ==
  LET at == {i \in DOMAIN items : items[i].type = type}
  IN  IF at = {} THEN Nil ELSE items[Max(at)].uuid

getOrderItemByType(items) ==
  [hull |-> LastOfType(items, "HULL"), engine |-> LastOfType(items, "ENGINE"),
   shield |-> LastOfType(items, "SHIELD"), weapon |-> LastOfType(items, "WEAPON")]
-----------------------------------------------------------------------------
(* The generated handlers, up to the call of the API handler and its call  *)
(* of the service.  What they return is the service call, or the error.    *)

Failed(error) == [error |-> error, op |-> "none", uuid |-> Nil, args |-> None]

ServiceCall(op, uuid, args) == [error |-> "none", op |-> op, uuid |-> uuid, args |-> args]

\* CreateOrder: null and missing parts are nil pointers to the service.
PartsAsked(x) ==
  [hull |-> x["hull_uuid"].s, engine |-> x["engine_uuid"].s,
   shield |-> Ptr(x["shield_uuid"]), weapon |-> Ptr(x["weapon_uuid"])]

handleCreateOrderRequest(r) ==
  LET d == decodeCreateOrderRequest(r)
  IN  IF ~d.ok THEN Failed("DecodeRequest") ELSE ServiceCall("createOrder", Nil, PartsAsked(d.x))

handleGetOrderRequest(r) ==
  IF ~decodeGetOrderParams(r) THEN Failed("DecodeParams")
  ELSE ServiceCall("getOrder", r.path[2], None)

handlePayOrderRequest(r) ==
  LET d == decodePayOrderRequest(r)
  IN  IF ~decodePayOrderParams(r) THEN Failed("DecodeParams")
      ELSE IF ~d.ok THEN Failed("DecodeRequest")
      ELSE ServiceCall("payOrder", r.path[2], PaymentMethodFromApiToModel(d.x["payment_method"].s))

handleCancelOrderRequest(r) ==
  IF ~decodeCancelOrderParams(r) THEN Failed("DecodeParams")
  ELSE ServiceCall("cancelOrder", r.path[2], None)

Handle(op, r) ==
  CASE op = "createOrder" -> handleCreateOrderRequest(r)
    [] op = "getOrder" -> handleGetOrderRequest(r)
    [] op = "payOrder" -> handlePayOrderRequest(r)
    [] op = "cancelOrder" -> handleCancelOrderRequest(r)
-----------------------------------------------------------------------------
(* The answers. *)

\* The errors of the service that each code stands for; any other is a 500.
ErrorCodes ==
  [code \in {400, 401, 404, 409} |->
     CASE code = 400 -> {"DecodeParams", "DecodeRequest", "ErrInvalidUUID", "ErrPaymentFailed",
                         "ErrPartTypeMismatch", "ErrInvalidPaymentMethod"}
       [] code = 401 -> {"ErrUnauthorized"}
       [] code = 404 -> {"ErrOrderNotFound", "ErrPartNotFound"}
       [] code = 409 -> {"ErrInvalidOrderStatus", "ErrIncompatibleParts", "ErrOutOfStock"}]

\* Mutant: a refused payment gets a code of its own, 402.
mapErrorPaymentRequired(error) ==
  IF error = "ErrPaymentFailed" THEN 402
  ELSE IF \E c \in DOMAIN ErrorCodes : error \in ErrorCodes[c]
       THEN CHOOSE c \in DOMAIN ErrorCodes : error \in ErrorCodes[c] ELSE 500

mapError(error) ==
  IF \E c \in DOMAIN ErrorCodes : error \in ErrorCodes[c]
  THEN CHOOSE c \in DOMAIN ErrorCodes : error \in ErrorCodes[c] ELSE 500

ErrorStruct(code) == [key \in {"code", "message"} |-> IF key = "code" THEN JNum(code) ELSE JStr("message")]

ErrorHandler(error) ==
  [status |-> mapError(error), ctype |-> "json", body |-> Encode(Error, ErrorStruct(mapError(error)))]

\* The status each type of answer is sent with.
encodeCreateOrderResponse ==
  [CreateOrderResponse |-> 201, CreateOrderBadRequest |-> 400, CreateOrderUnauthorized |-> 401,
   CreateOrderNotFound |-> 404, CreateOrderConflict |-> 409, CreateOrderInternalServerError |-> 500]

encodeGetOrderResponse ==
  [OrderDto |-> 200, GetOrderBadRequest |-> 400, GetOrderNotFound |-> 404, GetOrderInternalServerError |-> 500]

encodePayOrderResponse ==
  [PayOrderResponse |-> 200, PayOrderBadRequest |-> 400, PayOrderNotFound |-> 404,
   PayOrderConflict |-> 409, PayOrderInternalServerError |-> 500]

encodeCancelOrderResponse ==
  [CancelOrderResponse |-> 200, CancelOrderBadRequest |-> 400, CancelOrderNotFound |-> 404,
   CancelOrderConflict |-> 409, CancelOrderInternalServerError |-> 500]

StatusOf(op) ==
  CASE op = "createOrder" -> encodeCreateOrderResponse
    [] op = "getOrder" -> encodeGetOrderResponse
    [] op = "payOrder" -> encodePayOrderResponse
    [] op = "cancelOrder" -> encodeCancelOrderResponse

\* A typed answer of the API handler, or the error it returned.
Typed(type, x) == [error |-> "none", type |-> type, x |-> x]

Erroneous(error) == [error |-> error, type |-> "none", x |-> None]

Response(op, reply) ==
  IF reply.error # "none" THEN ErrorHandler(reply.error)
  ELSE [status |-> StatusOf(op)[reply.type], ctype |-> "json", body |-> Encode(Schema(reply.type), reply.x)]
-----------------------------------------------------------------------------
(* The API handlers' answers to what the service returned. *)

CreateOrderReply(items) ==
  Typed("CreateOrderResponse",
        [key \in Keys(CreateOrderResponse) |->
           IF key = "order_uuid" THEN JStr(OrderUuid) ELSE JNum(TotalPrice(items))])

PayOrderReply == Typed("PayOrderResponse", [key \in Keys(PayOrderResponse) |-> JStr(TxUuid)])

CancelOrderReply == Typed("CancelOrderResponse", [key \in {} |-> None])

GetOrderReply(o) ==
  LET parts == getOrderItemByType(o.items) IN
  Typed("OrderDto",
    [key \in Keys(OrderDto) |->
       CASE key = "order_uuid" -> JStr(OrderUuid)
         [] key = "user_uuid" -> JStr(UserUuid)
         [] key = "hull_uuid" -> JStr(parts.hull)
         [] key = "engine_uuid" -> JStr(parts.engine)
         [] key = "shield_uuid" -> OptNilUUIDFromPtr(parts.shield)
         [] key = "weapon_uuid" -> OptNilUUIDFromPtr(parts.weapon)
         [] key = "total_price" -> JNum(TotalPrice(o.items))
         [] key = "transaction_uuid" -> OptNilUUIDFromPtr(o.tx)
         [] key = "payment_method" -> OptNilPaymentMethodFromPtr(o.method)
         [] key = "status" -> JStr(OrderStatusFromModelToApi(o.status))
         [] key = "created_at" -> JStr(Now)])

\* GetOrder answers the service's errors itself.
GetOrderError(error) ==
  IF error = "ErrOrderNotFound" THEN Typed("GetOrderNotFound", ErrorStruct(404))
  ELSE Typed("GetOrderInternalServerError", ErrorStruct(500))
-----------------------------------------------------------------------------
(* The generated client: what it makes of an answer. *)

\* The type that each status stands for, the cases of the generated switch.
decodeCreateOrderResponse ==
  [status \in {201, 400, 401, 404, 409, 500} |->
     CASE status = 201 -> "CreateOrderResponse"
       [] status = 400 -> "CreateOrderBadRequest"
       [] status = 401 -> "CreateOrderUnauthorized"
       [] status = 404 -> "CreateOrderNotFound"
       [] status = 409 -> "CreateOrderConflict"
       [] status = 500 -> "CreateOrderInternalServerError"]

decodeGetOrderResponse ==
  [status \in {200, 400, 404, 500} |->
     CASE status = 200 -> "OrderDto"
       [] status = 400 -> "GetOrderBadRequest"
       [] status = 404 -> "GetOrderNotFound"
       [] status = 500 -> "GetOrderInternalServerError"]

decodePayOrderResponse ==
  [status \in {200, 400, 404, 409, 500} |->
     CASE status = 200 -> "PayOrderResponse"
       [] status = 400 -> "PayOrderBadRequest"
       [] status = 404 -> "PayOrderNotFound"
       [] status = 409 -> "PayOrderConflict"
       [] status = 500 -> "PayOrderInternalServerError"]

decodeCancelOrderResponse ==
  [status \in {200, 400, 404, 409, 500} |->
     CASE status = 200 -> "CancelOrderResponse"
       [] status = 400 -> "CancelOrderBadRequest"
       [] status = 404 -> "CancelOrderNotFound"
       [] status = 409 -> "CancelOrderConflict"
       [] status = 500 -> "CancelOrderInternalServerError"]

TypeAt(op) ==
  CASE op = "createOrder" -> decodeCreateOrderResponse
    [] op = "getOrder" -> decodeGetOrderResponse
    [] op = "payOrder" -> decodePayOrderResponse
    [] op = "cancelOrder" -> decodeCancelOrderResponse

NoResult == [ok |-> FALSE, type |-> "none", x |-> None]

\* An unknown status, another content type and a body that does not decode or
\* validate are errors.
Result(op, a) ==
  IF a.status \notin DOMAIN TypeAt(op) \/ a.ctype # "json" THEN NoResult
  ELSE LET type == TypeAt(op)[a.status]
           d == Decode(Schema(type), a.body)
       IN  IF d.ok /\ (type = "OrderDto" => ValidOrderDto(d.x))
           THEN [ok |-> TRUE, type |-> type, x |-> d.x] ELSE NoResult
-----------------------------------------------------------------------------
(* The way of a request. *)

Goes(k, stage) == slot' = [slot EXCEPT ![k].stage = stage]

Answers(k, by, answer) == slot' = [slot EXCEPT ![k].stage = "answered", ![k].by = by, ![k].answer = answer]

AnyInstance == CHOOSE k \in Instances : TRUE

\* Bound: requests of all kinds come one by one, to one instance and below
\* the limit's rate; the bursts over all instances are of polls.
Arrive(k) ==
  /\ slot[k] = Idle
  /\ spaced => k = AnyInstance /\ \A key \in LimitKeys : backlog[key] = 0
  /\ \/ \E c \in (IF spaced THEN Calls ELSE Polls) :
          slot' = [slot EXCEPT ![k] = [Idle EXCEPT !.stage = "limit", !.want = c, !.req = Sent(c)]]
     \/ spaced /\ \E r \in Requests : slot' = [slot EXCEPT ![k] = [Idle EXCEPT !.stage = "limit", !.req = r]]
  /\ UNCHANGED <<order, asked, spaced, backlog, redisUp, window>>

\* The rate limiter.
Pass(k) ==
  /\ slot[k].stage = "limit"
  /\ Grant(k, slot[k].req.path) \/ LetThrough(k, slot[k].req.path)
  /\ Goes(k, "auth")
  /\ UNCHANGED <<order, asked, spaced>>

TooManyRequests(k) ==
  /\ slot[k].stage = "limit"
  /\ Refuse(k, slot[k].req.path)
  /\ Answers(k, "limiter", Text(429))
  /\ UNCHANGED <<order, asked, spaced>>

\* AuthMiddleware: the header is missing, malformed or empty, the token no
\* uuid, or Whoami fails.
Unauthorized(k) ==
  /\ slot[k].stage = "auth"
  /\ Answers(k, "auth", Text(401))
  /\ UNCHANGED <<order, asked, spaced, backlog, redisUp, window>>

Authorized(k) ==
  /\ slot[k].stage = "auth" /\ slot[k].req.auth = "session"
  /\ Goes(k, "route")
  /\ UNCHANGED <<order, asked, spaced, backlog, redisUp, window>>

\* ServeHTTP finds no route, or no operation of the method.
Unrouted(k) ==
  LET r == slot[k].req
      routes == {route \in Routes : Matches(route, r.path)}
  IN  /\ slot[k].stage = "route"
      /\ \A route \in routes : route.method # r.method
      /\ Answers(k, "router", IF routes = {} THEN notFound ELSE notAllowed(r))
      /\ UNCHANGED <<order, asked, spaced, backlog, redisUp, window>>

\* ServeHTTP finds the operation, whose handler decodes the request.
Routed(k) ==
  LET r == slot[k].req IN
  /\ slot[k].stage = "route"
  /\ \E route \in Routes :
       /\ Matches(route, r.path) /\ route.method = r.method
       /\ LET call == Handle(route.op, r) IN
          IF call.error # "none" THEN Answers(k, "decoder", ErrorHandler(call.error))
          ELSE slot' = [slot EXCEPT ![k].stage = "service", ![k].call = call]
  /\ UNCHANGED <<order, asked, spaced, backlog, redisUp, window>>

Replies(k, reply) ==
  slot' = [slot EXCEPT ![k].stage = "answered", ![k].by = "api", ![k].reply = reply,
                       ![k].answer = Response(slot[k].call.op, reply)]

Serving(k, op) ==
  /\ slot[k].stage = "service" /\ slot[k].call.op = op
  /\ UNCHANGED <<spaced, backlog, redisUp, window>>

Found(k) == order # None /\ slot[k].call.uuid = OrderUuid

\* The value the last member of the key has.
LastValue(body, key) ==
  LET at == {i \in DOMAIN body.members : body.members[i].key = key}
  IN  IF at = {} THEN JNull ELSE body.members[Max(at)].value

Item(uuid) == [uuid |-> uuid, type |-> TypeOf[uuid], price |-> PriceOf[uuid]]

\* An optional part is appended when its pointer is not nil.
WhenGiven(uuid) == IF uuid = Nil THEN <<>> ELSE <<Item(uuid)>>

Listed(parts) == <<Item(parts.hull), Item(parts.engine)>> \o WhenGiven(parts.shield) \o WhenGiven(parts.weapon)

\* The inventory finds the parts, each of the type of its slot.
Buildable(parts) ==
  /\ \A s \in {"hull", "engine"} : parts[s] \in DOMAIN TypeOf
  /\ \A s \in {"shield", "weapon"} : parts[s] \in DOMAIN TypeOf \cup {Nil}
  /\ TypeOf[parts.hull] = "HULL" /\ TypeOf[parts.engine] = "ENGINE"
  /\ parts.shield # Nil => TypeOf[parts.shield] = "SHIELD"
  /\ parts.weapon # Nil => TypeOf[parts.weapon] = "WEAPON"

CreateErrors == {"ErrInvalidUUID", "ErrPartNotFound", "ErrOutOfStock", "ErrPartTypeMismatch",
                 "ErrIncompatibleParts", "ErrInternalError", "other"}

\* Bound: one order is created.
Create(k) ==
  LET parts == slot[k].call.args IN
  /\ Serving(k, "createOrder")
  /\ order = None /\ Buildable(parts)
  /\ order' = [items |-> Listed(parts), status |-> "PENDING_PAYMENT", method |-> Nil, tx |-> Nil]
  /\ asked' = [key \in Keys(CreateOrderRequest) \cup Keys(PayOrderRequest) |->
                 IF key \in Keys(CreateOrderRequest) THEN LastValue(slot[k].req.body, key) ELSE JNull]
  /\ Replies(k, CreateOrderReply(Listed(parts)))

CreateFails(k, error) ==
  /\ Serving(k, "createOrder")
  /\ Replies(k, Erroneous(error))
  /\ UNCHANGED <<order, asked>>

Get(k) ==
  /\ Serving(k, "getOrder")
  /\ IF Found(k)
       THEN slot' = [slot EXCEPT ![k].stage = "answered", ![k].by = "api", ![k].reply = GetOrderReply(order),
                                 ![k].answer = Response("getOrder", GetOrderReply(order)),
                                 ![k].shown = [asked |-> asked, status |-> order.status]]
       ELSE Replies(k, GetOrderError("ErrOrderNotFound"))
  /\ UNCHANGED <<order, asked>>

GetFails(k) ==
  /\ Serving(k, "getOrder")
  /\ Replies(k, GetOrderError("other"))
  /\ UNCHANGED <<order, asked>>

\* The checks that Pay and Cancel begin with, in their order.
Refusal(k) ==
  IF slot[k].call.args = "UNSPECIFIED" THEN "ErrInvalidPaymentMethod"
  ELSE IF ~Found(k) THEN "ErrOrderNotFound"
  ELSE IF order.status # "PENDING_PAYMENT" THEN "ErrInvalidOrderStatus"
  ELSE "none"

OrderRefused(k) ==
  /\ Serving(k, "payOrder") \/ Serving(k, "cancelOrder")
  /\ Refusal(k) # "none"
  /\ Replies(k, Erroneous(Refusal(k)))
  /\ UNCHANGED <<order, asked>>

PayErrors == {"ErrPaymentFailed", "ErrInvalidUUID", "ErrInternalError", "other"}

Pay(k) ==
  /\ Serving(k, "payOrder") /\ Refusal(k) = "none"
  /\ order' = [order EXCEPT !.status = "PAID", !.method = slot[k].call.args, !.tx = TxUuid]
  /\ asked' = [asked EXCEPT !["payment_method"] = LastValue(slot[k].req.body, "payment_method")]
  /\ Replies(k, PayOrderReply)

\* What the inventory's codes become in the client.
CancelErrors == {"ErrPartNotFound", "ErrPartTypeMismatch", "ErrIncompatibleParts", "ErrOutOfStock",
                 "ErrInternalError", "other"}

Cancel(k) ==
  /\ Serving(k, "cancelOrder") /\ Refusal(k) = "none"
  /\ order' = [order EXCEPT !.status = "CANCELLED"]
  /\ Replies(k, CancelOrderReply)
  /\ UNCHANGED asked

\* The transaction fails, before the checks only in the database.
OrderFails(k, error) ==
  /\ \/ Serving(k, "payOrder") /\ error \in PayErrors
     \/ Serving(k, "cancelOrder") /\ error \in CancelErrors
  /\ error # "other" => Refusal(k) = "none"
  /\ Replies(k, Erroneous(error))
  /\ UNCHANGED <<order, asked>>

\* The sender has the answer.
Finish(k) ==
  /\ slot[k].stage = "answered"
  /\ slot' = [slot EXCEPT ![k] = Idle]
  /\ UNCHANGED <<order, asked, spaced, backlog, redisUp, window>>

\* The consumer of ship-assembled.
Assemble ==
  /\ order # None /\ order.status = "PAID"
  /\ order' = [order EXCEPT !.status = "ASSEMBLED"]
  /\ UNCHANGED <<asked, slot, spaced, backlog, redisUp, window>>

\* Time, Redis and the observer.
Clock ==
  /\ spaced => \A k \in Instances : slot[k] = Idle
  /\ Tick /\ UNCHANGED apiVars

Around == ~spaced /\ (OpenWindow \/ RedisFails \/ RedisRecovers \/ RedisRestarts) /\ UNCHANGED apiVars

Step(k) ==
  \/ Pass(k) \/ TooManyRequests(k)
  \/ Unauthorized(k) \/ Authorized(k)
  \/ Unrouted(k) \/ Routed(k)
  \/ Create(k) \/ \E error \in CreateErrors : CreateFails(k, error)
  \/ Get(k) \/ GetFails(k)
  \/ OrderRefused(k) \/ Pay(k) \/ Cancel(k)
  \/ \E error \in PayErrors \cup CancelErrors : OrderFails(k, error)
  \/ Finish(k)

Next ==
  \/ \E k \in Instances : Arrive(k) \/ Step(k)
  \/ Assemble \/ Clock \/ Around

Spec == Init /\ [][Next]_vars

\* The goroutine of a request runs on; each call it makes has a timeout.
FairSpec == Spec /\ \A k \in Instances : WF_vars(Step(k))
-----------------------------------------------------------------------------
TypeOK ==
  /\ order # None =>
       /\ order.status \in OrderStatuses
       /\ order.method \in PaymentMethods \cup {Nil}
       /\ order.tx \in {Nil, TxUuid}
       /\ \A i \in DOMAIN order.items : order.items[i].uuid \in DOMAIN TypeOf
  /\ \A k \in Instances :
       /\ slot[k].stage \in {"idle", "limit", "auth", "route", "service", "answered"}
       /\ slot[k].by \in {"none", "limiter", "auth", "router", "decoder", "api"}
       /\ slot[k].stage = "answered" =>
            slot[k].answer.status \in {200, 201, 204, 400, 401, 404, 405, 409, 429, 500}
  /\ \A key \in LimitKeys : backlog[key] \in 0 .. Emission * Burst
  /\ redisUp \in BOOLEAN /\ spaced \in BOOLEAN
  /\ window.ticks \in 0 .. MaxWindow /\ window.losses \in 0 .. MaxLosses

Readable(body, key, null) ==
  \A i \in DOMAIN body.members :
    LET m == body.members[i] IN
    m.key = key => (m.value.t = "str" /\ m.value.s \in Uuids) \/ (null /\ m.value = JNull)

Mentions(body, key) == \E i \in DOMAIN body.members : body.members[i].key = key

\* The request is one the OpenAPI document describes.
Documented(r) ==
  LET object == r.ctype = "json" /\ r.body.kind = "object" /\ ~r.body.trailing IN
  CASE r.method = "POST" /\ r.path = <<Root>> ->
         /\ object
         /\ Mentions(r.body, "hull_uuid") /\ Mentions(r.body, "engine_uuid")
         /\ Readable(r.body, "hull_uuid", FALSE) /\ Readable(r.body, "engine_uuid", FALSE)
         /\ Readable(r.body, "shield_uuid", TRUE) /\ Readable(r.body, "weapon_uuid", TRUE)
    [] r.method = "POST" /\ Len(r.path) = 3 /\ r.path[3] = "pay" ->
         /\ r.path[2] \in Uuids /\ object
         /\ Mentions(r.body, "payment_method")
         /\ \A i \in DOMAIN r.body.members :
              r.body.members[i].key = "payment_method" => r.body.members[i].value.t = "str"
         /\ LastValue(r.body, "payment_method").s \in PaymentMethods
    [] OTHER -> r.path[2] \in Uuids

\* The service is called for just the requests the OpenAPI document describes
\* (order.openapi.yaml), with what they say: of a key that repeats the last
\* value, null and absent alike.  A call of the generated client arrives as
\* the operation, the order and the arguments it was made with.
CalledAsAsked ==
  \A k \in Instances :
    LET sl == slot[k]
        body == sl.req.body
        call == sl.call
        Wanted(key) == LET v == sl.want.x[key] IN IF v.set /\ ~v.null THEN v.value.s ELSE Nil
    IN  /\ sl.by = "decoder" => ~Documented(sl.req)
        /\ sl.stage = "service" =>
             /\ Documented(sl.req)
             /\ call.op = "createOrder" =>
                  /\ call.args.hull = LastValue(body, "hull_uuid").s
                  /\ call.args.engine = LastValue(body, "engine_uuid").s
                  /\ call.args.shield = LastValue(body, "shield_uuid").s
                  /\ call.args.weapon = LastValue(body, "weapon_uuid").s
             /\ call.op = "payOrder" => call.args = LastValue(body, "payment_method").s
             /\ call.op # "createOrder" => call.uuid = sl.req.path[2]
        /\ sl.stage = "service" /\ sl.want # None =>
             /\ call.op = sl.want.op /\ call.uuid = sl.want.uuid
             /\ call.op = "createOrder" =>
                  call.args.shield = Wanted("shield_uuid") /\ call.args.weapon = Wanted("weapon_uuid")

\* The generated client understands every answer of the API: it decodes into
\* the type and the values the handler returned, or for an error into the
\* error type of its code.  What the middlewares answer themselves, 401 and
\* 429 in plain text, is an error to it and never taken for an answer.
ClientUnderstands ==
  \A k \in Instances :
    LET sl == slot[k]
        r == Result(sl.want.op, sl.answer)
    IN  sl.stage = "answered" /\ sl.want # None =>
          /\ sl.by \in {"limiter", "auth", "decoder", "api"}
          /\ sl.by \in {"limiter", "auth"} <=> ~r.ok
          /\ sl.by = "api" /\ sl.reply.error = "none" => r.type = sl.reply.type /\ r.x = sl.reply.x
          /\ r.ok /\ r.type \in ErrorTypes => r.x["code"] = JNum(sl.answer.status)
          /\ sl.by = "decoder" \/ (sl.by = "api" /\ sl.reply.error # "none") => r.type \in ErrorTypes

\* What GET shows of an order is what its creator and its payer asked for, on
\* the way through two conversions, the rows and the JSON: the same parts in
\* the same slots, their price, the method of the payment once there is one.
GetTellsTruth ==
  \A k \in Instances :
    LET sl == slot[k]
        r == Result("getOrder", sl.answer)
        Shows(o, j) == IF j = JNull THEN ~(o.set /\ ~o.null) ELSE o.set /\ ~o.null /\ o.value = j
        said == sl.shown.asked
        Price(key) == IF said[key] = JNull THEN 0 ELSE PriceOf[said[key].s]
    IN  sl.stage = "answered" /\ sl.shown # None =>
          /\ r.ok
          /\ \A key \in {"hull_uuid", "engine_uuid"} : r.x[key] = said[key]
          /\ \A key \in {"shield_uuid", "weapon_uuid", "payment_method"} : Shows(r.x[key], said[key])
          /\ r.x["total_price"].n =
               Price("hull_uuid") + Price("engine_uuid") + Price("shield_uuid") + Price("weapon_uuid")
          /\ r.x["status"] = JStr(sl.shown.status)
          /\ r.x["transaction_uuid"].set <=> sl.shown.status \in {"PAID", "ASSEMBLED"}

\* "when Redis is unavailable requests are let through instead of being
\* blocked" (README, Resilience): each request is answered, whatever Redis,
\* IAM and the service do, at the latest when the calls it makes time out.
EveryRequestAnswered == \A k \in Instances : slot[k].stage # "idle" ~> slot[k].stage = "idle"
=============================================================================
