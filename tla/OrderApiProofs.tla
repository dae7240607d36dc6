---------------------------- MODULE OrderApiProofs ----------------------------
(***************************************************************************)
(* The order service's HTTP side, for any limit, paths, number of          *)
(* instances, calls, requests and catalogue.  RateHolds of the limiter by  *)
(* itself, and, as the service implements the limiter's specification, of  *)
(* the service behind it; the types; and what a request says and an answer *)
(* shows on the way through encoders, decoders, conversions and rows:      *)
(* CalledAsAsked, ClientUnderstands and GetTellsTruth.                     *)
(***************************************************************************)
EXTENDS OrderApi, OrderJsonProofs, TLAPS
-----------------------------------------------------------------------------
(* The limiter by itself. *)

\* What has passed in the window is still in the account, but for what the
\* time of the window has paid off and what Redis has lost of it.
Account ==
  \A path \in Paths :
    /\ path \in LimitKeys => Emission * window.passed[path] <= backlog[path] + window.ticks + (Emission * Burst) * window.losses
    /\ path \notin LimitKeys => window.passed[path] = 0

LimitTypeOK ==
  /\ backlog \in [LimitKeys -> 0 .. Emission * Burst]
  /\ redisUp \in BOOLEAN
  /\ window \in [open : BOOLEAN, ticks : 0 .. MaxWindow, losses : 0 .. MaxLosses, passed : [Paths -> Nat]]

\* A window that is not open has seen nothing.
ClosedIsEmpty == window.open \/ window = Closed

LimitInv == LimitTypeOK /\ Account /\ ClosedIsEmpty

\* One more request costs one Emission, one more loss a burst.
LEMMA OneMore ==
  \A n \in Nat : /\ Emission * (n + 1) = Emission * n + Emission
                 /\ (Emission * Burst) * (n + 1) = (Emission * Burst) * n + Emission * Burst
                 /\ (Emission * Burst) * n \in Nat /\ (Emission * Burst) * 0 = 0
  <1>1. Emission * Burst \in Nat /\ Emission \in Nat
    BY RateAssumption
  <1>2. \A m, n \in Nat : m * (n + 1) = m * n + m /\ m * n \in Nat /\ m * 0 = 0
    OBVIOUS
  <1>. QED
    BY <1>1, <1>2

\* The account of a key stays within the burst, whatever passes, and whether
\* Redis fails or not.
LEMMA LimitInitInv == LimitInit => LimitInv
  <1>1. Emission * Burst \in Nat /\ Emission \in Nat
    BY RateAssumption
  <1>. QED
    BY <1>1, OneMore, RateAssumption DEF LimitInit, LimitInv, LimitTypeOK, Account, ClosedIsEmpty, Closed

\* Every step of the limiter, of Redis and of the observer keeps the accounts.
LEMMA LimitStep == LimitInv /\ [LimitNext]_limitVars => LimitInv'
  <1>. SUFFICES ASSUME LimitInv, [LimitNext]_limitVars PROVE LimitInv'
    OBVIOUS
  <1>0. Emission * Burst \in Nat /\ Emission \in Nat /\ Burst \in Nat /\ MaxWindow \in Nat /\ MaxLosses \in Nat
    BY RateAssumption
  <1>a. /\ window.losses \in Nat /\ window.ticks \in Nat
        /\ (Emission * Burst) * window.losses \in Nat
    BY <1>0, OneMore DEF LimitInv, LimitTypeOK
  <1>b. \A p \in Paths : /\ window.passed[p] \in Nat /\ Emission * window.passed[p] \in Nat
                         /\ p \in LimitKeys => backlog[p] \in Nat /\ backlog[p] <= Emission * Burst
    BY <1>0 DEF LimitInv, LimitTypeOK
  <1>c. ClosedIsEmpty'
    <2>1. window.open => DOMAIN window = {"open", "ticks", "losses", "passed"}
      BY DEF LimitInv, LimitTypeOK
    <2>. QED
      BY <2>1 DEF LimitInv, ClosedIsEmpty, LimitNext, limitVars, Grant, Refuse, LetThrough, Tick, OpenWindow,
         RedisFails, RedisRecovers, RedisRestarts, Closed
  <1>1. ASSUME NEW i \in Instances, NEW path \in Paths, Grant(i, path) PROVE LimitInv'
    <2>1. path \in LimitKeys /\ LimitKey(i, path) = path
      BY DEF LimitKeys, LimitKey
    <2>2. LimitTypeOK'
      BY <1>0, <1>1, <2>1 DEF Grant, Allowed, LimitInv, LimitTypeOK
    <2>3. Account'
      <3>. SUFFICES ASSUME NEW p \in Paths
                    PROVE /\ p \in LimitKeys => Emission * window'.passed[p] <= backlog'[p] + window'.ticks + (Emission * Burst) * window'.losses
                          /\ p \notin LimitKeys => window'.passed[p] = 0
        BY DEF Account
      <3>1. window'.ticks = window.ticks /\ window'.losses = window.losses
        BY <1>1 DEF Grant, LimitInv, LimitTypeOK
      <3>3. CASE p # path
        BY <1>1, <2>1, <3>1, <3>3 DEF Grant, LimitInv, LimitTypeOK, Account
      <3>4. CASE p = path
        <4>1. window'.passed[p] \in {window.passed[p], window.passed[p] + 1}
          BY <1>1, <3>4 DEF Grant, LimitInv, LimitTypeOK
        <4>2. backlog'[p] = backlog[p] + Emission
          BY <1>1, <2>1, <3>4 DEF Grant, LimitInv, LimitTypeOK
        <4>3. Emission * window.passed[p] <= backlog[p] + window.ticks + (Emission * Burst) * window.losses
          BY <2>1, <3>4 DEF LimitInv, Account
        <4>4. Emission * window'.passed[p] <= Emission * window.passed[p] + Emission
          BY <1>0, <1>b, <4>1, OneMore
        <4>5. Emission * window'.passed[p] \in Nat
          BY <1>0, <1>b, <4>1
        <4>. QED
          BY <1>0, <1>a, <1>b, <2>1, <3>1, <3>4, <4>2, <4>3, <4>4, <4>5
      <3>. QED
        BY <3>3, <3>4
    <2>. QED
      BY <1>c, <2>2, <2>3 DEF LimitInv
  <1>2. ASSUME UNCHANGED limitVars PROVE LimitInv'
    BY <1>c, <1>2 DEF limitVars, LimitInv, LimitTypeOK, Account
  <1>3. CASE Tick
    <2>1. LimitTypeOK'
      BY <1>0, <1>3 DEF Tick, Closed, LimitInv, LimitTypeOK
    <2>2. Account'
      <3>. SUFFICES ASSUME NEW p \in Paths
                    PROVE /\ p \in LimitKeys => Emission * window'.passed[p] <= backlog'[p] + window'.ticks + (Emission * Burst) * window'.losses
                          /\ p \notin LimitKeys => window'.passed[p] = 0
        BY DEF Account
      <3>3. p \in LimitKeys => backlog'[p] \in Nat /\ backlog'[p] + 1 >= backlog[p]
        BY <1>3, <1>b DEF Tick
      <3>4. CASE window.open /\ window.ticks < MaxWindow
        <4>1. window'.passed = window.passed /\ window'.ticks = window.ticks + 1 /\ window'.losses = window.losses
          BY <1>3, <3>4 DEF Tick, LimitInv, LimitTypeOK
        <4>2. /\ p \in LimitKeys => Emission * window.passed[p] <= backlog[p] + window.ticks + (Emission * Burst) * window.losses
              /\ p \notin LimitKeys => window.passed[p] = 0
          BY DEF LimitInv, Account
        <4>. QED
          BY <1>a, <1>b, <3>3, <4>1, <4>2
      <3>5. CASE ~(window.open /\ window.ticks < MaxWindow)
        <4>1. window'.passed[p] = 0 /\ window'.ticks = 0 /\ window'.losses = 0
          BY <1>3, <3>5 DEF Tick, Closed
        <4>. QED
          BY <1>0, <3>3, <4>1, OneMore
      <3>. QED
        BY <3>4, <3>5
    <2>. QED
      BY <1>c, <2>1, <2>2 DEF LimitInv
  <1>4. CASE OpenWindow
    <2>1. /\ window' = [open |-> TRUE, ticks |-> 0, losses |-> 0, passed |-> [p \in Paths |-> 0]]
          /\ backlog' = backlog /\ redisUp' = redisUp
      BY <1>4 DEF OpenWindow, Closed
    <2>2. LimitTypeOK'
      <3>1. [p \in Paths |-> 0] \in [Paths -> Nat]
        OBVIOUS
      <3>2. window' \in [open : BOOLEAN, ticks : 0 .. MaxWindow, losses : 0 .. MaxLosses, passed : [Paths -> Nat]]
        BY <1>0, <2>1, <3>1
      <3>. QED
        BY <2>1, <3>2 DEF LimitInv, LimitTypeOK
    <2>3. Account'
      BY <1>0, <1>b, <2>1, OneMore DEF Account
    <2>. QED
      BY <1>c, <2>2, <2>3 DEF LimitInv
  <1>5. CASE RedisFails
    BY <1>c, <1>5 DEF RedisFails, LimitInv, LimitTypeOK, Account
  <1>6. CASE RedisRecovers
    BY <1>c, <1>6 DEF RedisRecovers, LimitInv, LimitTypeOK, Account
  <1>7. CASE RedisRestarts
    <2>1. LimitTypeOK'
      BY <1>0, <1>a, <1>7 DEF RedisRestarts, LimitInv, LimitTypeOK
    <2>2. Account'
      <3>. SUFFICES ASSUME NEW p \in Paths
                    PROVE /\ p \in LimitKeys => Emission * window'.passed[p] <= backlog'[p] + window'.ticks + (Emission * Burst) * window'.losses
                          /\ p \notin LimitKeys => window'.passed[p] = 0
        BY DEF Account
      <3>1. p \in LimitKeys => backlog'[p] = 0
        BY <1>7 DEF RedisRestarts
      <3>2. CASE window.open
        <4>1. window'.passed = window.passed /\ window'.ticks = window.ticks /\ window'.losses = window.losses + 1
          BY <1>7, <3>2 DEF RedisRestarts, LimitInv, LimitTypeOK
        <4>2. (Emission * Burst) * window'.losses = (Emission * Burst) * window.losses + Emission * Burst
          BY <1>a, <4>1, OneMore
        <4>3. /\ p \in LimitKeys => Emission * window.passed[p] <= backlog[p] + window.ticks + (Emission * Burst) * window.losses
              /\ p \notin LimitKeys => window.passed[p] = 0
          BY DEF LimitInv, Account
        <4>. QED
          BY <1>0, <1>a, <1>b, <3>1, <4>1, <4>2, <4>3
      <3>3. CASE ~window.open
        <4>1. window' = window
          BY <1>7, <3>3 DEF RedisRestarts
        <4>2. window = Closed
          BY <3>3 DEF LimitInv, ClosedIsEmpty
        <4>3. window'.passed[p] = 0 /\ window'.ticks = 0 /\ window'.losses = 0
          BY <4>1, <4>2 DEF Closed
        <4>4. Emission * 0 = 0 /\ (Emission * Burst) * 0 = 0
          BY <1>0
        <4>. QED
          BY <3>1, <4>3, <4>4
      <3>. QED
        BY <3>2, <3>3
    <2>. QED
      BY <1>c, <2>1, <2>2 DEF LimitInv
  <1>. QED
    BY <1>1, <1>2, <1>3, <1>4, <1>5, <1>6, <1>7 DEF LimitNext, Refuse, LetThrough

\* The accounts keep the rate.
LEMMA LimitInvHolds == LimitInv => RateHolds
  <1>. SUFFICES ASSUME LimitInv, NEW path \in Paths
                PROVE Emission * window.passed[path] <= (Emission * Burst) * (window.losses + 1) + window.ticks
    BY DEF RateHolds
  <1>1. /\ Emission * Burst \in Nat /\ Emission * 0 = 0 /\ window.ticks \in Nat /\ window.losses \in Nat
        /\ Emission * window.passed[path] \in Int
    BY RateAssumption DEF LimitInv, LimitTypeOK
  <1>2. /\ (Emission * Burst) * (window.losses + 1) = (Emission * Burst) * window.losses + Emission * Burst
        /\ (Emission * Burst) * window.losses \in Nat
    BY <1>1, OneMore
  <1>3. CASE path \in LimitKeys
    <2>1. backlog[path] \in Nat /\ backlog[path] <= Emission * Burst
      BY <1>1, <1>3 DEF LimitInv, LimitTypeOK
    <2>2. Emission * window.passed[path] <= backlog[path] + window.ticks + (Emission * Burst) * window.losses
      BY <1>3 DEF LimitInv, Account
    <2>. QED
      BY <1>1, <1>2, <2>1, <2>2
  <1>4. CASE path \notin LimitKeys
    BY <1>1, <1>2, <1>4 DEF LimitInv, Account
  <1>. QED
    BY <1>3, <1>4

\* The limit is one for all instances (middleware.go: the key is the path, and
\* the account is in Redis): for every rate, burst and number of instances, no
\* window sees more requests of a path pass than RateHolds says.
THEOREM RateIsGlobal == LimitSpec => []RateHolds
  <1>1. LimitInv /\ [LimitNext]_limitVars => LimitInv'
    BY LimitStep
  <1>. QED
    BY <1>1, LimitInitInv, LimitInvHolds, PTL DEF LimitSpec
-----------------------------------------------------------------------------
(* The service with the limiter in front. *)

SlotFields == {"stage", "want", "req", "call", "answer", "by", "reply", "shown"}

\* A request that waits for the limiter is one of those the service is sent.
SlotsOK ==
  /\ slot = [k \in Instances |-> slot[k]]
  /\ \A k \in Instances :
       /\ DOMAIN slot[k] = SlotFields
       /\ slot[k].stage = "limit" => slot[k].req.path \in Paths

\* The steps behind the limiter, each of one instance.
BehindLimiter(k) ==
  \/ Unauthorized(k) \/ Authorized(k) \/ Unrouted(k) \/ Routed(k)
  \/ Create(k) \/ \E error \in CreateErrors : CreateFails(k, error)
  \/ Get(k) \/ GetFails(k) \/ OrderRefused(k) \/ Pay(k) \/ Cancel(k)
  \/ \E error \in PayErrors \cup CancelErrors : OrderFails(k, error)
  \/ Finish(k)

\* A request only moves on, or its instance is idle again.
MovesOn(k) ==
  \/ slot' = [slot EXCEPT ![k] = Idle]
  \/ \E stage \in {"auth", "route"} : Goes(k, stage)
  \/ \E by, answer : Answers(k, by, answer)
  \/ \E call : slot' = [slot EXCEPT ![k].stage = "service", ![k].call = call]
  \/ \E reply : Replies(k, reply)
  \/ \E reply, answer, shown :
       slot' = [slot EXCEPT ![k].stage = "answered", ![k].by = "api", ![k].reply = reply,
                            ![k].answer = answer, ![k].shown = shown]

\* What moves on does not wait for the limiter.
LEMMA MovesOnOK ==
  ASSUME SlotsOK, NEW k \in Instances, MovesOn(k)
  PROVE  SlotsOK'
<1> USE DEF SlotFields
<1>1. CASE slot' = [slot EXCEPT ![k] = Idle]
  BY <1>1 DEF SlotsOK, Idle
<1>2. ASSUME NEW stage \in {"auth", "route"}, Goes(k, stage) PROVE SlotsOK'
  BY <1>2 DEF SlotsOK, Goes
<1>3. ASSUME NEW by, NEW answer, Answers(k, by, answer) PROVE SlotsOK'
  BY <1>3 DEF SlotsOK, Answers
<1>4. ASSUME NEW call, slot' = [slot EXCEPT ![k].stage = "service", ![k].call = call] PROVE SlotsOK'
  BY <1>4 DEF SlotsOK
<1>5. ASSUME NEW reply, Replies(k, reply) PROVE SlotsOK'
  BY <1>5 DEF SlotsOK, Replies
<1>6. ASSUME NEW reply, NEW answer, NEW shown,
             slot' = [slot EXCEPT ![k].stage = "answered", ![k].by = "api", ![k].reply = reply,
                                  ![k].answer = answer, ![k].shown = shown]
      PROVE SlotsOK'
  BY <1>6 DEF SlotsOK
<1> QED BY <1>1, <1>2, <1>3, <1>4, <1>5, <1>6 DEF MovesOn

\* Behind the limiter the accounts in Redis are not touched.
LEMMA BehindLimiterMoves ==
  ASSUME NEW k \in Instances, BehindLimiter(k)
  PROVE  MovesOn(k) /\ UNCHANGED limitVars
<1>1. CASE Unauthorized(k)
  BY <1>1 DEF Unauthorized, MovesOn, limitVars
<1>2. CASE Authorized(k)
  BY <1>2 DEF Authorized, MovesOn, limitVars
<1>3. CASE Unrouted(k)
  BY <1>3 DEF Unrouted, MovesOn, limitVars
<1>4. CASE Routed(k)
  BY <1>4 DEF Routed, MovesOn, limitVars
<1>5. CASE Create(k)
  BY <1>5 DEF Create, Serving, MovesOn, limitVars
<1>6. ASSUME NEW error \in CreateErrors, CreateFails(k, error) PROVE MovesOn(k) /\ UNCHANGED limitVars
  BY <1>6 DEF CreateFails, Serving, MovesOn, limitVars
<1>7. CASE Get(k)
  <2>1. UNCHANGED limitVars
    BY <1>7 DEF Get, Serving, limitVars
  <2>2. CASE Found(k)
    <3> DEFINE Shown(reply, answer, shown) ==
                 slot' = [slot EXCEPT ![k].stage = "answered", ![k].by = "api", ![k].reply = reply,
                                      ![k].answer = answer, ![k].shown = shown]
    <3>1. Shown(GetOrderReply(order), Response("getOrder", GetOrderReply(order)),
                [asked |-> asked, status |-> order.status])
      BY <1>7, <2>2 DEF Get
    <3>2. \E reply, answer, shown : Shown(reply, answer, shown)
      <4> HIDE DEF Shown
      <4> QED BY <3>1
    <3> QED BY <2>1, <3>2 DEF MovesOn
  <2>3. CASE ~Found(k)
    BY <1>7, <2>1, <2>3 DEF Get, MovesOn
  <2> QED BY <2>2, <2>3
<1>8. CASE GetFails(k)
  BY <1>8 DEF GetFails, Serving, MovesOn, limitVars
<1>9. CASE OrderRefused(k)
  BY <1>9 DEF OrderRefused, Serving, MovesOn, limitVars
<1>10. CASE Pay(k)
  BY <1>10 DEF Pay, Serving, MovesOn, limitVars
<1>11. CASE Cancel(k)
  BY <1>11 DEF Cancel, Serving, MovesOn, limitVars
<1>12. ASSUME NEW error \in PayErrors \cup CancelErrors, OrderFails(k, error)
       PROVE MovesOn(k) /\ UNCHANGED limitVars
  BY <1>12 DEF OrderFails, Serving, MovesOn, limitVars
<1>13. CASE Finish(k)
  BY <1>13 DEF Finish, MovesOn, limitVars
<1> QED BY <1>1, <1>2, <1>3, <1>4, <1>5, <1>6, <1>7, <1>8, <1>9, <1>10, <1>11, <1>12, <1>13 DEF BehindLimiter

\* The limiter's steps of a request are its steps for the request's path.
LEMMA AtLimiter ==
  ASSUME SlotsOK, NEW k \in Instances, Pass(k) \/ TooManyRequests(k)
  PROVE  MovesOn(k) /\ LimitNext
<1>1. slot[k].req.path \in Paths
  BY DEF SlotsOK, Pass, TooManyRequests
<1>2. MovesOn(k)
  BY DEF Pass, TooManyRequests, MovesOn
<1>3. \/ Grant(k, slot[k].req.path) \/ Refuse(k, slot[k].req.path) \/ LetThrough(k, slot[k].req.path)
  BY DEF Pass, TooManyRequests
<1> QED BY <1>1, <1>2, <1>3 DEF LimitNext

\* A request that comes in is one of those whose paths there are.
LEMMA ArriveOK ==
  ASSUME SlotsOK, NEW k \in Instances, Arrive(k)
  PROVE  SlotsOK' /\ UNCHANGED limitVars
<1> DEFINE New(c, r) == [Idle EXCEPT !.stage = "limit", !.want = c, !.req = r]
<1>1. ASSUME NEW c \in Calls \cup Polls, slot' = [slot EXCEPT ![k] = New(c, Sent(c))] PROVE SlotsOK'
  BY <1>1, PathsAssumption DEF SlotsOK, SlotFields, Idle
<1>2. ASSUME NEW r \in Requests, slot' = [slot EXCEPT ![k] = [Idle EXCEPT !.stage = "limit", !.req = r]]
      PROVE  SlotsOK'
  BY <1>2, PathsAssumption DEF SlotsOK, SlotFields, Idle
<1> QED BY <1>1, <1>2 DEF Arrive, limitVars

\* Every step is one of the limiter's or leaves it alone, and keeps SlotsOK.
LEMMA StepIsLimits ==
  ASSUME SlotsOK, [Next]_vars
  PROVE  SlotsOK' /\ [LimitNext]_limitVars
<1>1. ASSUME NEW k \in Instances, Arrive(k) PROVE SlotsOK' /\ [LimitNext]_limitVars
  BY <1>1, ArriveOK
<1>2. ASSUME NEW k \in Instances, Pass(k) \/ TooManyRequests(k) PROVE SlotsOK' /\ [LimitNext]_limitVars
  BY <1>2, AtLimiter, MovesOnOK
<1>3. ASSUME NEW k \in Instances, BehindLimiter(k) PROVE SlotsOK' /\ [LimitNext]_limitVars
  BY <1>3, BehindLimiterMoves, MovesOnOK
<1>4. CASE Assemble
  BY <1>4 DEF Assemble, SlotsOK, limitVars
<1>5. CASE Clock
  BY <1>5 DEF Clock, apiVars, SlotsOK, LimitNext
<1>6. CASE Around
  BY <1>6 DEF Around, apiVars, SlotsOK, LimitNext
<1>7. CASE UNCHANGED vars
  BY <1>7 DEF vars, SlotsOK, limitVars
<1> QED BY <1>1, <1>2, <1>3, <1>4, <1>5, <1>6, <1>7 DEF Next, Step, BehindLimiter

\* At first no instance has a request.
LEMMA InitIsLimits == Init => SlotsOK /\ LimitInit
<1> SUFFICES ASSUME Init PROVE SlotsOK /\ LimitInit
  OBVIOUS
<1>1. slot = [k \in Instances |-> Idle] /\ LimitInit
  BY DEF Init
<1>2. DOMAIN Idle = SlotFields /\ Idle.stage = "idle"
  BY DEF Idle, SlotFields
<1> QED BY <1>1, <1>2 DEF SlotsOK

\* The service, with the limiter in front of its handlers, implements the
\* limiter's specification (app.go puts the middleware first).
THEOREM ImplementsLimit == Spec => LimitSpec
<1>1. Init => SlotsOK /\ LimitInit
  BY InitIsLimits
<1>2. SlotsOK /\ [Next]_vars => SlotsOK' /\ [LimitNext]_limitVars
  BY StepIsLimits
<1> QED BY <1>1, <1>2, PTL DEF Spec, LimitSpec

\* However requests are spread over the instances of the order service, no
\* window sees more of a path pass than the limit allows (middleware.go).
THEOREM RateHoldsOfService == Spec => []RateHolds
BY ImplementsLimit, RateIsGlobal, PTL
-----------------------------------------------------------------------------
(* What the service answers, and to whom. *)

MiddlewareNames == {"limiter", "auth"}

ApiNames == {"decoder", "api"}

\* The order, once there is one, has the fields of its row.
OrderOK ==
  order # None =>
    /\ DOMAIN order = {"items", "status", "method", "tx"}
    /\ order.status \in OrderStatuses
    /\ order.method \in PaymentMethods \cup {Nil}
    /\ order.tx \in {Nil, TxUuid}
    /\ \A i \in DOMAIN order.items : order.items[i].uuid \in DOMAIN TypeOf

\* A call of the generated client is on the way as the client sent it, and
\* what the service is called with is the operation it is a call of.
OnTheWay(sl) ==
  /\ sl.want # None => sl.want \in Calls \cup Polls
  /\ sl.stage # "idle" /\ sl.want # None => sl.req = Sent(sl.want)
  /\ sl.stage = "service" =>
       /\ sl.call.op \in Operations
       /\ sl.call.op = "payOrder" => sl.call.args \in PaymentMethods \cup {"UNSPECIFIED"}
       /\ sl.want # None => sl.call.op = sl.want.op

\* An answer to a call of the client: never the router's; of a middleware no
\* JSON; of a handler JSON under a status the client has a type for, the type
\* the handler returned or that of an error.
Known(op, sl) ==
  /\ sl.by \in MiddlewareNames \cup ApiNames
  /\ sl.by \in MiddlewareNames => sl.answer.ctype # "json"
  /\ sl.by \in ApiNames => sl.answer.ctype = "json" /\ sl.answer.status \in DOMAIN TypeAt(op)
  /\ sl.by = "api" /\ sl.reply.error = "none" => TypeAt(op)[sl.answer.status] = sl.reply.type
  /\ sl.by = "decoder" \/ (sl.by = "api" /\ sl.reply.error # "none") =>
       TypeAt(op)[sl.answer.status] \in ErrorTypes

Answered(sl) ==
  sl.stage = "answered" =>
    /\ sl.answer.status \in {200, 201, 204, 400, 401, 404, 405, 409, 429, 500}
    /\ sl.want # None => Known(sl.want.op, sl)

SlotOK(sl) ==
  /\ sl.stage \in {"idle", "limit", "auth", "route", "service", "answered"}
  /\ sl.by \in {"none", "router"} \cup MiddlewareNames \cup ApiNames
  /\ OnTheWay(sl) /\ Answered(sl)

ApiInv == SlotsOK /\ OrderOK /\ spaced \in BOOLEAN /\ \A k \in Instances : SlotOK(slot[k])

\* mapError: what the decoders report is a 400, and only ErrUnauthorized a 401.
LEMMA CodeOfError ==
  ASSUME NEW error, error # "ErrUnauthorized"
  PROVE  /\ mapError(error) \in {400, 404, 409, 500}
         /\ error \in {"DecodeParams", "DecodeRequest"} => mapError(error) = 400
<1>1. DOMAIN ErrorCodes = {400, 401, 404, 409}
  BY DEF ErrorCodes
<1>2. CASE \E c \in DOMAIN ErrorCodes : error \in ErrorCodes[c]
  <2> DEFINE code == CHOOSE c \in DOMAIN ErrorCodes : error \in ErrorCodes[c]
  <2>1. code \in DOMAIN ErrorCodes /\ error \in ErrorCodes[code] /\ mapError(error) = code
    BY <1>2, Zenon DEF mapError
  <2> HIDE DEF code
  <2> QED BY <1>1, <2>1 DEF ErrorCodes
<1>3. CASE ~\E c \in DOMAIN ErrorCodes : error \in ErrorCodes[c]
  <2>1. mapError(error) = 500
    BY <1>3 DEF mapError
  <2>2. error \notin ErrorCodes[400]
    BY <1>1, <1>3
  <2> QED BY <2>1, <2>2 DEF ErrorCodes
<1> QED BY <1>2, <1>3

\* The statuses the client knows (oas_response_decoders_gen.go).
LEMMA StatusesKnown ==
  /\ DOMAIN TypeAt("createOrder") = {201, 400, 401, 404, 409, 500}
  /\ DOMAIN TypeAt("getOrder") = {200, 400, 404, 500}
  /\ DOMAIN TypeAt("payOrder") = {200, 400, 404, 409, 500}
  /\ DOMAIN TypeAt("cancelOrder") = {200, 400, 404, 409, 500}
BY DEF TypeAt, decodeCreateOrderResponse, decodeGetOrderResponse, decodePayOrderResponse, decodeCancelOrderResponse

\* From 400 on they are those of the error types.
LEMMA ErrorTypeOf ==
  ASSUME NEW op \in Operations, NEW status \in DOMAIN TypeAt(op), status >= 400
  PROVE  TypeAt(op)[status] \in ErrorTypes
<1> USE DEF ErrorTypes, CancelOrderErrors, CreateOrderErrors, CreateOrderUnauthorized, GetOrderErrors, PayOrderErrors
<1>1. CASE op = "createOrder"
  BY <1>1, StatusesKnown DEF TypeAt, decodeCreateOrderResponse
<1>2. CASE op = "getOrder"
  BY <1>2, StatusesKnown DEF TypeAt, decodeGetOrderResponse
<1>3. CASE op = "payOrder"
  BY <1>3, StatusesKnown DEF TypeAt, decodePayOrderResponse
<1>4. CASE op = "cancelOrder"
  BY <1>4, StatusesKnown DEF TypeAt, decodeCancelOrderResponse
<1> QED BY <1>1, <1>2, <1>3, <1>4 DEF Operations

\* A typed answer is decoded into its type.
LEMMA EncodedThenDecoded ==
  ASSUME NEW op \in Operations, NEW type \in DOMAIN StatusOf(op)
  PROVE  StatusOf(op)[type] \in DOMAIN TypeAt(op) /\ TypeAt(op)[StatusOf(op)[type]] = type
<1>1. CASE op = "createOrder"
  BY <1>1, StatusesKnown DEF StatusOf, encodeCreateOrderResponse, TypeAt, decodeCreateOrderResponse
<1>2. CASE op = "getOrder"
  BY <1>2, StatusesKnown DEF StatusOf, encodeGetOrderResponse, TypeAt, decodeGetOrderResponse
<1>3. CASE op = "payOrder"
  BY <1>3, StatusesKnown DEF StatusOf, encodePayOrderResponse, TypeAt, decodePayOrderResponse
<1>4. CASE op = "cancelOrder"
  BY <1>4, StatusesKnown DEF StatusOf, encodeCancelOrderResponse, TypeAt, decodeCancelOrderResponse
<1> QED BY <1>1, <1>2, <1>3, <1>4 DEF Operations

\* The paths of one, two and three segments.
LEMMA Segments ==
  ASSUME NEW a, NEW b, NEW c
  PROVE  /\ Len(<<a>>) = 1 /\ DOMAIN <<a>> = {1} /\ <<a>>[1] = a
         /\ Len(<<a, b>>) = 2 /\ DOMAIN <<a, b>> = {1, 2} /\ <<a, b>>[1] = a /\ <<a, b>>[2] = b
         /\ Len(<<a, b, c>>) = 3 /\ DOMAIN <<a, b, c>> = {1, 2, 3}
         /\ <<a, b, c>>[1] = a /\ <<a, b, c>>[2] = b /\ <<a, b, c>>[3] = c
OBVIOUS

\* A path matches a route of as many segments with the same first and third.
LEMMA MatchOfSegments ==
  ASSUME NEW u, NEW v, NEW route
  PROVE  /\ route.path = <<Root>> =>
              Matches(route, <<Root>>) /\ ~Matches(route, <<Root, u>>) /\ ~Matches(route, <<Root, u, v>>)
         /\ route.path = <<Root, "{order_uuid}">> =>
              ~Matches(route, <<Root>>) /\ Matches(route, <<Root, u>>) /\ ~Matches(route, <<Root, u, v>>)
         /\ \A w : route.path = <<Root, "{order_uuid}", w>> =>
              /\ ~Matches(route, <<Root>>) /\ ~Matches(route, <<Root, u>>)
              /\ Matches(route, <<Root, u, v>>) <=> v = w
<1> DEFINE P1 == <<Root>>
           P2(x) == <<Root, x>>
           P3(x, y) == <<Root, x, y>>
<1>1. /\ Len(P1) = 1 /\ DOMAIN P1 = {1} /\ P1[1] = Root
      /\ \A x : Len(P2(x)) = 2 /\ DOMAIN P2(x) = {1, 2} /\ P2(x)[1] = Root
      /\ \A x, y : Len(P3(x, y)) = 3 /\ DOMAIN P3(x, y) = {1, 2, 3} /\ P3(x, y)[1] = Root /\ P3(x, y)[3] = y
  BY Segments
<1> HIDE DEF P1, P2, P3
<1>2. ASSUME route.path = P1
      PROVE  Matches(route, P1) /\ ~Matches(route, P2(u)) /\ ~Matches(route, P3(u, v))
  BY <1>1, <1>2 DEF Matches
<1>3. ASSUME route.path = P2("{order_uuid}")
      PROVE  ~Matches(route, P1) /\ Matches(route, P2(u)) /\ ~Matches(route, P3(u, v))
  <2>1. Len(route.path) = 2 /\ route.path[1] = Root
    BY <1>1, <1>3
  <2> QED BY <1>1, <2>1 DEF Matches
<1>4. ASSUME NEW w, route.path = P3("{order_uuid}", w)
      PROVE  /\ ~Matches(route, P1) /\ ~Matches(route, P2(u))
             /\ Matches(route, P3(u, v)) <=> v = w
  <2>0. /\ Len(P3("{order_uuid}", w)) = 3 /\ P3("{order_uuid}", w)[1] = Root
        /\ P3("{order_uuid}", w)[3] = w
    BY <1>1, Zenon
  <2>1. Len(route.path) = 3 /\ route.path[1] = Root /\ route.path[3] = w
    BY <1>4, <2>0, Zenon
  <2>2. ~Matches(route, P1) /\ ~Matches(route, P2(u))
    BY <1>1, <2>1 DEF Matches
  <2>3. Matches(route, P3(u, v)) <=> v = w
    BY <1>1, <2>1 DEF Matches
  <2> QED BY <2>2, <2>3
<1> QED BY <1>2, <1>3, <1>4 DEF P1, P2, P3

\* Every route is of an operation.
LEMMA OperationOfRoute == \A route \in Routes : route.op \in Operations
<1> DEFINE R1 == [path |-> <<Root>>, method |-> "POST", op |-> "createOrder"]
           R2 == [path |-> <<Root, "{order_uuid}">>, method |-> "GET", op |-> "getOrder"]
           R3 == [path |-> <<Root, "{order_uuid}", "pay">>, method |-> "POST", op |-> "payOrder"]
           R4 == [path |-> <<Root, "{order_uuid}", "cancel">>, method |-> "POST", op |-> "cancelOrder"]
<1>1. Routes = {R1, R2, R3, R4}
  BY DEF Routes
<1>2. R1.op = "createOrder" /\ R2.op = "getOrder" /\ R3.op = "payOrder" /\ R4.op = "cancelOrder"
  OBVIOUS
<1> HIDE DEF R1, R2, R3, R4
<1> QED BY <1>1, <1>2 DEF Operations

\* A request of the client has its route, and no other.
LEMMA RouteOfCall ==
  ASSUME NEW c, c.op \in Operations
  PROVE  /\ \E route \in Routes : Matches(route, Sent(c).path) /\ route.method = Sent(c).method
         /\ \A route \in Routes :
              Matches(route, Sent(c).path) /\ route.method = Sent(c).method => route.op = c.op
<1> DEFINE R1 == [path |-> <<Root>>, method |-> "POST", op |-> "createOrder"]
           R2 == [path |-> <<Root, "{order_uuid}">>, method |-> "GET", op |-> "getOrder"]
           R3 == [path |-> <<Root, "{order_uuid}", "pay">>, method |-> "POST", op |-> "payOrder"]
           R4 == [path |-> <<Root, "{order_uuid}", "cancel">>, method |-> "POST", op |-> "cancelOrder"]
<1>1. Routes = {R1, R2, R3, R4}
  BY DEF Routes
<1>2. /\ R1.method = "POST" /\ R1.op = "createOrder" /\ R1.path = <<Root>>
      /\ R2.method = "GET" /\ R2.op = "getOrder" /\ R2.path = <<Root, "{order_uuid}">>
      /\ R3.method = "POST" /\ R3.op = "payOrder" /\ R3.path = <<Root, "{order_uuid}", "pay">>
      /\ R4.method = "POST" /\ R4.op = "cancelOrder" /\ R4.path = <<Root, "{order_uuid}", "cancel">>
  OBVIOUS
<1> HIDE DEF R1, R2, R3, R4
<1>3. /\ Matches(R1, <<Root>>) /\ ~Matches(R3, <<Root>>) /\ ~Matches(R4, <<Root>>)
      /\ Matches(R2, <<Root, c.uuid>>)
      /\ Matches(R3, <<Root, c.uuid, "pay">>) /\ ~Matches(R1, <<Root, c.uuid, "pay">>)
      /\ ~Matches(R4, <<Root, c.uuid, "pay">>)
      /\ Matches(R4, <<Root, c.uuid, "cancel">>) /\ ~Matches(R1, <<Root, c.uuid, "cancel">>)
      /\ ~Matches(R3, <<Root, c.uuid, "cancel">>)
  BY <1>2, MatchOfSegments, "pay" # "cancel", Zenon
<1>4. CASE c.op = "createOrder"
  <2>1. Sent(c).path = <<Root>> /\ Sent(c).method = "POST"
    BY <1>4 DEF Sent, sendCreateOrder, HttpRequest
  <2> QED BY <1>1, <1>2, <1>3, <1>4, <2>1
<1>5. CASE c.op = "getOrder"
  <2>1. Sent(c).path = <<Root, c.uuid>> /\ Sent(c).method = "GET"
    BY <1>5 DEF Sent, sendGetOrder, HttpRequest
  <2> QED BY <1>1, <1>2, <1>3, <1>5, <2>1
<1>6. CASE c.op = "payOrder"
  <2>1. Sent(c).path = <<Root, c.uuid, "pay">> /\ Sent(c).method = "POST"
    BY <1>6 DEF Sent, sendPayOrder, HttpRequest
  <2> QED BY <1>1, <1>2, <1>3, <1>6, <2>1
<1>7. CASE c.op = "cancelOrder"
  <2>1. Sent(c).path = <<Root, c.uuid, "cancel">> /\ Sent(c).method = "POST"
    BY <1>7 DEF Sent, sendCancelOrder, HttpRequest
  <2> QED BY <1>1, <1>2, <1>3, <1>7, <2>1
<1> QED BY <1>4, <1>5, <1>6, <1>7 DEF Operations

\* A handler calls the service with its operation, or reports what it could
\* not decode.
LEMMA HandleCalls ==
  ASSUME NEW op \in Operations, NEW r
  PROVE  /\ Handle(op, r).error \in {"none", "DecodeParams", "DecodeRequest"}
         /\ Handle(op, r).error = "none" =>
              /\ Handle(op, r).op = op
              /\ op = "payOrder" => Handle(op, r).args \in PaymentMethods \cup {"UNSPECIFIED"}
<1> USE DEF Failed, ServiceCall
<1>1. CASE op = "createOrder"
  BY <1>1 DEF Handle, handleCreateOrderRequest
<1>2. CASE op = "getOrder"
  BY <1>2 DEF Handle, handleGetOrderRequest
<1>3. CASE op = "payOrder"
  BY <1>3 DEF Handle, handlePayOrderRequest, PaymentMethodFromApiToModel
<1>4. CASE op = "cancelOrder"
  BY <1>4 DEF Handle, handleCancelOrderRequest
<1> QED BY <1>1, <1>2, <1>3, <1>4 DEF Operations

\* The rows of a new order are of parts of the catalogue.
LEMMA ListedInCatalogue ==
  ASSUME NEW parts, Buildable(parts)
  PROVE  \A i \in DOMAIN Listed(parts) : Listed(parts)[i].uuid \in DOMAIN TypeOf
<1>1. /\ parts.hull \in DOMAIN TypeOf /\ parts.engine \in DOMAIN TypeOf
      /\ parts.shield # Nil => parts.shield \in DOMAIN TypeOf
      /\ parts.weapon # Nil => parts.weapon \in DOMAIN TypeOf
  BY DEF Buildable
<1>2. \A u : Item(u).uuid = u
  BY DEF Item
<1> HIDE DEF Item
<1>3. CASE parts.shield = Nil /\ parts.weapon = Nil
  BY <1>1, <1>2, <1>3 DEF Listed, WhenGiven
<1>4. CASE parts.shield # Nil /\ parts.weapon = Nil
  BY <1>1, <1>2, <1>4 DEF Listed, WhenGiven
<1>5. CASE parts.shield = Nil /\ parts.weapon # Nil
  BY <1>1, <1>2, <1>5 DEF Listed, WhenGiven
<1>6. CASE parts.shield # Nil /\ parts.weapon # Nil
  BY <1>1, <1>2, <1>6 DEF Listed, WhenGiven
<1> QED BY <1>3, <1>4, <1>5, <1>6

\* A step of one instance leaves the requests of the others alone.
LEMMA OneSlot ==
  ASSUME ApiInv, NEW k \in Instances, SlotsOK', OrderOK', UNCHANGED spaced,
         \A j \in Instances \ {k} : slot'[j] = slot[j], SlotOK(slot'[k])
  PROVE  ApiInv'
<1>1. ASSUME NEW j \in Instances PROVE SlotOK(slot'[j])
  BY <1>1 DEF ApiInv
<1> QED BY <1>1 DEF ApiInv

\* What a step of a request leaves alone.
LEMMA Fields ==
  ASSUME SlotsOK, NEW k \in Instances
  PROVE  /\ \A stage : Goes(k, stage) =>
              /\ \A j \in Instances \ {k} : slot'[j] = slot[j]
              /\ slot'[k].stage = stage /\ slot'[k].by = slot[k].by
              /\ slot'[k].want = slot[k].want /\ slot'[k].req = slot[k].req
              /\ slot'[k].shown = slot[k].shown
         /\ \A by, answer : Answers(k, by, answer) =>
              /\ \A j \in Instances \ {k} : slot'[j] = slot[j]
              /\ slot'[k].stage = "answered" /\ slot'[k].by = by /\ slot'[k].answer = answer
              /\ slot'[k].want = slot[k].want /\ slot'[k].req = slot[k].req
              /\ slot'[k].shown = slot[k].shown
         /\ \A reply : Replies(k, reply) =>
              /\ \A j \in Instances \ {k} : slot'[j] = slot[j]
              /\ slot'[k].stage = "answered" /\ slot'[k].by = "api" /\ slot'[k].reply = reply
              /\ slot'[k].answer = Response(slot[k].call.op, reply)
              /\ slot'[k].want = slot[k].want /\ slot'[k].req = slot[k].req
              /\ slot'[k].shown = slot[k].shown
<1> USE DEF SlotsOK, SlotFields
<1>1. ASSUME NEW stage, Goes(k, stage)
      PROVE  /\ \A j \in Instances \ {k} : slot'[j] = slot[j]
             /\ slot'[k].stage = stage /\ slot'[k].by = slot[k].by
             /\ slot'[k].want = slot[k].want /\ slot'[k].req = slot[k].req
             /\ slot'[k].shown = slot[k].shown
  BY <1>1 DEF Goes
<1>2. ASSUME NEW by, NEW answer, Answers(k, by, answer)
      PROVE  /\ \A j \in Instances \ {k} : slot'[j] = slot[j]
             /\ slot'[k].stage = "answered" /\ slot'[k].by = by /\ slot'[k].answer = answer
             /\ slot'[k].want = slot[k].want /\ slot'[k].req = slot[k].req
             /\ slot'[k].shown = slot[k].shown
  BY <1>2 DEF Answers
<1>3. ASSUME NEW reply, Replies(k, reply)
      PROVE  /\ \A j \in Instances \ {k} : slot'[j] = slot[j]
             /\ slot'[k].stage = "answered" /\ slot'[k].by = "api" /\ slot'[k].reply = reply
             /\ slot'[k].answer = Response(slot[k].call.op, reply)
             /\ slot'[k].want = slot[k].want /\ slot'[k].req = slot[k].req
             /\ slot'[k].shown = slot[k].shown
  BY <1>3 DEF Replies
<1> QED BY <1>1, <1>2, <1>3

\* A request goes on behind a middleware that lets it pass.
LEMMA GoesKeeps ==
  ASSUME ApiInv, NEW k \in Instances, slot[k].stage # "idle", NEW stage \in {"auth", "route"}, Goes(k, stage),
         UNCHANGED <<order, spaced>>
  PROVE  ApiInv'
<1>1. /\ \A j \in Instances \ {k} : slot'[j] = slot[j]
      /\ slot'[k].stage = stage /\ slot'[k].by = slot[k].by
      /\ slot'[k].want = slot[k].want /\ slot'[k].req = slot[k].req
  BY Fields DEF ApiInv
<1>2. SlotsOK' /\ OrderOK'
  <2>1. MovesOn(k)
    BY DEF MovesOn
  <2> QED BY <2>1, MovesOnOK DEF ApiInv, OrderOK
<1>3. SlotOK(slot[k])
  BY DEF ApiInv
<1>4. SlotOK(slot'[k])
  BY <1>1, <1>3 DEF SlotOK, OnTheWay, Answered
<1> QED BY <1>1, <1>2, <1>4, OneSlot

\* A request that is answered does not wait for the limiter.
LEMMA AnswersOK ==
  ASSUME SlotsOK, NEW k \in Instances, NEW by, NEW answer, Answers(k, by, answer)
  PROVE  SlotsOK'
BY DEF SlotsOK, SlotFields, Answers

\* An answer of a middleware, of the router or of a decoder.
LEMMA AnswerKeeps ==
  ASSUME ApiInv, NEW k \in Instances, slot[k].stage # "idle", UNCHANGED <<order, spaced>>,
         NEW by \in {"router", "decoder"} \cup MiddlewareNames, NEW answer, Answers(k, by, answer),
         answer.status \in {200, 201, 204, 400, 401, 404, 405, 409, 429, 500},
         by \in MiddlewareNames => answer.ctype # "json",
         by = "router" => slot[k].want = None,
         by = "decoder" => answer.ctype = "json" /\ answer.status = 400
  PROVE  ApiInv'
<1>1. /\ \A j \in Instances \ {k} : slot'[j] = slot[j]
      /\ slot'[k].stage = "answered" /\ slot'[k].by = by /\ slot'[k].answer = answer
      /\ slot'[k].want = slot[k].want /\ slot'[k].req = slot[k].req
  BY Fields DEF ApiInv
<1>2. SlotsOK' /\ OrderOK'
  <2>1. SlotsOK'
    BY AnswersOK DEF ApiInv
  <2> QED BY <2>1 DEF ApiInv, OrderOK
<1>3. SlotOK(slot[k])
  BY DEF ApiInv
<1>4. ASSUME slot[k].want # None PROVE Known(slot[k].want.op, slot'[k])
  <2>1. slot[k].want.op \in Operations
    BY <1>3, <1>4, CallsAssumption DEF SlotOK, OnTheWay
  <2>2. by = "decoder" => answer.status \in DOMAIN TypeAt(slot[k].want.op)
    BY <2>1, StatusesKnown DEF Operations
  <2>3. by = "decoder" => TypeAt(slot[k].want.op)[answer.status] \in ErrorTypes
    BY <2>1, <2>2, ErrorTypeOf
  <2> QED BY <1>1, <1>4, <2>2, <2>3 DEF Known, MiddlewareNames, ApiNames
<1>5. SlotOK(slot'[k])
  <2>1. OnTheWay(slot'[k])
    BY <1>1, <1>3 DEF SlotOK, OnTheWay
  <2>2. Answered(slot'[k])
    BY <1>1, <1>4 DEF Answered
  <2> QED BY <1>1, <2>1, <2>2 DEF SlotOK, ApiNames
<1> QED BY <1>1, <1>2, <1>5, OneSlot

\* What a handler returns: one of its operation's types, or an error.
Returned(op, reply) ==
  \/ reply.error = "none" /\ reply.type \in DOMAIN StatusOf(op)
  \/ reply.error \notin {"none", "ErrUnauthorized"} /\ op # "getOrder"

\* Its answer is one the client knows.
LEMMA ReplyKnown ==
  ASSUME NEW op \in Operations, NEW reply, Returned(op, reply)
  PROVE  LET a == Response(op, reply) IN
         /\ a.ctype = "json" /\ a.status \in DOMAIN TypeAt(op)
         /\ reply.error = "none" => TypeAt(op)[a.status] = reply.type
         /\ reply.error # "none" => TypeAt(op)[a.status] \in ErrorTypes
<1>1. CASE reply.error = "none"
  <2>1. reply.type \in DOMAIN StatusOf(op)
    BY <1>1 DEF Returned
  <2>2. Response(op, reply).status = StatusOf(op)[reply.type] /\ Response(op, reply).ctype = "json"
    BY <1>1 DEF Response
  <2> QED BY <1>1, <2>1, <2>2, EncodedThenDecoded
<1>2. CASE reply.error # "none"
  <2>1. reply.error # "ErrUnauthorized" /\ op # "getOrder"
    BY <1>2 DEF Returned
  <2>2. Response(op, reply).status = mapError(reply.error) /\ Response(op, reply).ctype = "json"
    BY <1>2 DEF Response, ErrorHandler
  <2>3. mapError(reply.error) \in {400, 404, 409, 500}
    BY <2>1, CodeOfError
  <2>4. mapError(reply.error) \in DOMAIN TypeAt(op)
    BY <2>1, <2>3, StatusesKnown DEF Operations
  <2>5. TypeAt(op)[mapError(reply.error)] \in ErrorTypes
    BY <2>3, <2>4, ErrorTypeOf
  <2> QED BY <1>2, <2>2, <2>4, <2>5
<1> QED BY <1>1, <1>2

\* An answer of a handler.
LEMMA ReplyKeeps ==
  ASSUME ApiInv, NEW k \in Instances, slot[k].stage = "service", NEW reply, Returned(slot[k].call.op, reply),
         SlotsOK', OrderOK', UNCHANGED spaced,
         \A j \in Instances \ {k} : slot'[j] = slot[j],
         slot'[k].stage = "answered", slot'[k].by = "api", slot'[k].reply = reply,
         slot'[k].answer = Response(slot[k].call.op, reply),
         slot'[k].want = slot[k].want, slot'[k].req = slot[k].req
  PROVE  ApiInv'
<1>1. SlotOK(slot[k])
  BY DEF ApiInv
<1> DEFINE a == Response(slot[k].call.op, reply)
<1>2. /\ slot[k].call.op \in Operations
      /\ slot[k].want # None => slot[k].call.op = slot[k].want.op
  BY <1>1 DEF SlotOK, OnTheWay
<1>3. /\ a.ctype = "json" /\ a.status \in DOMAIN TypeAt(slot[k].call.op)
      /\ reply.error = "none" => TypeAt(slot[k].call.op)[a.status] = reply.type
      /\ reply.error # "none" => TypeAt(slot[k].call.op)[a.status] \in ErrorTypes
  BY <1>2, ReplyKnown
<1>4. a.status \in {200, 201, 204, 400, 401, 404, 405, 409, 429, 500}
  BY <1>2, <1>3, StatusesKnown DEF Operations
<1> HIDE DEF a
<1>5. slot'[k].answer = a
  BY DEF a
<1>6. slot[k].want # None => Known(slot[k].want.op, slot'[k])
  BY <1>2, <1>3, <1>5 DEF Known, MiddlewareNames, ApiNames
<1>7. SlotOK(slot'[k])
  <2>1. OnTheWay(slot'[k])
    BY <1>1 DEF SlotOK, OnTheWay
  <2>2. Answered(slot'[k])
    BY <1>4, <1>5, <1>6 DEF Answered
  <2> QED BY <2>1, <2>2 DEF SlotOK, ApiNames
<1> QED BY <1>7, OneSlot

\* A request that comes in.
LEMMA ArriveKeeps ==
  ASSUME ApiInv, NEW k \in Instances, Arrive(k)
  PROVE  ApiInv'
<1>1. SlotsOK' /\ OrderOK' /\ UNCHANGED spaced
  BY ArriveOK DEF ApiInv, Arrive, OrderOK
<1>2. PICK new : /\ slot' = [slot EXCEPT ![k] = new]
                 /\ new.stage = "limit" /\ new.by = "none"
                 /\ new.want = None \/ (new.want \in Calls \cup Polls /\ new.req = Sent(new.want))
  <2> DEFINE Good(new) == /\ new.stage = "limit" /\ new.by = "none"
                          /\ new.want = None \/ (new.want \in Calls \cup Polls /\ new.req = Sent(new.want))
  <2>1. ASSUME NEW c \in Calls \cup Polls
        PROVE  Good([Idle EXCEPT !.stage = "limit", !.want = c, !.req = Sent(c)])
    BY DEF Idle
  <2>2. ASSUME NEW r \in Requests PROVE Good([Idle EXCEPT !.stage = "limit", !.req = r])
    BY DEF Idle
  <2>3. \/ \E c \in Calls \cup Polls :
             slot' = [slot EXCEPT ![k] = [Idle EXCEPT !.stage = "limit", !.want = c, !.req = Sent(c)]]
        \/ \E r \in Requests : slot' = [slot EXCEPT ![k] = [Idle EXCEPT !.stage = "limit", !.req = r]]
    BY Zenon DEF Arrive
  <2> HIDE DEF Good
  <2>4. \E new : slot' = [slot EXCEPT ![k] = new] /\ Good(new)
    BY <2>1, <2>2, <2>3, Zenon
  <2> QED BY <2>4, Zenon DEF Good
<1>3. slot'[k] = new /\ \A j \in Instances \ {k} : slot'[j] = slot[j]
  BY <1>2 DEF ApiInv, SlotsOK
<1>4. SlotOK(slot'[k])
  BY <1>2, <1>3 DEF SlotOK, OnTheWay, Answered
<1> QED BY <1>1, <1>3, <1>4, OneSlot

\* The middlewares let a request pass or answer it in plain text.
LEMMA MiddlewaresKeep ==
  ASSUME ApiInv, NEW k \in Instances,
         Pass(k) \/ TooManyRequests(k) \/ Unauthorized(k) \/ Authorized(k)
  PROVE  ApiInv'
<1>1. CASE Pass(k)
  BY <1>1, GoesKeeps DEF Pass
<1>2. CASE Authorized(k)
  BY <1>2, GoesKeeps DEF Authorized
<1>3. Text(429).status = 429 /\ Text(429).ctype = "text" /\ Text(401).status = 401 /\ Text(401).ctype = "text"
  BY DEF Text
<1> HIDE DEF Text
<1>4. CASE TooManyRequests(k)
  <2>1. Answers(k, "limiter", Text(429)) /\ slot[k].stage = "limit" /\ UNCHANGED <<order, spaced>>
    BY <1>4 DEF TooManyRequests
  <2> QED BY <1>3, <2>1, AnswerKeeps DEF MiddlewareNames
<1>5. CASE Unauthorized(k)
  <2>1. Answers(k, "auth", Text(401)) /\ slot[k].stage = "auth" /\ UNCHANGED <<order, spaced>>
    BY <1>5 DEF Unauthorized
  <2> QED BY <1>3, <2>1, AnswerKeeps DEF MiddlewareNames
<1> QED BY <1>1, <1>2, <1>4, <1>5

\* The router: a call of the client finds its operation; the handler calls the
\* service or answers what it could not decode with a 400.
LEMMA RouterKeeps ==
  ASSUME ApiInv, NEW k \in Instances, Unrouted(k) \/ Routed(k)
  PROVE  ApiInv'
<1>1. SlotOK(slot[k]) /\ slot[k].stage = "route"
  BY DEF ApiInv, Unrouted, Routed
<1>2. slot[k].want # None => slot[k].want.op \in Operations /\ slot[k].req = Sent(slot[k].want)
  BY <1>1, CallsAssumption DEF SlotOK, OnTheWay
<1>3. CASE Unrouted(k)
  <2>1. /\ \A route \in Routes : Matches(route, slot[k].req.path) => route.method # slot[k].req.method
        /\ UNCHANGED <<order, spaced>>
    BY <1>3 DEF Unrouted
  <2>2. slot[k].want = None
    BY <1>2, <2>1, RouteOfCall
  <2>3. PICK answer : Answers(k, "router", answer) /\ answer.status \in {204, 404, 405}
    <3>1. notFound.status = 404 /\ notAllowed(slot[k].req).status \in {204, 405}
      BY DEF notFound, notAllowed, Text, Bare
    <3>2. \/ Answers(k, "router", notFound)
          \/ Answers(k, "router", notAllowed(slot[k].req))
      BY <1>3 DEF Unrouted
    <3> QED BY <3>1, <3>2
  <2> QED BY <1>1, <2>1, <2>2, <2>3, AnswerKeeps DEF MiddlewareNames
<1>4. CASE Routed(k)
  <2>1. PICK route \in Routes :
          /\ Matches(route, slot[k].req.path) /\ route.method = slot[k].req.method
          /\ LET call == Handle(route.op, slot[k].req) IN
             IF call.error # "none" THEN Answers(k, "decoder", ErrorHandler(call.error))
             ELSE slot' = [slot EXCEPT ![k].stage = "service", ![k].call = call]
    BY <1>4 DEF Routed
  <2>2. UNCHANGED <<order, spaced>>
    BY <1>4 DEF Routed
  <2>3. PICK call : call = Handle(route.op, slot[k].req)
    OBVIOUS
  <2>4. route.op \in Operations /\ (slot[k].want # None => route.op = slot[k].want.op)
    BY <1>2, <2>1, OperationOfRoute, RouteOfCall
  <2>5. /\ call.error \in {"none", "DecodeParams", "DecodeRequest"}
        /\ call.error = "none" =>
             /\ call.op = route.op
             /\ route.op = "payOrder" => call.args \in PaymentMethods \cup {"UNSPECIFIED"}
    BY <2>3, <2>4, HandleCalls
  <2>6. CASE call.error # "none"
    <3>1. Answers(k, "decoder", ErrorHandler(call.error))
      BY <2>1, <2>3, <2>6
    <3>2. mapError(call.error) = 400
      BY <2>5, <2>6, CodeOfError
    <3>3. ErrorHandler(call.error).status = 400 /\ ErrorHandler(call.error).ctype = "json"
      BY <3>2 DEF ErrorHandler
    <3> QED BY <1>1, <2>2, <3>1, <3>3, AnswerKeeps DEF MiddlewareNames
  <2>7. CASE call.error = "none"
    <3>1. slot' = [slot EXCEPT ![k].stage = "service", ![k].call = call]
      BY <2>1, <2>3, <2>7
    <3>2. SlotsOK' /\ OrderOK'
      <4>1. MovesOn(k)
        BY <3>1 DEF MovesOn
      <4> QED BY <2>2, <4>1, MovesOnOK DEF ApiInv, OrderOK
    <3>3. /\ \A j \in Instances \ {k} : slot'[j] = slot[j]
          /\ slot'[k].stage = "service" /\ slot'[k].call = call /\ slot'[k].by = slot[k].by
          /\ slot'[k].want = slot[k].want /\ slot'[k].req = slot[k].req
      BY <3>1 DEF ApiInv, SlotsOK, SlotFields
    <3>4. SlotOK(slot'[k])
      BY <1>1, <2>4, <2>5, <2>7, <3>3 DEF SlotOK, OnTheWay, Answered
    <3> QED BY <2>2, <3>2, <3>3, <3>4, OneSlot
  <2> QED BY <2>6, <2>7, <2>5
<1> QED BY <1>3, <1>4

\* The service, and what its handler returns: the rows keep their types, and
\* the handler returns one of the types of its operation or an error that is
\* not ErrUnauthorized.
LEMMA HandlerKeeps ==
  ASSUME ApiInv, NEW k \in Instances, slot[k].stage = "service", NEW reply, Replies(k, reply),
         Returned(slot[k].call.op, reply), OrderOK', UNCHANGED spaced
  PROVE  ApiInv'
<1>1. /\ \A j \in Instances \ {k} : slot'[j] = slot[j]
      /\ slot'[k].stage = "answered" /\ slot'[k].by = "api" /\ slot'[k].reply = reply
      /\ slot'[k].answer = Response(slot[k].call.op, reply)
      /\ slot'[k].want = slot[k].want /\ slot'[k].req = slot[k].req
  BY Fields DEF ApiInv
<1>2. SlotsOK'
  <2>1. \E r : Replies(k, r)
    BY Zenon
  <2>2. MovesOn(k)
    BY <2>1, Zenon DEF MovesOn
  <2> QED BY <2>2, MovesOnOK DEF ApiInv
<1> QED BY <1>1, <1>2, ReplyKeeps

\* Create (service/order/create.go) makes the order of parts it found.
LEMMA CreateKeeps ==
  ASSUME ApiInv, NEW k \in Instances,
         Create(k) \/ \E error \in CreateErrors : CreateFails(k, error)
  PROVE  ApiInv'
<1>1. CASE Create(k)
  <2> DEFINE parts == slot[k].call.args
             reply == CreateOrderReply(Listed(parts))
  <2>1. /\ slot[k].stage = "service" /\ slot[k].call.op = "createOrder" /\ UNCHANGED spaced
        /\ Buildable(parts) /\ Replies(k, reply)
        /\ order' = [items |-> Listed(parts), status |-> "PENDING_PAYMENT", method |-> Nil, tx |-> Nil]
    BY <1>1 DEF Create, Serving
  <2>2. reply.error = "none" /\ reply.type = "CreateOrderResponse"
    BY DEF CreateOrderReply, Typed
  <2>3. Returned(slot[k].call.op, reply)
    BY <2>1, <2>2 DEF Returned, StatusOf, encodeCreateOrderResponse
  <2>4. OrderOK'
    <3>1. \A i \in DOMAIN Listed(parts) : Listed(parts)[i].uuid \in DOMAIN TypeOf
      BY <2>1, ListedInCatalogue
    <3> QED BY <2>1, <3>1 DEF OrderOK, OrderStatuses
  <2> HIDE DEF reply
  <2> QED BY <2>1, <2>3, <2>4, HandlerKeeps
<1>2. ASSUME NEW error \in CreateErrors, CreateFails(k, error) PROVE ApiInv'
  <2>1. /\ slot[k].stage = "service" /\ slot[k].call.op = "createOrder" /\ UNCHANGED <<order, spaced>>
        /\ Replies(k, Erroneous(error))
    BY <1>2 DEF CreateFails, Serving
  <2>2. Returned(slot[k].call.op, Erroneous(error))
    BY <2>1 DEF Returned, Erroneous, CreateErrors
  <2>3. OrderOK'
    BY <2>1 DEF ApiInv, OrderOK
  <2> QED BY <2>1, <2>2, <2>3, HandlerKeeps
<1> QED BY <1>1, <1>2

\* GetOrder (api/order/v1/get.go) answers its errors with its own types.
LEMMA GetKeeps ==
  ASSUME ApiInv, NEW k \in Instances, Get(k) \/ GetFails(k)
  PROVE  ApiInv'
<1>1. slot[k].stage = "service" /\ slot[k].call.op = "getOrder" /\ UNCHANGED <<order, spaced>>
  BY DEF Get, GetFails, Serving
<1>2. OrderOK'
  BY <1>1 DEF ApiInv, OrderOK
<1>3. \A error : Returned("getOrder", GetOrderError(error))
  BY DEF Returned, GetOrderError, Typed, StatusOf, encodeGetOrderResponse
<1>4. CASE \E error : Replies(k, GetOrderError(error))
  BY <1>1, <1>2, <1>3, <1>4, HandlerKeeps
<1>5. CASE Get(k) /\ Found(k)
  <2> DEFINE reply == GetOrderReply(order)
  <2>1. slot' = [slot EXCEPT ![k].stage = "answered", ![k].by = "api", ![k].reply = reply,
                             ![k].answer = Response("getOrder", reply),
                             ![k].shown = [asked |-> asked, status |-> order.status]]
    BY <1>5 DEF Get
  <2>2. reply.error = "none" /\ reply.type = "OrderDto"
    BY DEF GetOrderReply, Typed
  <2>3. Returned("getOrder", reply)
    BY <2>2 DEF Returned, StatusOf, encodeGetOrderResponse
  <2> HIDE DEF reply
  <2>4. /\ \A j \in Instances \ {k} : slot'[j] = slot[j]
        /\ slot'[k].stage = "answered" /\ slot'[k].by = "api" /\ slot'[k].reply = reply
        /\ slot'[k].answer = Response("getOrder", reply)
        /\ slot'[k].want = slot[k].want /\ slot'[k].req = slot[k].req
    BY <2>1 DEF ApiInv, SlotsOK, SlotFields
  <2>5. SlotsOK'
    <3>1. BehindLimiter(k)
      BY <1>5 DEF BehindLimiter
    <3> QED BY <3>1, BehindLimiterMoves, MovesOnOK DEF ApiInv
  <2> QED BY <1>1, <1>2, <2>3, <2>4, <2>5, ReplyKeeps
<1> QED BY <1>4, <1>5 DEF Get, GetFails

\* Pay and Cancel (service/order/pay.go, cancel.go) act on a pending order,
\* and write a method only when it is one of the known ones.
LEMMA PayCancelKeep ==
  ASSUME ApiInv, NEW k \in Instances,
         \/ OrderRefused(k) \/ Pay(k) \/ Cancel(k)
         \/ \E error \in PayErrors \cup CancelErrors : OrderFails(k, error)
  PROVE  ApiInv'
<1>1. SlotOK(slot[k])
  BY DEF ApiInv
<1>2. CASE Pay(k)
  <2>1. /\ slot[k].stage = "service" /\ slot[k].call.op = "payOrder" /\ UNCHANGED spaced
        /\ Refusal(k) = "none" /\ Replies(k, PayOrderReply)
        /\ order' = [order EXCEPT !.status = "PAID", !.method = slot[k].call.args, !.tx = TxUuid]
    BY <1>2 DEF Pay, Serving
  <2>2. slot[k].call.args # "UNSPECIFIED" /\ order # None
    BY <2>1 DEF Refusal, Found
  <2>3. slot[k].call.args \in PaymentMethods
    BY <1>1, <2>1, <2>2 DEF SlotOK, OnTheWay
  <2>4. OrderOK'
    BY <2>1, <2>2, <2>3 DEF ApiInv, OrderOK, OrderStatuses
  <2>5. Returned(slot[k].call.op, PayOrderReply)
    BY <2>1 DEF Returned, PayOrderReply, Typed, StatusOf, encodePayOrderResponse
  <2> QED BY <2>1, <2>4, <2>5, HandlerKeeps
<1>3. CASE Cancel(k)
  <2>1. /\ slot[k].stage = "service" /\ slot[k].call.op = "cancelOrder" /\ UNCHANGED spaced
        /\ Refusal(k) = "none" /\ Replies(k, CancelOrderReply)
        /\ order' = [order EXCEPT !.status = "CANCELLED"]
    BY <1>3 DEF Cancel, Serving
  <2>2. order # None
    BY <2>1 DEF Refusal, Found
  <2>3. OrderOK'
    BY <2>1, <2>2 DEF ApiInv, OrderOK, OrderStatuses
  <2>4. Returned(slot[k].call.op, CancelOrderReply)
    BY <2>1 DEF Returned, CancelOrderReply, Typed, StatusOf, encodeCancelOrderResponse
  <2> QED BY <2>1, <2>3, <2>4, HandlerKeeps
<1>4. ASSUME NEW error, error \notin {"none", "ErrUnauthorized"}, Replies(k, Erroneous(error)),
             Serving(k, "payOrder") \/ Serving(k, "cancelOrder"), UNCHANGED order
      PROVE  ApiInv'
  <2>1. slot[k].stage = "service" /\ slot[k].call.op # "getOrder" /\ UNCHANGED spaced
    BY <1>4 DEF Serving
  <2>2. Returned(slot[k].call.op, Erroneous(error))
    BY <1>4, <2>1 DEF Returned, Erroneous
  <2>3. OrderOK'
    BY <1>4 DEF ApiInv, OrderOK
  <2> QED BY <1>4, <2>1, <2>2, <2>3, HandlerKeeps
<1>5. CASE OrderRefused(k)
  <2>1. Refusal(k) \notin {"none", "ErrUnauthorized"}
    BY <1>5 DEF OrderRefused, Refusal
  <2> QED BY <1>4, <1>5, <2>1 DEF OrderRefused
<1>6. ASSUME NEW error \in PayErrors \cup CancelErrors, OrderFails(k, error) PROVE ApiInv'
  <2>1. error \notin {"none", "ErrUnauthorized"}
    BY DEF PayErrors, CancelErrors
  <2> QED BY <1>4, <1>6, <2>1 DEF OrderFails
<1> QED BY <1>2, <1>3, <1>5, <1>6

\* Every step keeps the invariant.
LEMMA ApiStep == ApiInv /\ [Next]_vars => ApiInv'
<1> SUFFICES ASSUME ApiInv, [Next]_vars PROVE ApiInv'
  OBVIOUS
<1>1. ASSUME NEW k \in Instances, Finish(k) PROVE ApiInv'
  <2>1. slot' = [slot EXCEPT ![k] = Idle] /\ UNCHANGED <<order, spaced>>
    BY <1>1 DEF Finish
  <2>2. SlotsOK' /\ OrderOK'
    <3>1. MovesOn(k)
      BY <2>1 DEF MovesOn
    <3> QED BY <2>1, <3>1, MovesOnOK DEF ApiInv, OrderOK
  <2>3. slot'[k] = Idle /\ \A j \in Instances \ {k} : slot'[j] = slot[j]
    BY <2>1 DEF ApiInv, SlotsOK
  <2>4. SlotOK(slot'[k])
    BY <2>3 DEF SlotOK, OnTheWay, Answered, Idle
  <2> QED BY <2>1, <2>2, <2>3, <2>4, OneSlot
<1>2. CASE Assemble
  <2>1. order' = [order EXCEPT !.status = "ASSEMBLED"] /\ order # None /\ UNCHANGED <<slot, spaced>>
    BY <1>2 DEF Assemble
  <2>2. OrderOK'
    BY <2>1 DEF ApiInv, OrderOK, OrderStatuses
  <2> QED BY <2>1, <2>2 DEF ApiInv, SlotsOK
<1>3. CASE UNCHANGED <<order, slot, spaced>>
  BY <1>3 DEF ApiInv, SlotsOK, OrderOK
<1>4. ASSUME NEW k \in Instances, Arrive(k) PROVE ApiInv'
  BY <1>4, ArriveKeeps
<1>5. ASSUME NEW k \in Instances, Step(k) PROVE ApiInv'
  BY <1>1, <1>5, MiddlewaresKeep, RouterKeeps, CreateKeeps, GetKeeps, PayCancelKeep DEF Step
<1> QED BY <1>2, <1>3, <1>4, <1>5 DEF Next, Clock, Around, apiVars, vars

\* At first there is no order and no request.
LEMMA InitApi == Init => ApiInv
<1> SUFFICES ASSUME Init PROVE ApiInv
  OBVIOUS
<1>1. SlotsOK /\ OrderOK /\ spaced \in BOOLEAN
  BY InitIsLimits DEF Init, OrderOK
<1>2. SlotOK(Idle)
  BY DEF SlotOK, OnTheWay, Answered, Idle
<1>3. \A k \in Instances : slot[k] = Idle
  BY DEF Init
<1> QED BY <1>1, <1>2, <1>3 DEF ApiInv

\* The rows of an order and the requests on their way keep their types, no
\* answer has a status but those of the handlers and the middlewares, and no
\* account in Redis outgrows the burst, for any calls, requests and catalogue.
THEOREM ApiTypeCorrect == Spec => []TypeOK
<1>1. ApiInv /\ LimitInv => TypeOK
  <2> SUFFICES ASSUME ApiInv, LimitInv PROVE TypeOK
    OBVIOUS
  <2>1. order # None =>
          /\ order.status \in OrderStatuses
          /\ order.method \in PaymentMethods \cup {Nil}
          /\ order.tx \in {Nil, TxUuid}
          /\ \A i \in DOMAIN order.items : order.items[i].uuid \in DOMAIN TypeOf
    BY DEF ApiInv, OrderOK
  <2>2. ASSUME NEW k \in Instances
        PROVE  /\ slot[k].stage \in {"idle", "limit", "auth", "route", "service", "answered"}
               /\ slot[k].by \in {"none", "limiter", "auth", "router", "decoder", "api"}
               /\ slot[k].stage = "answered" =>
                    slot[k].answer.status \in {200, 201, 204, 400, 401, 404, 405, 409, 429, 500}
    BY DEF ApiInv, SlotOK, Answered, MiddlewareNames, ApiNames
  <2>3. spaced \in BOOLEAN
    BY DEF ApiInv
  <2>4. /\ \A key \in LimitKeys : backlog[key] \in 0 .. Emission * Burst
        /\ redisUp \in BOOLEAN
        /\ window.ticks \in 0 .. MaxWindow /\ window.losses \in 0 .. MaxLosses
    BY DEF LimitInv, LimitTypeOK
  <2> QED BY <2>1, <2>2, <2>3, <2>4, Zenon DEF TypeOK
<1>2. LimitSpec => []LimitInv
  <2>1. LimitInv /\ [LimitNext]_limitVars => LimitInv'
    BY LimitStep
  <2> QED BY <2>1, LimitInitInv, PTL DEF LimitSpec
<1>3. ApiInv /\ [Next]_vars => ApiInv'
  BY ApiStep
<1> QED BY <1>1, <1>2, <1>3, InitApi, ImplementsLimit, PTL DEF Spec
-----------------------------------------------------------------------------
(* What the handlers make of a request's body. *)

\* The bodies that come in are sequences of members with JSON values.
LEMMA Wire ==
  ASSUME NEW r \in OnTheWire
  PROVE  /\ Len(r.body.members) \in Nat /\ DOMAIN r.body.members = 1 .. Len(r.body.members)
         /\ \A i \in DOMAIN r.body.members : IsJson(r.body.members[i].value)
         /\ DOMAIN r.path = 1 .. Len(r.path)
         /\ Len(r.path) = 1 /\ r.path[1] = Root => r.path = <<Root>>
<1>1. \A i \in DOMAIN r.body.members : IsJson(r.body.members[i].value)
  BY WireAssumption DEF Range
<1>2. CASE r \in Requests
  <2>1. r.path \in Seq(STRING) /\ r.body.members \in Seq(Range(r.body.members))
    BY <1>2, WireAssumption
  <2>2. Len(r.path) = 1 /\ r.path[1] = Root => r.path = <<Root>>
    BY <2>1
  <2> QED BY <1>1, <2>1, <2>2
<1>3. ASSUME NEW c \in Calls \cup Polls, r = Sent(c)
      PROVE  /\ Len(r.body.members) \in Nat /\ DOMAIN r.body.members = 1 .. Len(r.body.members)
             /\ DOMAIN r.path = 1 .. Len(r.path)
             /\ Len(r.path) = 1 /\ r.path[1] = Root => r.path = <<Root>>
  <2>0. c.op \in Operations
    BY CallsAssumption
  <2>a. \A T, x : SchemaOK(T) =>
          Len(Encode(T, x).members) \in Nat /\ DOMAIN Encode(T, x).members = 1 .. Len(Encode(T, x).members)
    BY EncodedMembers DEF Written
  <2>b. Len(NoBody.members) = 0 /\ DOMAIN NoBody.members = 1 .. 0
    BY DEF NoBody
  <2>1. CASE c.op = "createOrder"
    <3>1. r.path = <<Root>> /\ r.body = Encode(CreateOrderRequest, c.x)
      BY <1>3, <2>1 DEF Sent, sendCreateOrder, HttpRequest, encodeCreateOrderRequest
    <3> QED BY <2>a, <3>1, CreateOrderRequestSchema
  <2>2. CASE c.op = "getOrder"
    <3>1. r.path = <<Root, c.uuid>> /\ r.body = NoBody
      BY <1>3, <2>2 DEF Sent, sendGetOrder, HttpRequest
    <3>2. Len(r.path) = 2 /\ DOMAIN r.path = 1 .. 2
      BY <3>1
    <3> QED BY <2>b, <3>1, <3>2
  <2>3. CASE c.op = "payOrder"
    <3>1. r.path = <<Root, c.uuid, "pay">> /\ r.body = Encode(PayOrderRequest, c.x)
      BY <1>3, <2>3 DEF Sent, sendPayOrder, HttpRequest, encodePayOrderRequest
    <3>2. Len(r.path) = 3 /\ DOMAIN r.path = 1 .. 3
      BY <3>1
    <3> QED BY <2>a, <3>1, <3>2, PayOrderRequestSchema
  <2>4. CASE c.op = "cancelOrder"
    <3>1. r.path = <<Root, c.uuid, "cancel">> /\ r.body = NoBody
      BY <1>3, <2>4 DEF Sent, sendCancelOrder, HttpRequest
    <3>2. Len(r.path) = 3 /\ DOMAIN r.path = 1 .. 3
      BY <3>1
    <3> QED BY <2>b, <3>1, <3>2
  <2> QED BY <2>0, <2>1, <2>2, <2>3, <2>4 DEF Operations
<1> QED BY <1>1, <1>2, <1>3 DEF OnTheWire

\* LastValue is the value of the last member of the key.
LEMMA LastMember ==
  ASSUME NEW body, Len(body.members) \in Nat, DOMAIN body.members = 1 .. Len(body.members), NEW key
  PROVE  /\ ~Mentions(body, key) => LastValue(body, key) = JNull
         /\ Mentions(body, key) =>
              \E i \in DOMAIN body.members :
                /\ body.members[i].key = key /\ LastValue(body, key) = body.members[i].value
                /\ \A j \in i + 1 .. Len(body.members) : body.members[j].key # key
<1> DEFINE ms == body.members
           at == {i \in DOMAIN ms : ms[i].key = key}
<1>1. LastValue(body, key) = IF at = {} THEN JNull ELSE ms[Max(at)].value
  BY DEF LastValue
<1>2. CASE ~Mentions(body, key)
  BY <1>1, <1>2 DEF Mentions
<1>3. CASE Mentions(body, key)
  <2>1. at # {} /\ at \in SUBSET (1 .. Len(ms))
    BY <1>3 DEF Mentions
  <2>2. Max(at) \in at /\ \A j \in at : j <= Max(at)
    BY <2>1, HasMax
  <2>3. PICK i \in at : i = Max(at)
    BY <2>2
  <2>4. LastValue(body, key) = ms[i].value /\ \A j \in at : j <= i
    BY <1>1, <2>1, <2>2, <2>3
  <2>5. i \in 1 .. Len(ms) /\ \A j \in i + 1 .. Len(ms) : j \in DOMAIN ms /\ ~(j <= i)
    OBVIOUS
  <2> QED BY <1>3, <2>4, <2>5
<1> QED BY <1>2, <1>3

\* What is decoded of a key is what its last member says.
LEMMA DecodedLast ==
  ASSUME NEW T, NEW body, Len(body.members) \in Nat, DOMAIN body.members = 1 .. Len(body.members),
         Decode(T, body).ok, NEW key \in Keys(T)
  PROVE  Decode(T, body).x[key] =
           IF Mentions(body, key) THEN DecodeValue(FieldType(T, key), LastValue(body, key))
           ELSE ZeroValue(FieldType(T, key))
<1>1. CASE Mentions(body, key)
  BY <1>1, LastMember, DecodeTakesLast
<1>2. CASE ~Mentions(body, key)
  BY <1>2, DecodeTakesLast DEF Mentions
<1> QED BY <1>1, <1>2

\* Reads, type by type (oas_json_gen.go).
LEMMA ReadsByType ==
  ASSUME NEW j
  PROVE  /\ Reads("UUID", j) <=> ReadsUUID(j)
         /\ Reads("int64", j) <=> j.t = "num"
         /\ Reads("string", j) <=> j.t = "str"
         /\ Reads("DateTime", j) <=> j.t = "str" /\ j.s \in Times
         /\ Reads("PaymentMethod", j) <=> ReadsPaymentMethod(j)
         /\ Reads("OrderStatus", j) <=> ReadsOrderStatus(j)
         /\ Reads("OptNilUUID", j) <=> j = JNull \/ ReadsUUID(j)
         /\ Reads("OptNilPaymentMethod", j) <=> j = JNull \/ ReadsPaymentMethod(j)
BY DEF Reads

\* The body of createOrder decodes when it is one the OpenAPI document
\* describes, and the service is given what its last members say.
LEMMA CreateDecoded ==
  ASSUME NEW r \in OnTheWire
  PROVE  LET d == decodeCreateOrderRequest(r)
             b == r.body
         IN  /\ d.ok <=>
                  /\ r.ctype = "json" /\ b.kind = "object" /\ ~b.trailing
                  /\ Mentions(b, "hull_uuid") /\ Mentions(b, "engine_uuid")
                  /\ Readable(b, "hull_uuid", FALSE) /\ Readable(b, "engine_uuid", FALSE)
                  /\ Readable(b, "shield_uuid", TRUE) /\ Readable(b, "weapon_uuid", TRUE)
             /\ d.ok =>
                  /\ \A key \in {"hull_uuid", "engine_uuid"} :
                       d.x[key] = LastValue(b, key) /\ ReadsUUID(LastValue(b, key))
                  /\ \A key \in {"shield_uuid", "weapon_uuid"} :
                       /\ Ptr(d.x[key]) = LastValue(b, key).s
                       /\ LastValue(b, key) = JNull \/ ReadsUUID(LastValue(b, key))
<1> DEFINE d == decodeCreateOrderRequest(r)
           b == r.body
           T == CreateOrderRequest
           F == T.fields
           ms == b.members
<1>0. Len(ms) \in Nat /\ DOMAIN ms = 1 .. Len(ms)
  BY Wire
<1>1. d.ok <=> r.ctype = "json" /\ b.kind # "none" /\ Decode(T, b).ok
  BY DEF decodeCreateOrderRequest, Undecoded
<1>2. d.ok => d = Decode(T, b)
  BY <1>1 DEF decodeCreateOrderRequest
<1> HIDE DEF d
<1>3. (\A i \in DOMAIN ms : Accepted(T, ms[i])) <=>
        /\ Readable(b, "hull_uuid", FALSE) /\ Readable(b, "engine_uuid", FALSE)
        /\ Readable(b, "shield_uuid", TRUE) /\ Readable(b, "weapon_uuid", TRUE)
  <2>1. ASSUME NEW i \in DOMAIN ms
        PROVE  Accepted(T, ms[i]) <=>
                 /\ ms[i].key \in {"hull_uuid", "engine_uuid"} => ReadsUUID(ms[i].value)
                 /\ ms[i].key \in {"shield_uuid", "weapon_uuid"} => ms[i].value = JNull \/ ReadsUUID(ms[i].value)
    BY CreateOrderRequestSchema, ReadsByType DEF Accepted
  <2> QED BY <2>1 DEF Readable, ReadsUUID
<1>4. (\A f \in DOMAIN F : ~Optional(F[f].type) => \E i \in 1 .. Len(ms) : ms[i].key = F[f].key) <=>
        Mentions(b, "hull_uuid") /\ Mentions(b, "engine_uuid")
  <2>1. /\ \A f \in DOMAIN F : ~Optional(F[f].type) => F[f].key \in {"hull_uuid", "engine_uuid"}
        /\ \A key \in {"hull_uuid", "engine_uuid"} : \E f \in DOMAIN F : ~Optional(F[f].type) /\ F[f].key = key
    BY CreateOrderRequestSchema, PlaceOfKey DEF Optional
  <2> QED BY <1>0, <2>1 DEF Mentions
<1>5. Decode(T, b).ok <=>
        /\ b.kind = "object" /\ ~b.trailing
        /\ Mentions(b, "hull_uuid") /\ Mentions(b, "engine_uuid")
        /\ \A i \in DOMAIN ms : Accepted(T, ms[i])
  <2> DEFINE Required == \A f \in DOMAIN F : ~Optional(F[f].type) => \E i \in 1 .. Len(ms) : ms[i].key = F[f].key
             All == \A i \in DOMAIN ms : Accepted(T, ms[i])
  <2>1. SchemaOK(T)
    BY CreateOrderRequestSchema
  <2>2. Decode(T, b).ok <=> (b.kind = "object" /\ ~b.trailing) /\ All /\ Required
    BY <1>0, <2>1, DecodeAccepts
  <2> HIDE DEF Required, All
  <2> QED BY <1>4, <2>2 DEF Required, All
<1>6. d.ok <=>
        /\ r.ctype = "json" /\ b.kind = "object" /\ ~b.trailing
        /\ Mentions(b, "hull_uuid") /\ Mentions(b, "engine_uuid")
        /\ Readable(b, "hull_uuid", FALSE) /\ Readable(b, "engine_uuid", FALSE)
        /\ Readable(b, "shield_uuid", TRUE) /\ Readable(b, "weapon_uuid", TRUE)
  BY <1>1, <1>3, <1>5
<1>7. ASSUME d.ok, NEW key \in {"hull_uuid", "engine_uuid"}
      PROVE  d.x[key] = LastValue(b, key) /\ ReadsUUID(LastValue(b, key))
  <2>1. key \in Keys(T) /\ FieldType(T, key) = "UUID" /\ Mentions(b, key) /\ Readable(b, key, FALSE)
    BY <1>6, <1>7, CreateOrderRequestSchema
  <2>2. d.x[key] = DecodeValue("UUID", LastValue(b, key))
    BY <1>0, <1>2, <1>1, <1>7, <2>1, DecodedLast
  <2>3. DecodeValue("UUID", LastValue(b, key)) = LastValue(b, key)
    BY DEF DecodeValue
  <2>4. ReadsUUID(LastValue(b, key))
    BY <1>0, <2>1, LastMember DEF Readable, ReadsUUID
  <2> QED BY <2>2, <2>3, <2>4
<1>8. ASSUME d.ok, NEW key \in {"shield_uuid", "weapon_uuid"}
      PROVE  /\ Ptr(d.x[key]) = LastValue(b, key).s
             /\ LastValue(b, key) = JNull \/ ReadsUUID(LastValue(b, key))
  <2>1. key \in Keys(T) /\ FieldType(T, key) = "OptNilUUID" /\ Readable(b, key, TRUE)
    BY <1>6, <1>8, CreateOrderRequestSchema
  <2>2. d.x[key] = IF Mentions(b, key) THEN DecodeValue("OptNilUUID", LastValue(b, key)) ELSE ZeroValue("OptNilUUID")
    BY <1>0, <1>2, <1>1, <1>8, <2>1, DecodedLast
  <2>3. ZeroValue("OptNilUUID") = Unset /\ \A j : DecodeValue("OptNilUUID", j) = DecodeOptNilUUID(j)
    BY DEF ZeroValue, Optional, DecodeValue
  <2>4. JNull.s = Nil /\ Ptr(Unset) = Nil /\ Ptr(SetToNull) = Nil /\ \A j : Ptr(NewOptNilUUID(j)) = j.s
    BY DEF JNull, Nil, Ptr, HasUUID, Unset, SetToNull, NewOptNilUUID
  <2>5. CASE Mentions(b, key)
    <3>1. LastValue(b, key) = JNull \/ ReadsUUID(LastValue(b, key))
      BY <1>0, <2>1, <2>5, LastMember DEF Readable, ReadsUUID
    <3>2. d.x[key] = DecodeOptNilUUID(LastValue(b, key))
      BY <2>2, <2>3, <2>5
    <3> QED BY <2>4, <3>1, <3>2 DEF DecodeOptNilUUID
  <2>6. CASE ~Mentions(b, key)
    <3>1. LastValue(b, key) = JNull
      BY <1>0, <2>6, LastMember
    <3> QED BY <2>2, <2>3, <2>4, <2>6, <3>1
  <2> QED BY <2>5, <2>6
<1> QED BY <1>6, <1>7, <1>8 DEF d

\* So does the body of payOrder, when the last method it names is a known one.
LEMMA PayDecoded ==
  ASSUME NEW r \in OnTheWire
  PROVE  LET d == decodePayOrderRequest(r)
             b == r.body
         IN  /\ d.ok <=>
                  /\ r.ctype = "json" /\ b.kind = "object" /\ ~b.trailing
                  /\ Mentions(b, "payment_method")
                  /\ \A i \in DOMAIN b.members :
                       b.members[i].key = "payment_method" => b.members[i].value.t = "str"
                  /\ LastValue(b, "payment_method").s \in PaymentMethods
             /\ d.ok => d.x["payment_method"] = LastValue(b, "payment_method")
<1> DEFINE d == decodePayOrderRequest(r)
           b == r.body
           T == PayOrderRequest
           F == T.fields
           ms == b.members
<1>0. Len(ms) \in Nat /\ DOMAIN ms = 1 .. Len(ms)
  BY Wire
<1>1. d.ok <=> r.ctype = "json" /\ b.kind # "none" /\ Decode(T, b).ok /\ ValidPayOrderRequest(Decode(T, b).x)
  BY DEF decodePayOrderRequest, Undecoded
<1>2. d.ok => d = Decode(T, b)
  BY <1>1 DEF decodePayOrderRequest
<1> HIDE DEF d
<1>3. (\A i \in DOMAIN ms : Accepted(T, ms[i])) <=>
        \A i \in DOMAIN ms : ms[i].key = "payment_method" => ms[i].value.t = "str"
  BY PayOrderRequestSchema, ReadsByType DEF Accepted, ReadsPaymentMethod
<1>4. (\A f \in DOMAIN F : ~Optional(F[f].type) => \E i \in 1 .. Len(ms) : ms[i].key = F[f].key) <=>
        Mentions(b, "payment_method")
  <2>1. /\ \A f \in DOMAIN F : F[f].key = "payment_method" /\ ~Optional(F[f].type)
        /\ \E f \in DOMAIN F : F[f].key = "payment_method"
    BY PayOrderRequestSchema, PlaceOfKey DEF Optional
  <2> QED BY <1>0, <2>1 DEF Mentions
<1>5. Decode(T, b).ok <=>
        /\ b.kind = "object" /\ ~b.trailing /\ Mentions(b, "payment_method")
        /\ \A i \in DOMAIN ms : Accepted(T, ms[i])
  <2> DEFINE Required == \A f \in DOMAIN F : ~Optional(F[f].type) => \E i \in 1 .. Len(ms) : ms[i].key = F[f].key
             All == \A i \in DOMAIN ms : Accepted(T, ms[i])
  <2>1. SchemaOK(T)
    BY PayOrderRequestSchema
  <2>2. Decode(T, b).ok <=> (b.kind = "object" /\ ~b.trailing) /\ All /\ Required
    BY <1>0, <2>1, DecodeAccepts
  <2> HIDE DEF Required, All
  <2> QED BY <1>4, <2>2 DEF Required, All
<1>6. ASSUME Decode(T, b).ok PROVE Decode(T, b).x["payment_method"] = LastValue(b, "payment_method")
  <2>1. Decode(T, b).x["payment_method"] = DecodeValue("PaymentMethod", LastValue(b, "payment_method"))
    BY <1>0, <1>5, <1>6, PayOrderRequestSchema, DecodedLast
  <2> QED BY <2>1 DEF DecodeValue
<1>7. ASSUME Decode(T, b).ok
      PROVE  ValidPayOrderRequest(Decode(T, b).x) <=> LastValue(b, "payment_method").s \in PaymentMethods
  BY <1>6, <1>7 DEF ValidPayOrderRequest, ValidPaymentMethod
<1> QED BY <1>1, <1>2, <1>3, <1>5, <1>6, <1>7 DEF d

\* A request with a route has the path of its operation.
LEMMA PathOfRoute ==
  ASSUME NEW r \in OnTheWire, NEW route \in Routes, Matches(route, r.path), route.method = r.method
  PROVE  \/ route.op = "createOrder" /\ r.method = "POST" /\ r.path = <<Root>>
         \/ route.op = "getOrder" /\ r.method = "GET"
         \/ route.op = "payOrder" /\ r.method = "POST" /\ Len(r.path) = 3 /\ r.path[3] = "pay"
         \/ route.op = "cancelOrder" /\ r.method = "POST" /\ Len(r.path) = 3 /\ r.path[3] = "cancel"
<1> DEFINE R1 == [path |-> <<Root>>, method |-> "POST", op |-> "createOrder"]
           R2 == [path |-> <<Root, "{order_uuid}">>, method |-> "GET", op |-> "getOrder"]
           R3 == [path |-> <<Root, "{order_uuid}", "pay">>, method |-> "POST", op |-> "payOrder"]
           R4 == [path |-> <<Root, "{order_uuid}", "cancel">>, method |-> "POST", op |-> "cancelOrder"]
<1>1. route = R1 \/ route = R2 \/ route = R3 \/ route = R4
  BY DEF Routes
<1>2. /\ R1.method = "POST" /\ R1.op = "createOrder" /\ R1.path = <<Root>>
      /\ R2.method = "GET" /\ R2.op = "getOrder"
      /\ R3.method = "POST" /\ R3.op = "payOrder" /\ R3.path = <<Root, "{order_uuid}", "pay">>
      /\ R4.method = "POST" /\ R4.op = "cancelOrder" /\ R4.path = <<Root, "{order_uuid}", "cancel">>
  OBVIOUS
<1>0. /\ Len(<<Root>>) = 1 /\ <<Root>>[1] = Root
      /\ \A x : Len(<<Root, "{order_uuid}", x>>) = 3 /\ <<Root, "{order_uuid}", x>>[3] = x
  BY Segments
<1> HIDE DEF R1, R2, R3, R4
<1>a. Len(R1.path) = 1 /\ R1.path[1] = Root
  BY <1>0, <1>2, Zenon
<1>b. Len(R3.path) = 3 /\ R3.path[3] = "pay"
  BY <1>0, <1>2, Zenon
<1>c. Len(R4.path) = 3 /\ R4.path[3] = "cancel"
  BY <1>0, <1>2, Zenon
<1>3. Len(r.path) = Len(route.path) /\ \A i \in DOMAIN r.path : i = 2 \/ r.path[i] = route.path[i]
  BY DEF Matches
<1>4. CASE route = R1
  <2>1. Len(route.path) = 1 /\ route.path[1] = Root
    BY <1>4, <1>a, Zenon
  <2>2. Len(r.path) = 1 /\ r.path[1] = Root
    BY <1>3, <2>1, Wire
  <2> QED BY <1>2, <1>4, <2>2, Wire
<1>5. CASE route = R2
  BY <1>2, <1>5
<1>6. CASE route = R3
  <2>1. Len(route.path) = 3 /\ route.path[3] = "pay"
    BY <1>6, <1>b, Zenon
  <2>2. Len(r.path) = 3 /\ r.path[3] = "pay"
    BY <1>3, <2>1, Wire
  <2> QED BY <1>2, <1>6, <2>2
<1>7. CASE route = R4
  <2>1. Len(route.path) = 3 /\ route.path[3] = "cancel"
    BY <1>7, <1>c, Zenon
  <2>2. Len(r.path) = 3 /\ r.path[3] = "cancel"
    BY <1>3, <2>1, Wire
  <2> QED BY <1>2, <1>7, <2>2
<1> QED BY <1>1, <1>4, <1>5, <1>6, <1>7

\* What a call of the service has to do with its request.
CallSays(r, call) ==
  /\ Documented(r)
  /\ call.op = "createOrder" =>
       /\ call.args.hull = LastValue(r.body, "hull_uuid").s
       /\ call.args.engine = LastValue(r.body, "engine_uuid").s
       /\ call.args.shield = LastValue(r.body, "shield_uuid").s
       /\ call.args.weapon = LastValue(r.body, "weapon_uuid").s
       /\ \A key \in {"hull_uuid", "engine_uuid"} : ReadsUUID(LastValue(r.body, key))
       /\ \A key \in {"shield_uuid", "weapon_uuid"} :
            LastValue(r.body, key) = JNull \/ ReadsUUID(LastValue(r.body, key))
  /\ call.op = "payOrder" =>
       /\ call.args = LastValue(r.body, "payment_method").s
       /\ LastValue(r.body, "payment_method").t = "str"
  /\ call.op # "createOrder" => call.uuid = r.path[2]

\* A handler calls the service with what the request says, and only for the
\* requests the OpenAPI document describes (oas_handlers_gen.go).
LEMMA HandleDocumented ==
  ASSUME NEW r \in OnTheWire, NEW route \in Routes, Matches(route, r.path), route.method = r.method
  PROVE  /\ Handle(route.op, r).error = "none" => CallSays(r, Handle(route.op, r))
         /\ Handle(route.op, r).error # "none" => ~Documented(r)
<1> DEFINE call == Handle(route.op, r)
           b == r.body
<1>0. /\ \A error : Failed(error).error = error
      /\ \A op, uuid, args : /\ ServiceCall(op, uuid, args).error = "none" /\ ServiceCall(op, uuid, args).op = op
                             /\ ServiceCall(op, uuid, args).uuid = uuid /\ ServiceCall(op, uuid, args).args = args
  BY DEF Failed, ServiceCall
<1>a. \/ route.op = "createOrder" /\ r.method = "POST" /\ r.path = <<Root>>
      \/ route.op = "getOrder" /\ r.method = "GET"
      \/ route.op = "payOrder" /\ r.method = "POST" /\ Len(r.path) = 3 /\ r.path[3] = "pay"
      \/ route.op = "cancelOrder" /\ r.method = "POST" /\ Len(r.path) = 3 /\ r.path[3] = "cancel"
  BY PathOfRoute
<1>b. Len(<<Root>>) = 1
  OBVIOUS
<1>1. CASE route.op = "createOrder"
  <2> DEFINE d == decodeCreateOrderRequest(r)
  <2>1. r.method = "POST" /\ r.path = <<Root>>
    BY <1>a, <1>1
  <2>2. Documented(r) <=>
          /\ r.ctype = "json" /\ b.kind = "object" /\ ~b.trailing
          /\ Mentions(b, "hull_uuid") /\ Mentions(b, "engine_uuid")
          /\ Readable(b, "hull_uuid", FALSE) /\ Readable(b, "engine_uuid", FALSE)
          /\ Readable(b, "shield_uuid", TRUE) /\ Readable(b, "weapon_uuid", TRUE)
    BY <2>1 DEF Documented
  <2>3. call = IF ~d.ok THEN Failed("DecodeRequest") ELSE ServiceCall("createOrder", Nil, PartsAsked(d.x))
    BY <1>1 DEF Handle, handleCreateOrderRequest
  <2>4. Documented(r) <=> d.ok
    BY <2>2, CreateDecoded
  <2>5. CASE ~d.ok
    BY <1>0, <2>3, <2>4, <2>5
  <2>6. CASE d.ok
    <3>1. call.error = "none" /\ call.op = "createOrder" /\ call.args = PartsAsked(d.x)
      BY <1>0, <2>3, <2>6
    <3>2. /\ call.args.hull = d.x["hull_uuid"].s /\ call.args.engine = d.x["engine_uuid"].s
          /\ call.args.shield = Ptr(d.x["shield_uuid"]) /\ call.args.weapon = Ptr(d.x["weapon_uuid"])
      BY <3>1 DEF PartsAsked
    <3>3. /\ \A key \in {"hull_uuid", "engine_uuid"} :
               d.x[key] = LastValue(b, key) /\ ReadsUUID(LastValue(b, key))
          /\ \A key \in {"shield_uuid", "weapon_uuid"} :
               /\ Ptr(d.x[key]) = LastValue(b, key).s
               /\ LastValue(b, key) = JNull \/ ReadsUUID(LastValue(b, key))
      BY <2>6, CreateDecoded
    <3> HIDE DEF d, call
    <3>4. CallSays(r, call)
      BY <2>4, <2>6, <3>1, <3>2, <3>3 DEF CallSays
    <3> QED BY <3>1, <3>4 DEF call
  <2> QED BY <2>5, <2>6
<1>2. CASE route.op = "getOrder"
  <2>1. Documented(r) <=> r.path[2] \in Uuids
    BY <1>a, <1>2 DEF Documented
  <2>2. call = IF r.path[2] \notin Uuids THEN Failed("DecodeParams") ELSE ServiceCall("getOrder", r.path[2], None)
    BY <1>2 DEF Handle, handleGetOrderRequest, decodeGetOrderParams
  <2> HIDE DEF call
  <2>3. CASE r.path[2] \in Uuids
    <3>1. call.error = "none" /\ call.op = "getOrder" /\ call.uuid = r.path[2]
      BY <1>0, <2>2, <2>3
    <3> QED BY <2>1, <2>3, <3>1 DEF CallSays, call
  <2>4. CASE r.path[2] \notin Uuids
    BY <1>0, <2>1, <2>2, <2>4 DEF call
  <2> QED BY <2>3, <2>4
<1>3. CASE route.op = "payOrder"
  <2> DEFINE d == decodePayOrderRequest(r)
             v == LastValue(b, "payment_method")
  <2>1. r.method = "POST" /\ r.path # <<Root>> /\ Len(r.path) = 3 /\ r.path[3] = "pay"
    BY <1>a, <1>b, <1>3
  <2>2. Documented(r) <=>
          /\ r.path[2] \in Uuids
          /\ r.ctype = "json" /\ b.kind = "object" /\ ~b.trailing
          /\ Mentions(b, "payment_method")
          /\ \A i \in DOMAIN b.members : b.members[i].key = "payment_method" => b.members[i].value.t = "str"
          /\ v.s \in PaymentMethods
    BY <2>1 DEF Documented
  <2>3. call = IF r.path[2] \notin Uuids THEN Failed("DecodeParams")
               ELSE IF ~d.ok THEN Failed("DecodeRequest")
               ELSE ServiceCall("payOrder", r.path[2], PaymentMethodFromApiToModel(d.x["payment_method"].s))
    BY <1>3 DEF Handle, handlePayOrderRequest, decodePayOrderParams
  <2>4. /\ d.ok <=>
             /\ r.ctype = "json" /\ b.kind = "object" /\ ~b.trailing
             /\ Mentions(b, "payment_method")
             /\ \A i \in DOMAIN b.members : b.members[i].key = "payment_method" => b.members[i].value.t = "str"
             /\ v.s \in PaymentMethods
        /\ d.ok => d.x["payment_method"] = v
    BY PayDecoded
  <2> HIDE DEF d, call, v
  <2>5. Documented(r) <=> r.path[2] \in Uuids /\ d.ok
    BY <2>2, <2>4
  <2>6. CASE r.path[2] \in Uuids /\ d.ok
    <3>1. /\ call.error = "none" /\ call.op = "payOrder" /\ call.uuid = r.path[2]
          /\ call.args = PaymentMethodFromApiToModel(v.s)
      BY <1>0, <2>3, <2>4, <2>6
    <3>2. call.args = v.s
      BY <2>4, <2>6, <3>1 DEF PaymentMethodFromApiToModel
    <3>3. v.t = "str"
      <4>1. /\ Mentions(b, "payment_method")
            /\ \A i \in DOMAIN b.members : b.members[i].key = "payment_method" => b.members[i].value.t = "str"
        BY <2>4, <2>6
      <4> QED BY <4>1, LastMember, Wire DEF v
    <3> QED BY <2>5, <2>6, <3>1, <3>2, <3>3 DEF CallSays, call, v
  <2>7. CASE ~(r.path[2] \in Uuids /\ d.ok)
    <3>1. call.error # "none"
      BY <1>0, <2>3, <2>7
    <3> QED BY <2>5, <2>7, <3>1 DEF call
  <2> QED BY <2>6, <2>7
<1>4. CASE route.op = "cancelOrder"
  <2>0. Len(r.path) = 3 /\ r.path[3] # "pay" /\ r.path # <<Root>>
    BY <1>a, <1>b, <1>4
  <2>1. Documented(r) <=> r.path[2] \in Uuids
    BY <2>0 DEF Documented
  <2>2. call = IF r.path[2] \notin Uuids THEN Failed("DecodeParams") ELSE ServiceCall("cancelOrder", r.path[2], None)
    BY <1>4 DEF Handle, handleCancelOrderRequest, decodeCancelOrderParams
  <2> HIDE DEF call
  <2>3. CASE r.path[2] \in Uuids
    <3>1. call.error = "none" /\ call.op = "cancelOrder" /\ call.uuid = r.path[2]
      BY <1>0, <2>2, <2>3
    <3> QED BY <2>1, <2>3, <3>1 DEF CallSays, call
  <2>4. CASE r.path[2] \notin Uuids
    BY <1>0, <2>1, <2>2, <2>4 DEF call
  <2> QED BY <2>3, <2>4
<1> QED BY <1>a, <1>1, <1>2, <1>3, <1>4

\* What a caller of the generated client asked for, an optional part.
WantedPart(c, key) == IF c.x[key].set /\ ~c.x[key].null THEN c.x[key].value.s ELSE Nil

\* The optional parts of a call of the generated client arrive, null and
\* absent alike (oas_request_encoders_gen.go, oas_request_decoders_gen.go).
LEMMA PartsArrive ==
  ASSUME NEW c, c.op = "createOrder", decodeCreateOrderRequest(Sent(c)).ok,
         NEW key \in {"shield_uuid", "weapon_uuid"}
  PROVE  Ptr(decodeCreateOrderRequest(Sent(c)).x[key]) = WantedPart(c, key)
<1> DEFINE T == CreateOrderRequest
           d == Decode(T, Encode(T, c.x))
           v == c.x[key]
<1>1. Sent(c).body = Encode(T, c.x)
  BY DEF Sent, sendCreateOrder, HttpRequest, encodeCreateOrderRequest
<1>2. decodeCreateOrderRequest(Sent(c)) = d
  BY <1>1 DEF decodeCreateOrderRequest, Undecoded
<1> HIDE DEF d, v
<1>3. PICK i \in DOMAIN T.fields : T.fields[i].key = key /\ T.fields[i].type = "OptNilUUID"
  BY CreateOrderRequestSchema, PlaceOfKey
<1>4. /\ Emitted(T.fields[i], c.x) <=> v.set
      /\ ZeroValue("OptNilUUID") = Unset
      /\ EncodeValue("OptNilUUID", v) = EncodeOptNilUUID(v)
      /\ \A j : DecodeValue("OptNilUUID", j) = DecodeOptNilUUID(j)
  BY <1>3 DEF Emitted, Optional, ZeroValue, EncodeValue, DecodeValue, v
<1>5. /\ v.set => d.x[key] = DecodeOptNilUUID(EncodeOptNilUUID(v))
      /\ ~v.set => d.x[key] = Unset
  <2>1. SchemaOK(T) /\ d.ok
    BY <1>2, CreateOrderRequestSchema
  <2>2. d.x[key] = IF Emitted(T.fields[i], c.x) THEN DecodeValue("OptNilUUID", EncodeValue("OptNilUUID", c.x[key]))
                   ELSE ZeroValue("OptNilUUID")
    BY <1>3, <2>1, EncodeThenDecode DEF d
  <2> QED BY <1>4, <2>2 DEF v
<1>6. JNull.s = Nil /\ Ptr(Unset) = Nil /\ Ptr(SetToNull) = Nil /\ \A j : Ptr(NewOptNilUUID(j)) = j.s
  BY DEF JNull, Nil, Ptr, HasUUID, Unset, SetToNull, NewOptNilUUID
<1>7. CASE ~v.set
  BY <1>2, <1>5, <1>6, <1>7 DEF WantedPart, v
<1>8. CASE v.set /\ v.null
  <2>1. d.x[key] = SetToNull
    BY <1>5, <1>8 DEF EncodeOptNilUUID, DecodeOptNilUUID
  <2> QED BY <1>2, <1>6, <1>8, <2>1 DEF WantedPart, v
<1>9. CASE v.set /\ ~v.null
  <2>1. d.x[key] = IF v.value = JNull THEN SetToNull ELSE NewOptNilUUID(v.value)
    BY <1>5, <1>9 DEF EncodeOptNilUUID, DecodeOptNilUUID
  <2>2. Ptr(d.x[key]) = v.value.s
    BY <1>6, <2>1
  <2> QED BY <1>2, <1>9, <2>2 DEF WantedPart, v
<1> QED BY <1>7, <1>8, <1>9
-----------------------------------------------------------------------------
(* What the client makes of an answer. *)

\* The values of a struct are of the types of its fields.
Sound(T, x) ==
  /\ x = [key \in Keys(T) |-> x[key]]
  /\ \A key \in Keys(T) : Fits(FieldType(T, key), x[key])

\* A struct that is sound comes back.
LEMMA SoundComesBack ==
  ASSUME NEW T, SchemaOK(T), NEW x, Sound(T, x)
  PROVE  Decode(T, Encode(T, x)).ok /\ Decode(T, Encode(T, x)).x = x
<1>1. \A i \in DOMAIN T.fields : Fits(T.fields[i].type, x[T.fields[i].key])
  BY PlaceOfKey DEF Sound
<1> QED BY <1>1, RoundTrip DEF Sound

\* The body of an error.
LEMMA ErrorSound ==
  ASSUME NEW code
  PROVE  Sound(Error, ErrorStruct(code)) /\ ErrorStruct(code)["code"] = JNum(code)
<1> DEFINE x == ErrorStruct(code)
<1>1. x = [key \in {"code", "message"} |-> x[key]] /\ x["code"] = JNum(code) /\ x["message"] = JStr("message")
  BY DEF ErrorStruct
<1>2. Fits("int64", JNum(code))
  BY ReadsByType DEF Fits, Optional, JNum
<1>3. \A text : Fits("string", JStr(text))
  BY ReadsByType DEF Fits, Optional, JStr
<1> HIDE DEF x
<1>4. PICK key, type : /\ key = "message" /\ type = "string" /\ x[key] = JStr(key)
                       /\ x = [l \in {"code", key} |-> x[l]]
                       /\ \A text : Fits(type, JStr(text))
                       /\ Keys(Error) = {"code", key} /\ FieldType(Error, key) = type
  BY <1>1, <1>3, AnswerSchemas, Zenon
<1>5. Sound(Error, x)
  BY <1>1, <1>2, <1>4, AnswerSchemas DEF Sound
<1> QED BY <1>1, <1>5 DEF x

AnswerTypes == ErrorTypes \cup {"CreateOrderResponse", "PayOrderResponse", "CancelOrderResponse", "OrderDto"}

\* The types of the answers (oas_schemas_gen.go).
LEMMA SchemasOfAnswers ==
  /\ \A type \in AnswerTypes : SchemaOK(Schema(type))
  /\ \A type \in ErrorTypes : Schema(type) = Error
  /\ "OrderDto" \notin ErrorTypes /\ Schema("OrderDto") = OrderDto
  /\ Schema("CreateOrderResponse") = CreateOrderResponse /\ Schema("PayOrderResponse") = PayOrderResponse
  /\ Schema("CancelOrderResponse") = CancelOrderResponse
  /\ "CreateOrderResponse" \notin ErrorTypes /\ "PayOrderResponse" \notin ErrorTypes
  /\ "CancelOrderResponse" \notin ErrorTypes
<1>0. /\ "OrderDto" \notin ErrorTypes /\ "CreateOrderResponse" \notin ErrorTypes
      /\ "PayOrderResponse" \notin ErrorTypes /\ "CancelOrderResponse" \notin ErrorTypes
  BY DEF ErrorTypes, CancelOrderErrors, CreateOrderErrors, CreateOrderUnauthorized, GetOrderErrors, PayOrderErrors
<1>1. \A type \in ErrorTypes : Schema(type) = Error
  BY <1>0 DEF Schema
<1>2. /\ Schema("OrderDto") = OrderDto /\ Schema("CreateOrderResponse") = CreateOrderResponse
      /\ Schema("PayOrderResponse") = PayOrderResponse /\ Schema("CancelOrderResponse") = CancelOrderResponse
  BY <1>0 DEF Schema
<1>3. \A type \in AnswerTypes : SchemaOK(Schema(type))
  BY <1>1, <1>2, AnswerSchemas, OrderDtoSchema DEF AnswerTypes
<1> QED BY <1>0, <1>1, <1>2, <1>3

\* What a handler returns: a sound struct of one of its operation's types,
\* with the code of the status it is sent with if it is an error, or an error.
ReplySound(op, reply) ==
  /\ Returned(op, reply)
  /\ reply.error = "none" =>
       /\ Sound(Schema(reply.type), reply.x)
       /\ reply.type = "OrderDto" => ValidOrderDto(reply.x)
       /\ reply.type \in ErrorTypes => reply.x["code"] = JNum(StatusOf(op)[reply.type])

\* The types an operation answers with.
LEMMA TypesOfOperation == \A op \in Operations : DOMAIN StatusOf(op) \subseteq AnswerTypes
<1> USE DEF AnswerTypes, ErrorTypes, CancelOrderErrors, CreateOrderErrors, CreateOrderUnauthorized,
            GetOrderErrors, PayOrderErrors
<1>1. DOMAIN StatusOf("createOrder") \subseteq AnswerTypes
  BY DEF StatusOf, encodeCreateOrderResponse
<1>2. DOMAIN StatusOf("getOrder") \subseteq AnswerTypes
  BY DEF StatusOf, encodeGetOrderResponse
<1>3. DOMAIN StatusOf("payOrder") \subseteq AnswerTypes
  BY DEF StatusOf, encodePayOrderResponse
<1>4. DOMAIN StatusOf("cancelOrder") \subseteq AnswerTypes
  BY DEF StatusOf, encodeCancelOrderResponse
<1> QED BY <1>1, <1>2, <1>3, <1>4 DEF Operations

\* What the client makes of an error that the decoders or a handler report.
LEMMA ResultOfError ==
  ASSUME NEW op \in Operations, NEW error, error # "ErrUnauthorized",
         mapError(error) \in DOMAIN TypeAt(op)
  PROVE  LET r == Result(op, ErrorHandler(error))
         IN  r.ok /\ r.type \in ErrorTypes /\ r.x["code"] = JNum(ErrorHandler(error).status)
<1> DEFINE code == mapError(error)
           a == ErrorHandler(error)
           type == TypeAt(op)[code]
<1>1. a.status = code /\ a.ctype = "json" /\ a.body = Encode(Error, ErrorStruct(code))
  BY DEF ErrorHandler
<1>2. code \in {400, 404, 409, 500}
  BY CodeOfError
<1> HIDE DEF a, code
<1>3. type \in ErrorTypes
  BY <1>2, ErrorTypeOf DEF code
<1>4. Schema(type) = Error /\ type # "OrderDto"
  BY <1>3, SchemasOfAnswers
<1> HIDE DEF type
<1>5. Decode(Error, a.body).ok /\ Decode(Error, a.body).x = ErrorStruct(code)
  BY <1>1, AnswerSchemas, ErrorSound, SoundComesBack
<1>6. Result(op, a) = [ok |-> TRUE, type |-> type, x |-> Decode(Error, a.body).x]
  BY <1>1, <1>4, <1>5 DEF Result, type, code
<1>7. Result(op, a).ok /\ Result(op, a).type = type /\ Result(op, a).x = Decode(Error, a.body).x
  BY <1>6
<1> QED BY <1>1, <1>3, <1>5, <1>7, ErrorSound DEF a

\* And of an answer that a handler returns: what the handler meant.
LEMMA ResultOfReply ==
  ASSUME NEW op \in Operations, NEW reply, ReplySound(op, reply)
  PROVE  LET a == Response(op, reply)
             r == Result(op, a)
         IN  /\ r.ok
             /\ reply.error = "none" => r.type = reply.type /\ r.x = reply.x
             /\ reply.error # "none" => r.type \in ErrorTypes
             /\ r.type \in ErrorTypes => r.x["code"] = JNum(a.status)
<1> DEFINE a == Response(op, reply)
           r == Result(op, a)
<1>1. CASE reply.error = "none"
  <2> DEFINE type == reply.type
             status == StatusOf(op)[type]
  <2>1. type \in DOMAIN StatusOf(op)
    BY <1>1 DEF ReplySound, Returned
  <2>2. a.status = status /\ a.ctype = "json" /\ a.body = Encode(Schema(type), reply.x)
    BY <1>1 DEF Response
  <2> HIDE DEF a
  <2>3. status \in DOMAIN TypeAt(op) /\ TypeAt(op)[status] = type
    BY <2>1, EncodedThenDecoded
  <2>4. SchemaOK(Schema(type))
    BY <2>1, TypesOfOperation, SchemasOfAnswers
  <2>5. Decode(Schema(type), a.body).ok /\ Decode(Schema(type), a.body).x = reply.x
    BY <1>1, <2>2, <2>4, SoundComesBack DEF ReplySound
  <2>6. type = "OrderDto" => ValidOrderDto(reply.x)
    BY <1>1 DEF ReplySound
  <2> HIDE DEF status
  <2>7. Result(op, a) = [ok |-> TRUE, type |-> type, x |-> Decode(Schema(type), a.body).x]
    BY <2>2, <2>3, <2>5, <2>6 DEF Result
  <2>8. Result(op, a).ok /\ Result(op, a).type = type /\ Result(op, a).x = reply.x
    BY <2>5, <2>7
  <2>9. type \in ErrorTypes => reply.x["code"] = JNum(status)
    BY <1>1 DEF ReplySound, status
  <2> QED BY <1>1, <2>2, <2>8, <2>9 DEF a
<1>2. CASE reply.error # "none"
  <2>1. a = ErrorHandler(reply.error) /\ reply.error # "ErrUnauthorized" /\ op # "getOrder"
    BY <1>2 DEF Response, ReplySound, Returned
  <2>2. mapError(reply.error) \in DOMAIN TypeAt(op)
    BY <2>1, CodeOfError, StatusesKnown DEF Operations
  <2> QED BY <1>2, <2>1, <2>2, ResultOfError
<1> QED BY <1>1, <1>2
-----------------------------------------------------------------------------
(* What the rows of an order say. *)

\* The loop over an order's items is well defined.
LEMMA PricesLoop ==
  ASSUME NEW items, Len(items) \in Nat
  PROVE  /\ Prices(items)[0] = 0
         /\ \A i \in 1 .. Len(items) : Prices(items)[i] = Prices(items)[i - 1] + items[i].price
<1> DEFINE Sum(n, g) == [i \in 0 .. n |-> IF i = 0 THEN 0 ELSE g[i - 1] + items[i].price]
           S == {n \in Nat : n <= Len(items) => \E g : g = Sum(n, g)}
<1>1. 0 \in S
  <2>1. [i \in 0 .. 0 |-> 0] = Sum(0, [i \in 0 .. 0 |-> 0])
    OBVIOUS
  <2> QED BY <2>1
<1>2. ASSUME NEW n \in Nat, n \in S PROVE n + 1 \in S
  <2> SUFFICES ASSUME n + 1 <= Len(items) PROVE \E g : g = Sum(n + 1, g)
    OBVIOUS
  <2>1. PICK g : g = Sum(n, g)
    BY <1>2
  <2> DEFINE h == [i \in 0 .. n + 1 |-> IF i <= n THEN g[i] ELSE g[n] + items[n + 1].price]
  <2>2. \A i \in 0 .. n + 1 : h[i] = IF i = 0 THEN 0 ELSE h[i - 1] + items[i].price
    BY <2>1
  <2>3. h = Sum(n + 1, h)
    BY <2>2
  <2> QED BY <2>3
<1>3. \E g : g = Sum(Len(items), g)
  <2> HIDE DEF S
  <2>1. Len(items) \in S
    BY <1>1, <1>2, Induction
  <2> QED BY <2>1 DEF S
<1>4. Prices(items) = Sum(Len(items), Prices(items))
  BY <1>3 DEF Prices
<1> QED BY <1>4

\* The only item of a type is the last; without one there is a nil pointer.
LEMMA OnlyOfType ==
  ASSUME NEW items, NEW n \in Nat, DOMAIN items = 1 .. n, NEW type
  PROVE  /\ \A i \in 1 .. n :
              items[i].type = type /\ (\A j \in 1 .. n : items[j].type = type => j = i) =>
                LastOfType(items, type) = items[i].uuid
         /\ (\A j \in 1 .. n : items[j].type # type) => LastOfType(items, type) = Nil
<1> DEFINE at == {i \in DOMAIN items : items[i].type = type}
<1>1. LastOfType(items, type) = IF at = {} THEN Nil ELSE items[Max(at)].uuid
  BY DEF LastOfType
<1>2. ASSUME NEW i \in 1 .. n, items[i].type = type, \A j \in 1 .. n : items[j].type = type => j = i
      PROVE  LastOfType(items, type) = items[i].uuid
  <2>1. at # {} /\ at \in SUBSET (1 .. n) /\ \A j \in at : j = i
    BY <1>2
  <2>2. Max(at) \in at
    BY <2>1, HasMax
  <2>3. Max(at) = i
    BY <2>1, <2>2
  <2> HIDE DEF at
  <2> QED BY <1>1, <2>1, <2>3
<1>3. ASSUME \A j \in 1 .. n : items[j].type # type PROVE LastOfType(items, type) = Nil
  BY <1>1, <1>3
<1> QED BY <1>2, <1>3

\* The rows of an order: the price of its parts, and each part in its slot.
ShowsParts(items, parts) ==
  /\ LastOfType(items, "HULL") = parts.hull /\ LastOfType(items, "ENGINE") = parts.engine
  /\ LastOfType(items, "SHIELD") = parts.shield /\ LastOfType(items, "WEAPON") = parts.weapon
  /\ TotalPrice(items) = PriceOf[parts.hull] + PriceOf[parts.engine]
                           + (IF parts.shield = Nil THEN 0 ELSE PriceOf[parts.shield])
                           + (IF parts.weapon = Nil THEN 0 ELSE PriceOf[parts.weapon])

\* getOrderItemByType and the sum of the prices (api/order/v1/get.go, model/order.go) give back
\* the parts an order was created with.
LEMMA ListedShows ==
  ASSUME NEW parts, Buildable(parts)
  PROVE  ShowsParts(Listed(parts), parts) /\ TotalPrice(Listed(parts)) \in Int
<1> DEFINE l == Listed(parts)
<1>1. /\ parts.hull \in DOMAIN TypeOf /\ parts.engine \in DOMAIN TypeOf
      /\ parts.shield # Nil => parts.shield \in DOMAIN TypeOf
      /\ parts.weapon # Nil => parts.weapon \in DOMAIN TypeOf
      /\ TypeOf[parts.hull] = "HULL" /\ TypeOf[parts.engine] = "ENGINE"
      /\ parts.shield # Nil => TypeOf[parts.shield] = "SHIELD"
      /\ parts.weapon # Nil => TypeOf[parts.weapon] = "WEAPON"
  BY DEF Buildable
<1>2. /\ PriceOf[parts.hull] \in Int /\ PriceOf[parts.engine] \in Int
      /\ parts.shield # Nil => PriceOf[parts.shield] \in Int
      /\ parts.weapon # Nil => PriceOf[parts.weapon] \in Int
  BY <1>1, RowsAssumption
<1>3. \A u : Item(u).uuid = u /\ Item(u).type = TypeOf[u] /\ Item(u).price = PriceOf[u]
  BY DEF Item
<1>4. CASE parts.shield = Nil /\ parts.weapon = Nil
  <2>1. Len(l) = 2 /\ DOMAIN l = 1 .. 2 /\ l[1] = Item(parts.hull) /\ l[2] = Item(parts.engine)
    BY <1>4 DEF Listed, WhenGiven
  <2> HIDE DEF l
  <2>a. \A type :
          /\ \A i \in 1 .. 2 :
               l[i].type = type /\ (\A j \in 1 .. 2 : l[j].type = type => j = i) => LastOfType(l, type) = l[i].uuid
          /\ (\A j \in 1 .. 2 : l[j].type # type) => LastOfType(l, type) = Nil
    <3>1. 2 \in Nat
      OBVIOUS
    <3> QED BY <2>1, <3>1, OnlyOfType
  <2>b. /\ Prices(l)[0] = 0
        /\ \A i \in 1 .. 2 : Prices(l)[i] = Prices(l)[i - 1] + l[i].price
    BY <2>1, PricesLoop
  <2>c. Prices(l)[1] = Prices(l)[0] + l[1].price /\ Prices(l)[2] = Prices(l)[1] + l[2].price
    BY <2>b
  <2>2. \A j \in 1 .. 2 : j = 1 \/ j = 2
    OBVIOUS
  <2>3. l[1].type = "HULL" /\ l[2].type = "ENGINE" /\ l[1].uuid = parts.hull /\ l[2].uuid = parts.engine
    BY <1>1, <1>3, <2>1
  <2>4. /\ LastOfType(l, "HULL") = parts.hull /\ LastOfType(l, "ENGINE") = parts.engine
        /\ LastOfType(l, "SHIELD") = Nil /\ LastOfType(l, "WEAPON") = Nil
    BY <2>2, <2>3, <2>a
  <2>5. TotalPrice(l) = PriceOf[parts.hull] + PriceOf[parts.engine]
    BY <1>2, <1>3, <2>1, <2>b, <2>c DEF TotalPrice
  <2> QED BY <1>2, <1>4, <2>4, <2>5 DEF ShowsParts, l
<1>5. CASE parts.shield # Nil /\ parts.weapon = Nil
  <2>1. /\ Len(l) = 3 /\ DOMAIN l = 1 .. 3 /\ l[1] = Item(parts.hull) /\ l[2] = Item(parts.engine)
        /\ l[3] = Item(parts.shield)
    BY <1>5 DEF Listed, WhenGiven
  <2> HIDE DEF l
  <2>a. \A type :
          /\ \A i \in 1 .. 3 :
               l[i].type = type /\ (\A j \in 1 .. 3 : l[j].type = type => j = i) => LastOfType(l, type) = l[i].uuid
          /\ (\A j \in 1 .. 3 : l[j].type # type) => LastOfType(l, type) = Nil
    <3>1. 3 \in Nat
      OBVIOUS
    <3> QED BY <2>1, <3>1, OnlyOfType
  <2>b. /\ Prices(l)[0] = 0
        /\ \A i \in 1 .. 3 : Prices(l)[i] = Prices(l)[i - 1] + l[i].price
    BY <2>1, PricesLoop
  <2>c. Prices(l)[1] = Prices(l)[0] + l[1].price /\ Prices(l)[2] = Prices(l)[1] + l[2].price /\ Prices(l)[3] = Prices(l)[2] + l[3].price
    BY <2>b
  <2>2. \A j \in 1 .. 3 : j = 1 \/ j = 2 \/ j = 3
    OBVIOUS
  <2>3. /\ l[1].type = "HULL" /\ l[2].type = "ENGINE" /\ l[3].type = "SHIELD"
        /\ l[1].uuid = parts.hull /\ l[2].uuid = parts.engine /\ l[3].uuid = parts.shield
    BY <1>1, <1>3, <1>5, <2>1
  <2>4. /\ LastOfType(l, "HULL") = parts.hull /\ LastOfType(l, "ENGINE") = parts.engine
        /\ LastOfType(l, "SHIELD") = parts.shield /\ LastOfType(l, "WEAPON") = Nil
    BY <2>2, <2>3, <2>a
  <2>5. TotalPrice(l) = PriceOf[parts.hull] + PriceOf[parts.engine] + PriceOf[parts.shield]
    BY <1>2, <1>3, <1>5, <2>1, <2>b, <2>c DEF TotalPrice
  <2> QED BY <1>2, <1>5, <2>4, <2>5 DEF ShowsParts, l
<1>6. CASE parts.shield = Nil /\ parts.weapon # Nil
  <2>1. /\ Len(l) = 3 /\ DOMAIN l = 1 .. 3 /\ l[1] = Item(parts.hull) /\ l[2] = Item(parts.engine)
        /\ l[3] = Item(parts.weapon)
    BY <1>6 DEF Listed, WhenGiven
  <2> HIDE DEF l
  <2>a. \A type :
          /\ \A i \in 1 .. 3 :
               l[i].type = type /\ (\A j \in 1 .. 3 : l[j].type = type => j = i) => LastOfType(l, type) = l[i].uuid
          /\ (\A j \in 1 .. 3 : l[j].type # type) => LastOfType(l, type) = Nil
    <3>1. 3 \in Nat
      OBVIOUS
    <3> QED BY <2>1, <3>1, OnlyOfType
  <2>b. /\ Prices(l)[0] = 0
        /\ \A i \in 1 .. 3 : Prices(l)[i] = Prices(l)[i - 1] + l[i].price
    BY <2>1, PricesLoop
  <2>c. Prices(l)[1] = Prices(l)[0] + l[1].price /\ Prices(l)[2] = Prices(l)[1] + l[2].price /\ Prices(l)[3] = Prices(l)[2] + l[3].price
    BY <2>b
  <2>2. \A j \in 1 .. 3 : j = 1 \/ j = 2 \/ j = 3
    OBVIOUS
  <2>3. /\ l[1].type = "HULL" /\ l[2].type = "ENGINE" /\ l[3].type = "WEAPON"
        /\ l[1].uuid = parts.hull /\ l[2].uuid = parts.engine /\ l[3].uuid = parts.weapon
    BY <1>1, <1>3, <1>6, <2>1
  <2>4. /\ LastOfType(l, "HULL") = parts.hull /\ LastOfType(l, "ENGINE") = parts.engine
        /\ LastOfType(l, "SHIELD") = Nil /\ LastOfType(l, "WEAPON") = parts.weapon
    BY <2>2, <2>3, <2>a
  <2>5. TotalPrice(l) = PriceOf[parts.hull] + PriceOf[parts.engine] + PriceOf[parts.weapon]
    BY <1>2, <1>3, <1>6, <2>1, <2>b, <2>c DEF TotalPrice
  <2> QED BY <1>2, <1>6, <2>4, <2>5 DEF ShowsParts, l
<1>7. CASE parts.shield # Nil /\ parts.weapon # Nil
  <2>1. /\ Len(l) = 4 /\ DOMAIN l = 1 .. 4 /\ l[1] = Item(parts.hull) /\ l[2] = Item(parts.engine)
        /\ l[3] = Item(parts.shield) /\ l[4] = Item(parts.weapon)
    BY <1>7 DEF Listed, WhenGiven
  <2> HIDE DEF l
  <2>a. \A type :
          /\ \A i \in 1 .. 4 :
               l[i].type = type /\ (\A j \in 1 .. 4 : l[j].type = type => j = i) => LastOfType(l, type) = l[i].uuid
          /\ (\A j \in 1 .. 4 : l[j].type # type) => LastOfType(l, type) = Nil
    <3>1. 4 \in Nat
      OBVIOUS
    <3> QED BY <2>1, <3>1, OnlyOfType
  <2>b. /\ Prices(l)[0] = 0
        /\ \A i \in 1 .. 4 : Prices(l)[i] = Prices(l)[i - 1] + l[i].price
    BY <2>1, PricesLoop
  <2>c. Prices(l)[1] = Prices(l)[0] + l[1].price /\ Prices(l)[2] = Prices(l)[1] + l[2].price /\ Prices(l)[3] = Prices(l)[2] + l[3].price /\ Prices(l)[4] = Prices(l)[3] + l[4].price
    BY <2>b
  <2>2. \A j \in 1 .. 4 : j = 1 \/ j = 2 \/ j = 3 \/ j = 4
    OBVIOUS
  <2>3. /\ l[1].type = "HULL" /\ l[2].type = "ENGINE" /\ l[3].type = "SHIELD" /\ l[4].type = "WEAPON"
        /\ l[1].uuid = parts.hull /\ l[2].uuid = parts.engine
        /\ l[3].uuid = parts.shield /\ l[4].uuid = parts.weapon
    BY <1>1, <1>3, <1>7, <2>1
  <2>4. /\ LastOfType(l, "HULL") = parts.hull /\ LastOfType(l, "ENGINE") = parts.engine
        /\ LastOfType(l, "SHIELD") = parts.shield /\ LastOfType(l, "WEAPON") = parts.weapon
    BY <2>2, <2>3, <2>a
  <2>5. TotalPrice(l) = PriceOf[parts.hull] + PriceOf[parts.engine] + PriceOf[parts.shield] + PriceOf[parts.weapon]
    BY <1>2, <1>3, <1>7, <2>1, <2>b, <2>c DEF TotalPrice
  <2> QED BY <1>2, <1>7, <2>4, <2>5 DEF ShowsParts, l
<1> QED BY <1>4, <1>5, <1>6, <1>7
-----------------------------------------------------------------------------
(* What the handlers return. *)

\* The values the handlers put into their answers are of their fields' types.
LEMMA ValuesFit ==
  /\ \A u \in Uuids : Fits("UUID", JStr(u))
  /\ \A n : Fits("int64", JNum(n))
  /\ \A s : Fits("OrderStatus", JStr(s))
  /\ Fits("DateTime", JStr(Now))
  /\ \A u \in Uuids \cup {Nil} : Fits("OptNilUUID", OptNilUUIDFromPtr(u))
  /\ \A m : Fits("OptNilPaymentMethod", OptNilPaymentMethodFromPtr(m))
<1>0. \A s, n : /\ JStr(s).t = "str" /\ JStr(s).s = s /\ JNum(n).t = "num" /\ JStr(s) # JNull
                /\ NewOptNilUUID(s).value = s /\ NewOptNilPaymentMethod(s) = NewOptNilUUID(s)
  <2>1. JNull.t = "null" /\ \A s : JStr(s).t = "str"
    BY DEF JNull, JStr
  <2>2. \A s : JStr(s) # JNull
    BY <2>1
  <2> QED BY <2>2 DEF JStr, JNum, NewOptNilUUID, NewOptNilPaymentMethod
<1>1. \A u \in Uuids : Fits("UUID", JStr(u))
  BY <1>0, ReadsByType DEF Fits, Optional, ReadsUUID
<1>2. \A n : Fits("int64", JNum(n))
  BY <1>0, ReadsByType DEF Fits, Optional
<1>3. \A s : Fits("OrderStatus", JStr(s))
  BY <1>0, ReadsByType DEF Fits, Optional, ReadsOrderStatus
<1>4. Fits("DateTime", JStr(Now))
  BY <1>0, ReadsByType, RowsAssumption DEF Fits, Optional
<1>5. ASSUME NEW u \in Uuids \cup {Nil} PROVE Fits("OptNilUUID", OptNilUUIDFromPtr(u))
  <2>1. CASE u = Nil
    BY <2>1 DEF OptNilUUIDFromPtr, Fits, Optional
  <2>2. CASE u # Nil
    <3>1. OptNilUUIDFromPtr(u) = NewOptNilUUID(JStr(u))
      BY <2>2 DEF OptNilUUIDFromPtr
    <3>2. Reads("OptNilUUID", JStr(u))
      BY <1>0, <2>2, ReadsByType DEF ReadsUUID
    <3>3. NewOptNilUUID(JStr(u)).value = JStr(u) /\ JStr(u) # JNull
      BY <1>0
    <3> QED BY <3>1, <3>2, <3>3 DEF Fits, Optional
  <2> QED BY <2>1, <2>2
<1>6. ASSUME NEW m PROVE Fits("OptNilPaymentMethod", OptNilPaymentMethodFromPtr(m))
  <2> DEFINE api == PaymentMethodFromModelToApi(m)
  <2>1. OptNilPaymentMethodFromPtr(m) = IF api = Nil THEN Unset ELSE NewOptNilUUID(JStr(api))
    BY <1>0 DEF OptNilPaymentMethodFromPtr
  <2>2. Reads("OptNilPaymentMethod", JStr(api))
    BY <1>0, ReadsByType DEF ReadsPaymentMethod
  <2>3. NewOptNilUUID(JStr(api)).value = JStr(api) /\ JStr(api) # JNull
    BY <1>0
  <2> HIDE DEF api
  <2> QED BY <2>1, <2>2, <2>3 DEF Fits, Optional
<1> QED BY <1>1, <1>2, <1>3, <1>4, <1>5, <1>6

\* An error that a handler returns for the error handler.
LEMMA ErroneousSound ==
  ASSUME NEW op, op # "getOrder", NEW error, error \notin {"none", "ErrUnauthorized"}
  PROVE  ReplySound(op, Erroneous(error))
<1>1. Erroneous(error).error = error
  BY DEF Erroneous
<1> HIDE DEF Erroneous
<1> QED BY <1>1 DEF ReplySound, Returned

\* What createOrder, payOrder and cancelOrder answer when they succeed, and
\* getOrder when it does not.
LEMMA RepliesSound ==
  /\ \A items : ReplySound("createOrder", CreateOrderReply(items))
  /\ ReplySound("payOrder", PayOrderReply)
  /\ ReplySound("cancelOrder", CancelOrderReply)
  /\ \A error : ReplySound("getOrder", GetOrderError(error))
<1>0. \A type, x : Typed(type, x).error = "none" /\ Typed(type, x).type = type /\ Typed(type, x).x = x
  BY DEF Typed
<1>a. OrderUuid \in Uuids /\ TxUuid \in Uuids
  BY RowsAssumption
<1>1. ASSUME NEW items PROVE ReplySound("createOrder", CreateOrderReply(items))
  <2> DEFINE x == [key \in Keys(CreateOrderResponse) |->
                     IF key = "order_uuid" THEN JStr(OrderUuid) ELSE JNum(TotalPrice(items))]
             r == CreateOrderReply(items)
  <2>1. r.error = "none" /\ r.type = "CreateOrderResponse" /\ r.x = x
    BY <1>0 DEF CreateOrderReply
  <2>2. Sound(CreateOrderResponse, x)
    BY <1>a, ValuesFit, AnswerSchemas DEF Sound
  <2> HIDE DEF x, r
  <2>3. Returned("createOrder", r)
    BY <2>1 DEF Returned, StatusOf, encodeCreateOrderResponse
  <2>4. ReplySound("createOrder", r)
    BY <2>1, <2>2, <2>3, SchemasOfAnswers DEF ReplySound
  <2> QED BY <2>4 DEF r
<1>2. ReplySound("payOrder", PayOrderReply)
  <2> DEFINE x == [key \in Keys(PayOrderResponse) |-> JStr(TxUuid)]
             r == PayOrderReply
  <2>1. r.error = "none" /\ r.type = "PayOrderResponse" /\ r.x = x
    BY <1>0 DEF PayOrderReply
  <2>2. Sound(PayOrderResponse, x)
    BY <1>a, ValuesFit, AnswerSchemas DEF Sound
  <2> HIDE DEF x, r
  <2>3. Returned("payOrder", r)
    BY <2>1 DEF Returned, StatusOf, encodePayOrderResponse
  <2>4. ReplySound("payOrder", r)
    BY <2>1, <2>2, <2>3, SchemasOfAnswers DEF ReplySound
  <2> QED BY <2>4 DEF r
<1>3. ReplySound("cancelOrder", CancelOrderReply)
  <2> DEFINE x == [key \in {} |-> None]
             r == CancelOrderReply
  <2>1. r.error = "none" /\ r.type = "CancelOrderResponse" /\ r.x = x
    BY <1>0 DEF CancelOrderReply
  <2>2. Sound(CancelOrderResponse, x)
    BY AnswerSchemas DEF Sound
  <2> HIDE DEF x, r
  <2>3. Returned("cancelOrder", r)
    BY <2>1 DEF Returned, StatusOf, encodeCancelOrderResponse
  <2>4. ReplySound("cancelOrder", r)
    BY <2>1, <2>2, <2>3, SchemasOfAnswers DEF ReplySound
  <2> QED BY <2>4 DEF r
<1>4. ASSUME NEW type, NEW code, type \in DOMAIN StatusOf("getOrder"), type \in ErrorTypes,
             StatusOf("getOrder")[type] = code
      PROVE  ReplySound("getOrder", Typed(type, ErrorStruct(code)))
  <2>1. PICK r : r = Typed(type, ErrorStruct(code))
    OBVIOUS
  <2>2. r.error = "none" /\ r.type = type /\ r.x = ErrorStruct(code)
    BY <1>0, <2>1
  <2>3. Returned("getOrder", r)
    BY <1>4, <2>2 DEF Returned
  <2>4. Sound(Error, r.x) /\ r.x["code"] = JNum(code)
    BY <2>2, ErrorSound
  <2>5. Schema(type) = Error /\ type # "OrderDto"
    BY <1>4, SchemasOfAnswers
  <2>6. ReplySound("getOrder", r)
    BY <1>4, <2>2, <2>3, <2>4, <2>5 DEF ReplySound
  <2> QED BY <2>1, <2>6
<1>5. /\ \A type \in {"GetOrderNotFound", "GetOrderInternalServerError"} :
           type \in DOMAIN StatusOf("getOrder") /\ type \in ErrorTypes
      /\ StatusOf("getOrder")["GetOrderNotFound"] = 404 /\ StatusOf("getOrder")["GetOrderInternalServerError"] = 500
  BY DEF StatusOf, encodeGetOrderResponse, ErrorTypes, GetOrderErrors
<1>6. ASSUME NEW error PROVE ReplySound("getOrder", GetOrderError(error))
  BY <1>4, <1>5 DEF GetOrderError
<1> QED BY <1>1, <1>2, <1>3, <1>6

\* The order is the one its creator and its payer asked for: its rows are of
\* the parts of the request, each in its slot, and it has a method and a
\* transaction when it is paid.
Truth(o, said) ==
  \E parts :
    /\ Buildable(parts) /\ o.items = Listed(parts)
    /\ said["hull_uuid"] = JStr(parts.hull) /\ said["engine_uuid"] = JStr(parts.engine)
    /\ said["shield_uuid"] = (IF parts.shield = Nil THEN JNull ELSE JStr(parts.shield))
    /\ said["weapon_uuid"] = (IF parts.weapon = Nil THEN JNull ELSE JStr(parts.weapon))
    /\ said["payment_method"] = (IF o.method = Nil THEN JNull ELSE JStr(o.method))
    /\ o.status \in OrderStatuses
    /\ IF o.status \in {"PAID", "ASSEMBLED"} THEN o.method \in PaymentMethods /\ o.tx = TxUuid
       ELSE o.method = Nil /\ o.tx = Nil

\* What an answer of getOrder shows is what was asked for: GetTellsTruth of it.
Tells(x, shown) ==
  LET Shows(o, j) == IF j = JNull THEN ~(o.set /\ ~o.null) ELSE o.set /\ ~o.null /\ o.value = j
      said == shown.asked
      Price(key) == IF said[key] = JNull THEN 0 ELSE PriceOf[said[key].s]
  IN  /\ \A key \in {"hull_uuid", "engine_uuid"} : x[key] = said[key]
      /\ \A key \in {"shield_uuid", "weapon_uuid", "payment_method"} : Shows(x[key], said[key])
      /\ x["total_price"].n =
           Price("hull_uuid") + Price("engine_uuid") + Price("shield_uuid") + Price("weapon_uuid")
      /\ x["status"] = JStr(shown.status)
      /\ x["transaction_uuid"].set <=> shown.status \in {"PAID", "ASSEMBLED"}

\* The values of getOrder's answer, key by key.
LEMMA ValuesOfOrder ==
  ASSUME NEW o
  PROVE  LET r == GetOrderReply(o)
             parts == getOrderItemByType(o.items)
         IN  /\ r.error = "none" /\ r.type = "OrderDto" /\ r.x = [key \in Keys(OrderDto) |-> r.x[key]]
             /\ r.x["order_uuid"] = JStr(OrderUuid) /\ r.x["user_uuid"] = JStr(UserUuid)
             /\ r.x["hull_uuid"] = JStr(parts.hull) /\ r.x["engine_uuid"] = JStr(parts.engine)
             /\ r.x["shield_uuid"] = OptNilUUIDFromPtr(parts.shield)
             /\ r.x["weapon_uuid"] = OptNilUUIDFromPtr(parts.weapon)
             /\ r.x["total_price"] = JNum(TotalPrice(o.items))
             /\ r.x["transaction_uuid"] = OptNilUUIDFromPtr(o.tx)
             /\ r.x["payment_method"] = OptNilPaymentMethodFromPtr(o.method)
             /\ r.x["status"] = JStr(OrderStatusFromModelToApi(o.status))
             /\ r.x["created_at"] = JStr(Now)
<1> DEFINE r == GetOrderReply(o)
           parts == getOrderItemByType(o.items)
           V(key) == CASE key = "order_uuid" -> JStr(OrderUuid)
                       [] key = "user_uuid" -> JStr(UserUuid)
                       [] key = "hull_uuid" -> JStr(parts.hull)
                       [] key = "engine_uuid" -> JStr(parts.engine)
                       [] key = "shield_uuid" -> OptNilUUIDFromPtr(parts.shield)
                       [] key = "weapon_uuid" -> OptNilUUIDFromPtr(parts.weapon)
                       [] key = "total_price" -> JNum(TotalPrice(o.items))
                       [] key = "transaction_uuid" -> OptNilUUIDFromPtr(o.tx)
                       [] key = "payment_method" -> OptNilPaymentMethodFromPtr(o.method)
                       [] key = "status" -> JStr(OrderStatusFromModelToApi(o.status))
                       [] key = "created_at" -> JStr(Now)
<1>1. r = Typed("OrderDto", [key \in Keys(OrderDto) |-> V(key)])
  BY DEF GetOrderReply
<1> HIDE DEF r, parts
<1>2. /\ V("order_uuid") = JStr(OrderUuid) /\ V("user_uuid") = JStr(UserUuid)
      /\ V("hull_uuid") = JStr(parts.hull) /\ V("engine_uuid") = JStr(parts.engine)
      /\ V("shield_uuid") = OptNilUUIDFromPtr(parts.shield)
      /\ V("weapon_uuid") = OptNilUUIDFromPtr(parts.weapon)
      /\ V("total_price") = JNum(TotalPrice(o.items))
      /\ V("transaction_uuid") = OptNilUUIDFromPtr(o.tx)
      /\ V("payment_method") = OptNilPaymentMethodFromPtr(o.method)
      /\ V("status") = JStr(OrderStatusFromModelToApi(o.status))
      /\ V("created_at") = JStr(Now)
  OBVIOUS
<1> HIDE DEF V
<1>3. r.error = "none" /\ r.type = "OrderDto" /\ r.x = [key \in Keys(OrderDto) |-> V(key)]
  BY <1>1 DEF Typed
<1>4. \A key \in Keys(OrderDto) : r.x[key] = V(key)
  BY <1>3
<1>5. r.x = [key \in Keys(OrderDto) |-> r.x[key]]
  BY <1>3, <1>4
<1> QED BY <1>2, <1>3, <1>4, <1>5, OrderDtoSchema DEF r, parts

\* GetOrder of an order that is what was asked for shows what was asked for
\* (api/order/v1/get.go and the converters).
LEMMA OrderShown ==
  ASSUME NEW o, NEW said, Truth(o, said), NEW shown, shown.asked = said, shown.status = o.status
  PROVE  ReplySound("getOrder", GetOrderReply(o)) /\ Tells(GetOrderReply(o).x, shown)
<1>1. PICK parts :
        /\ Buildable(parts) /\ o.items = Listed(parts)
        /\ said["hull_uuid"] = JStr(parts.hull) /\ said["engine_uuid"] = JStr(parts.engine)
        /\ said["shield_uuid"] = (IF parts.shield = Nil THEN JNull ELSE JStr(parts.shield))
        /\ said["weapon_uuid"] = (IF parts.weapon = Nil THEN JNull ELSE JStr(parts.weapon))
        /\ said["payment_method"] = (IF o.method = Nil THEN JNull ELSE JStr(o.method))
  BY DEF Truth
<1>2. /\ o.status \in OrderStatuses
      /\ IF o.status \in {"PAID", "ASSEMBLED"} THEN o.method \in PaymentMethods /\ o.tx = TxUuid
         ELSE o.method = Nil /\ o.tx = Nil
  BY DEF Truth
<1>3. /\ parts.hull \in Uuids /\ parts.engine \in Uuids
      /\ parts.shield \in Uuids \cup {Nil} /\ parts.weapon \in Uuids \cup {Nil}
      /\ parts.hull # Nil /\ parts.engine # Nil
      /\ OrderUuid \in Uuids /\ UserUuid \in Uuids /\ TxUuid \in Uuids /\ TxUuid # Nil
      /\ o.tx \in Uuids \cup {Nil}
  BY <1>1, <1>2, RowsAssumption DEF Buildable
<1>4. ShowsParts(o.items, parts) /\ TotalPrice(o.items) \in Int
  BY <1>1, ListedShows
<1>5. PICK r : r = GetOrderReply(o)
  OBVIOUS
<1>6. /\ r.error = "none" /\ r.type = "OrderDto" /\ r.x = [key \in Keys(OrderDto) |-> r.x[key]]
      /\ r.x["order_uuid"] = JStr(OrderUuid) /\ r.x["user_uuid"] = JStr(UserUuid)
      /\ r.x["hull_uuid"] = JStr(parts.hull) /\ r.x["engine_uuid"] = JStr(parts.engine)
      /\ r.x["shield_uuid"] = OptNilUUIDFromPtr(parts.shield)
      /\ r.x["weapon_uuid"] = OptNilUUIDFromPtr(parts.weapon)
      /\ r.x["total_price"] = JNum(TotalPrice(o.items))
      /\ r.x["transaction_uuid"] = OptNilUUIDFromPtr(o.tx)
      /\ r.x["payment_method"] = OptNilPaymentMethodFromPtr(o.method)
      /\ r.x["status"] = JStr(o.status)
      /\ r.x["created_at"] = JStr(Now)
  <2>1. /\ getOrderItemByType(o.items).hull = parts.hull /\ getOrderItemByType(o.items).engine = parts.engine
        /\ getOrderItemByType(o.items).shield = parts.shield /\ getOrderItemByType(o.items).weapon = parts.weapon
    BY <1>4 DEF getOrderItemByType, ShowsParts
  <2>2. OrderStatusFromModelToApi(o.status) = o.status
    BY <1>2 DEF OrderStatusFromModelToApi
  <2> QED BY <1>5, <2>1, <2>2, ValuesOfOrder
<1>7. PaymentMethodFromModelToApi(o.method) = o.method /\ (o.method # Nil <=> o.method \in PaymentMethods)
  <2>1. Nil \notin PaymentMethods
    BY DEF Nil, PaymentMethods
  <2> QED BY <1>2, <2>1 DEF PaymentMethodFromModelToApi
<1>8. OptNilPaymentMethodFromPtr(o.method) = IF o.method = Nil THEN Unset ELSE NewOptNilUUID(JStr(o.method))
  BY <1>7 DEF OptNilPaymentMethodFromPtr, NewOptNilUUID, NewOptNilPaymentMethod
<1>9. /\ \A u : NewOptNilUUID(u).set = TRUE /\ NewOptNilUUID(u).null = FALSE /\ NewOptNilUUID(u).value = u
      /\ Unset.set = FALSE
      /\ \A s : JStr(s).t = "str" /\ JStr(s).s = s
      /\ JNull.t = "null" /\ \A n : JNum(n).n = n
  BY DEF NewOptNilUUID, Unset, JStr, JNull, JNum
<1>10. \A s : JStr(s) # JNull
  BY <1>9
<1>11. ReplySound("getOrder", r)
  <2>1. Returned("getOrder", r)
    BY <1>6 DEF Returned, StatusOf, encodeGetOrderResponse
  <2>2. \A key \in Keys(OrderDto) : Fits(FieldType(OrderDto, key), r.x[key])
    BY <1>3, <1>6, ValuesFit, OrderDtoSchema
  <2>3. Sound(OrderDto, r.x)
    BY <1>6, <2>2 DEF Sound
  <2>4. ValidOrderDto(r.x)
    <3>1. ValidOrderStatus(r.x["status"])
      BY <1>2, <1>6, <1>9 DEF ValidOrderStatus
    <3>2. HasPaymentMethod(r.x["payment_method"]) => ValidPaymentMethod(r.x["payment_method"].value)
      BY <1>6, <1>7, <1>8, <1>9 DEF HasPaymentMethod, ValidPaymentMethod
    <3> QED BY <3>1, <3>2 DEF ValidOrderDto
  <2> QED BY <1>6, <2>1, <2>3, <2>4, SchemasOfAnswers DEF ReplySound
<1>12. Tells(r.x, shown)
  <2> DEFINE Shows(p, j) == IF j = JNull THEN ~(p.set /\ ~p.null) ELSE p.set /\ ~p.null /\ p.value = j
             Price(key) == IF said[key] = JNull THEN 0 ELSE PriceOf[said[key].s]
  <2>1. \A key \in {"hull_uuid", "engine_uuid"} : r.x[key] = said[key]
    BY <1>1, <1>6
  <2>2. Shows(r.x["shield_uuid"], said["shield_uuid"])
    BY <1>1, <1>6, <1>9, <1>10 DEF OptNilUUIDFromPtr
  <2>3. Shows(r.x["weapon_uuid"], said["weapon_uuid"])
    BY <1>1, <1>6, <1>9, <1>10 DEF OptNilUUIDFromPtr
  <2>4. Shows(r.x["payment_method"], said["payment_method"])
    BY <1>1, <1>6, <1>8, <1>9, <1>10
  <2>5. /\ Price("hull_uuid") = PriceOf[parts.hull] /\ Price("engine_uuid") = PriceOf[parts.engine]
        /\ Price("shield_uuid") = (IF parts.shield = Nil THEN 0 ELSE PriceOf[parts.shield])
        /\ Price("weapon_uuid") = (IF parts.weapon = Nil THEN 0 ELSE PriceOf[parts.weapon])
    BY <1>1, <1>9, <1>10
  <2>6. r.x["total_price"].n = Price("hull_uuid") + Price("engine_uuid") + Price("shield_uuid") + Price("weapon_uuid")
    <3> HIDE DEF Price
    <3> QED BY <1>4, <1>6, <1>9, <2>5 DEF ShowsParts
  <2>7. r.x["status"] = JStr(shown.status)
    BY <1>6
  <2>8. r.x["transaction_uuid"].set <=> shown.status \in {"PAID", "ASSEMBLED"}
    BY <1>2, <1>3, <1>6, <1>9 DEF OptNilUUIDFromPtr
  <2>9. \A key \in {"shield_uuid", "weapon_uuid", "payment_method"} : Shows(r.x[key], said[key])
    <3> HIDE DEF Shows
    <3> QED BY <2>2, <2>3, <2>4
  <2> QED BY <2>1, <2>6, <2>7, <2>8, <2>9, Zenon DEF Tells
<1> QED BY <1>5, <1>11, <1>12
-----------------------------------------------------------------------------
(* The way of a request, with what it says. *)

\* A request on its way came in as it is, has no answer yet, and the service
\* is called with what it says; what the decoders refuse is not documented.
Said(sl) ==
  /\ sl.stage # "idle" => sl.req \in OnTheWire
  /\ sl.stage # "answered" => sl.by = "none" /\ sl.shown = None
  /\ sl.by = "decoder" => ~Documented(sl.req)
  /\ sl.stage = "service" =>
       /\ CallSays(sl.req, sl.call)
       /\ sl.want # None =>
            /\ sl.call.uuid = sl.want.uuid
            /\ sl.call.op = "createOrder" =>
                 /\ sl.call.args.shield = WantedPart(sl.want, "shield_uuid")
                 /\ sl.call.args.weapon = WantedPart(sl.want, "weapon_uuid")

\* An answer is that of the error handler, or what a handler returned; an
\* order that is shown is one that was asked for.
Replied(sl) ==
  sl.stage = "answered" =>
    /\ sl.by = "decoder" => \E error \in {"DecodeParams", "DecodeRequest"} : sl.answer = ErrorHandler(error)
    /\ sl.by = "api" => \E op \in Operations :
         /\ ReplySound(op, sl.reply) /\ sl.answer = Response(op, sl.reply)
         /\ sl.want # None => op = sl.want.op
    /\ sl.shown # None => \E o :
         /\ Truth(o, sl.shown.asked) /\ sl.shown.status = o.status
         /\ sl.answer = Response("getOrder", GetOrderReply(o))

AskedKeys == Keys(CreateOrderRequest) \cup Keys(PayOrderRequest)

RowsTrue == order # None => DOMAIN asked = AskedKeys /\ Truth(order, asked)

FullInv == ApiInv /\ RowsTrue /\ \A k \in Instances : Said(slot[k]) /\ Replied(slot[k])

\* Again, a step of one instance leaves the requests of the others alone.
LEMMA OneSlotOfFull ==
  ASSUME FullInv, ApiInv', RowsTrue', NEW k \in Instances,
         \A j \in Instances \ {k} : slot'[j] = slot[j], Said(slot'[k]), Replied(slot'[k])
  PROVE  FullInv'
<1>1. ASSUME NEW j \in Instances PROVE Said(slot'[j]) /\ Replied(slot'[j])
  BY <1>1 DEF FullInv
<1> QED BY <1>1 DEF FullInv

\* A request goes on behind a middleware.
LEMMA GoesTrue ==
  ASSUME FullInv, ApiInv', NEW k \in Instances, slot[k].stage \in {"limit", "auth"},
         NEW stage \in {"auth", "route"}, Goes(k, stage), UNCHANGED <<order, asked>>
  PROVE  FullInv'
<1>1. /\ \A j \in Instances \ {k} : slot'[j] = slot[j]
      /\ slot'[k].stage = stage /\ slot'[k].by = slot[k].by
      /\ slot'[k].want = slot[k].want /\ slot'[k].req = slot[k].req
      /\ slot'[k].shown = slot[k].shown
  BY Fields DEF FullInv, ApiInv
<1>2. Said(slot[k])
  BY DEF FullInv
<1>3. Said(slot'[k]) /\ Replied(slot'[k])
  BY <1>1, <1>2 DEF Said, Replied
<1>4. RowsTrue'
  BY DEF FullInv, RowsTrue
<1> QED BY <1>1, <1>3, <1>4, OneSlotOfFull

\* It is answered before its handler calls the service.
LEMMA AnswerTrue ==
  ASSUME FullInv, ApiInv', NEW k \in Instances, slot[k].stage \in {"limit", "auth", "route"},
         NEW by, NEW answer, Answers(k, by, answer), UNCHANGED <<order, asked>>, by # "api",
         by = "decoder" => /\ ~Documented(slot[k].req)
                           /\ \E error \in {"DecodeParams", "DecodeRequest"} : answer = ErrorHandler(error)
  PROVE  FullInv'
<1>1. /\ \A j \in Instances \ {k} : slot'[j] = slot[j]
      /\ slot'[k].stage = "answered" /\ slot'[k].by = by /\ slot'[k].answer = answer
      /\ slot'[k].want = slot[k].want /\ slot'[k].req = slot[k].req
      /\ slot'[k].shown = slot[k].shown
  BY Fields DEF FullInv, ApiInv
<1>2. slot[k].req \in OnTheWire /\ slot[k].shown = None
  BY DEF FullInv, Said
<1>3. Said(slot'[k])
  BY <1>1, <1>2 DEF Said
<1>4. Replied(slot'[k])
  BY <1>1, <1>2 DEF Replied
<1>5. RowsTrue'
  BY DEF FullInv, RowsTrue
<1> QED BY <1>1, <1>3, <1>4, <1>5, OneSlotOfFull

\* A handler answers.
LEMMA ReplyTrue ==
  ASSUME FullInv, ApiInv', RowsTrue', NEW k \in Instances, slot[k].stage = "service",
         NEW reply, Replies(k, reply), ReplySound(slot[k].call.op, reply)
  PROVE  FullInv'
<1>1. /\ \A j \in Instances \ {k} : slot'[j] = slot[j]
      /\ slot'[k].stage = "answered" /\ slot'[k].by = "api" /\ slot'[k].reply = reply
      /\ slot'[k].answer = Response(slot[k].call.op, reply)
      /\ slot'[k].want = slot[k].want /\ slot'[k].req = slot[k].req
      /\ slot'[k].shown = slot[k].shown
  BY Fields DEF FullInv, ApiInv
<1>2. slot[k].req \in OnTheWire /\ slot[k].shown = None
  BY DEF FullInv, Said
<1>3. slot[k].call.op \in Operations /\ (slot[k].want # None => slot[k].call.op = slot[k].want.op)
  BY DEF FullInv, ApiInv, SlotOK, OnTheWay
<1>4. Said(slot'[k])
  BY <1>1, <1>2 DEF Said
<1>5. Replied(slot'[k])
  BY <1>1, <1>2, <1>3 DEF Replied
<1> QED BY <1>1, <1>4, <1>5, OneSlotOfFull

\* A request comes in.
LEMMA ArriveTrue ==
  ASSUME FullInv, ApiInv', NEW k \in Instances, Arrive(k)
  PROVE  FullInv'
<1>1. RowsTrue'
  BY DEF FullInv, RowsTrue, Arrive
<1>2. PICK new : /\ slot' = [slot EXCEPT ![k] = new]
                 /\ new.stage = "limit" /\ new.by = "none" /\ new.shown = None /\ new.req \in OnTheWire
  <2> DEFINE Good(new) == new.stage = "limit" /\ new.by = "none" /\ new.shown = None /\ new.req \in OnTheWire
  <2>1. ASSUME NEW c \in Calls \cup Polls
        PROVE  Good([Idle EXCEPT !.stage = "limit", !.want = c, !.req = Sent(c)])
    BY DEF Idle, OnTheWire
  <2>2. ASSUME NEW r \in Requests PROVE Good([Idle EXCEPT !.stage = "limit", !.req = r])
    BY DEF Idle, OnTheWire
  <2>3. \/ \E c \in Calls \cup Polls :
             slot' = [slot EXCEPT ![k] = [Idle EXCEPT !.stage = "limit", !.want = c, !.req = Sent(c)]]
        \/ \E r \in Requests : slot' = [slot EXCEPT ![k] = [Idle EXCEPT !.stage = "limit", !.req = r]]
    BY Zenon DEF Arrive
  <2> HIDE DEF Good
  <2>4. \E new : slot' = [slot EXCEPT ![k] = new] /\ Good(new)
    BY <2>1, <2>2, <2>3, Zenon
  <2> QED BY <2>4, Zenon DEF Good
<1>3. slot'[k] = new /\ \A j \in Instances \ {k} : slot'[j] = slot[j]
  BY <1>2 DEF FullInv, ApiInv, SlotsOK
<1>4. Said(slot'[k]) /\ Replied(slot'[k])
  BY <1>2, <1>3 DEF Said, Replied
<1> QED BY <1>1, <1>3, <1>4, OneSlotOfFull

\* A call of the client reaches the service as the order and the parts it was
\* made with.
LEMMA CallArrives ==
  ASSUME NEW c \in Calls \cup Polls, Handle(c.op, Sent(c)).error = "none"
  PROVE  LET call == Handle(c.op, Sent(c)) IN
         /\ call.uuid = c.uuid
         /\ c.op = "createOrder" =>
              /\ call.args.shield = WantedPart(c, "shield_uuid")
              /\ call.args.weapon = WantedPart(c, "weapon_uuid")
<1> DEFINE call == Handle(c.op, Sent(c))
<1>0. /\ \A error : Failed(error).error = error
      /\ \A op, uuid, args : /\ ServiceCall(op, uuid, args).uuid = uuid /\ ServiceCall(op, uuid, args).args = args
  BY DEF Failed, ServiceCall
<1>1. c.op \in Operations /\ (c.op = "createOrder" => c.uuid = Nil)
  BY CallsAssumption
<1>2. \A v : <<Root, c.uuid>>[2] = c.uuid /\ <<Root, c.uuid, v>>[2] = c.uuid
  BY Segments
<1>3. CASE c.op = "createOrder"
  <2> DEFINE d == decodeCreateOrderRequest(Sent(c))
  <2>1. call = IF ~d.ok THEN Failed("DecodeRequest") ELSE ServiceCall("createOrder", Nil, PartsAsked(d.x))
    BY <1>3 DEF Handle, handleCreateOrderRequest
  <2> HIDE DEF d
  <2>2. d.ok /\ call.uuid = Nil /\ call.args = PartsAsked(d.x)
    BY <1>0, <2>1
  <2>3. call.args.shield = Ptr(d.x["shield_uuid"]) /\ call.args.weapon = Ptr(d.x["weapon_uuid"])
    BY <2>2 DEF PartsAsked
  <2> QED BY <1>1, <1>3, <2>2, <2>3, PartsArrive DEF d
<1>4. CASE c.op = "getOrder"
  <2>1. Sent(c).path = <<Root, c.uuid>>
    BY <1>4 DEF Sent, sendGetOrder, HttpRequest
  <2>2. call = IF ~decodeGetOrderParams(Sent(c)) THEN Failed("DecodeParams")
               ELSE ServiceCall("getOrder", Sent(c).path[2], None)
    BY <1>4 DEF Handle, handleGetOrderRequest
  <2>3. Sent(c).path[2] = c.uuid
    BY <1>2, <2>1, Zenon
  <2> QED BY <1>0, <1>4, <2>2, <2>3
<1>5. CASE c.op = "payOrder"
  <2>1. Sent(c).path = <<Root, c.uuid, "pay">>
    BY <1>5 DEF Sent, sendPayOrder, HttpRequest
  <2>2. PICK args : call.error = "none" => call = ServiceCall("payOrder", Sent(c).path[2], args)
    BY <1>0, <1>5 DEF Handle, handlePayOrderRequest
  <2>3. Sent(c).path[2] = c.uuid
    BY <1>2, <2>1, Zenon
  <2> QED BY <1>0, <1>5, <2>2, <2>3
<1>6. CASE c.op = "cancelOrder"
  <2>1. Sent(c).path = <<Root, c.uuid, "cancel">>
    BY <1>6 DEF Sent, sendCancelOrder, HttpRequest
  <2>2. call = IF ~decodeCancelOrderParams(Sent(c)) THEN Failed("DecodeParams")
               ELSE ServiceCall("cancelOrder", Sent(c).path[2], None)
    BY <1>6 DEF Handle, handleCancelOrderRequest
  <2>3. Sent(c).path[2] = c.uuid
    BY <1>2, <2>1, Zenon
  <2> QED BY <1>0, <1>6, <2>2, <2>3
<1> QED BY <1>1, <1>3, <1>4, <1>5, <1>6 DEF Operations

\* The router and the decoders: the service is called for a documented
\* request, with what it says, and for no other.
LEMMA RouterTrue ==
  ASSUME FullInv, ApiInv', NEW k \in Instances, Unrouted(k) \/ Routed(k)
  PROVE  FullInv'
<1>1. slot[k].stage = "route" /\ UNCHANGED <<order, asked>>
  BY DEF Unrouted, Routed
<1>2. CASE Unrouted(k)
  <2>1. \E answer : Answers(k, "router", answer)
    BY <1>2 DEF Unrouted
  <2> QED BY <1>1, <2>1, AnswerTrue
<1>3. CASE Routed(k)
  <2>1. PICK route \in Routes :
          /\ Matches(route, slot[k].req.path) /\ route.method = slot[k].req.method
          /\ LET call == Handle(route.op, slot[k].req) IN
             IF call.error # "none" THEN Answers(k, "decoder", ErrorHandler(call.error))
             ELSE slot' = [slot EXCEPT ![k].stage = "service", ![k].call = call]
    BY <1>3 DEF Routed
  <2>2. PICK r, call : r = slot[k].req /\ call = Handle(route.op, r)
    OBVIOUS
  <2>3. r \in OnTheWire /\ slot[k].by = "none" /\ slot[k].shown = None
    BY <1>1, <2>2 DEF FullInv, Said
  <2>4. /\ call.error = "none" => CallSays(r, call)
        /\ call.error # "none" => ~Documented(r)
    BY <2>1, <2>2, <2>3, HandleDocumented
  <2>5. call.error \in {"none", "DecodeParams", "DecodeRequest"} /\ (call.error = "none" => call.op = route.op)
    BY <2>2, HandleCalls, OperationOfRoute
  <2>6. CASE call.error # "none"
    <3>1. Answers(k, "decoder", ErrorHandler(call.error))
      BY <2>1, <2>2, <2>6
    <3> QED BY <1>1, <2>2, <2>4, <2>5, <2>6, <3>1, AnswerTrue
  <2>7. CASE call.error = "none"
    <3>1. slot' = [slot EXCEPT ![k].stage = "service", ![k].call = call]
      BY <2>1, <2>2, <2>7
    <3>2. /\ \A j \in Instances \ {k} : slot'[j] = slot[j]
          /\ slot'[k].stage = "service" /\ slot'[k].call = call /\ slot'[k].by = slot[k].by
          /\ slot'[k].want = slot[k].want /\ slot'[k].req = slot[k].req /\ slot'[k].shown = slot[k].shown
      BY <3>1 DEF FullInv, ApiInv, SlotsOK, SlotFields
    <3>3. ASSUME slot[k].want # None
          PROVE  /\ call.uuid = slot[k].want.uuid
                 /\ call.op = "createOrder" =>
                      /\ call.args.shield = WantedPart(slot[k].want, "shield_uuid")
                      /\ call.args.weapon = WantedPart(slot[k].want, "weapon_uuid")
      <4>1. PICK c \in Calls \cup Polls : c = slot[k].want /\ r = Sent(c) /\ c.op \in Operations
        BY <1>1, <2>2, <3>3, CallsAssumption DEF FullInv, ApiInv, SlotOK, OnTheWay
      <4>2. route.op = c.op
        BY <2>1, <2>2, <4>1, RouteOfCall
      <4> QED BY <2>2, <2>5, <2>7, <4>1, <4>2, CallArrives
    <3>4. Said(slot'[k])
      BY <2>2, <2>3, <2>4, <2>7, <3>2, <3>3 DEF Said
    <3>5. Replied(slot'[k])
      BY <3>2 DEF Replied
    <3>6. RowsTrue'
      BY <1>1 DEF FullInv, RowsTrue
    <3> QED BY <3>2, <3>4, <3>5, <3>6, OneSlotOfFull
  <2> QED BY <2>6, <2>7
<1> QED BY <1>2, <1>3

\* A string that a member of the body has is that string.
LEMMA LastString ==
  ASSUME NEW r \in OnTheWire, NEW key, LastValue(r.body, key).t = "str"
  PROVE  LastValue(r.body, key) = JStr(LastValue(r.body, key).s)
<1> DEFINE v == LastValue(r.body, key)
<1>1. JNull.t = "null" /\ \A n : JNum(n).t = "num"
  BY DEF JNull, JNum
<1>2. v = JNull \/ IsJson(v)
  BY Wire, LastMember
<1> HIDE DEF v
<1>3. v.t = "str"
  BY DEF v
<1> QED BY <1>1, <1>2, <1>3 DEF IsJson, v

\* The rows of a new order are what its request says (service/order/create.go).
LEMMA CreateTrue ==
  ASSUME FullInv, ApiInv', NEW k \in Instances, Create(k)
  PROVE  FullInv'
<1>1. /\ slot[k].stage = "service" /\ slot[k].call.op = "createOrder"
      /\ Buildable(slot[k].call.args) /\ Replies(k, CreateOrderReply(Listed(slot[k].call.args)))
  BY DEF Create, Serving
<1>2. PICK r, parts : r = slot[k].req /\ parts = slot[k].call.args
  OBVIOUS
<1>3. /\ order' = [items |-> Listed(parts), status |-> "PENDING_PAYMENT", method |-> Nil, tx |-> Nil]
      /\ asked' = [key \in AskedKeys |-> IF key \in Keys(CreateOrderRequest) THEN LastValue(r.body, key) ELSE JNull]
  BY <1>2 DEF Create, AskedKeys
<1>4. r \in OnTheWire /\ CallSays(r, slot[k].call)
  BY <1>1, <1>2 DEF FullInv, Said
<1>5. /\ parts.hull = LastValue(r.body, "hull_uuid").s /\ ReadsUUID(LastValue(r.body, "hull_uuid"))
      /\ parts.engine = LastValue(r.body, "engine_uuid").s /\ ReadsUUID(LastValue(r.body, "engine_uuid"))
      /\ parts.shield = LastValue(r.body, "shield_uuid").s
      /\ LastValue(r.body, "shield_uuid") = JNull \/ ReadsUUID(LastValue(r.body, "shield_uuid"))
      /\ parts.weapon = LastValue(r.body, "weapon_uuid").s
      /\ LastValue(r.body, "weapon_uuid") = JNull \/ ReadsUUID(LastValue(r.body, "weapon_uuid"))
  BY <1>1, <1>2, <1>4 DEF CallSays
<1>6. AskedKeys = {"hull_uuid", "engine_uuid", "shield_uuid", "weapon_uuid", "payment_method"}
  BY CreateOrderRequestSchema, PayOrderRequestSchema DEF AskedKeys
<1>7. /\ DOMAIN asked' = AskedKeys /\ asked'["payment_method"] = JNull
      /\ \A key \in {"hull_uuid", "engine_uuid", "shield_uuid", "weapon_uuid"} : asked'[key] = LastValue(r.body, key)
  BY <1>3, <1>6, CreateOrderRequestSchema
<1>8. JNull.s = Nil /\ Nil \notin Uuids
  BY RowsAssumption DEF JNull, Nil
<1>9. asked'["hull_uuid"] = JStr(parts.hull) /\ asked'["engine_uuid"] = JStr(parts.engine)
  BY <1>4, <1>5, <1>7, LastString DEF ReadsUUID
<1>10. asked'["shield_uuid"] = IF parts.shield = Nil THEN JNull ELSE JStr(parts.shield)
  BY <1>4, <1>5, <1>7, <1>8, LastString DEF ReadsUUID
<1>11. asked'["weapon_uuid"] = IF parts.weapon = Nil THEN JNull ELSE JStr(parts.weapon)
  BY <1>4, <1>5, <1>7, <1>8, LastString DEF ReadsUUID
<1>12. order'.items = Listed(parts) /\ order'.status = "PENDING_PAYMENT" /\ order'.method = Nil /\ order'.tx = Nil
  BY <1>3
<1>13. Truth(order', asked')
  BY <1>1, <1>2, <1>7, <1>9, <1>10, <1>11, <1>12 DEF Truth, OrderStatuses
<1>14. RowsTrue'
  BY <1>7, <1>13 DEF RowsTrue
<1>15. ReplySound(slot[k].call.op, CreateOrderReply(Listed(slot[k].call.args)))
  BY <1>1, RepliesSound
<1> QED BY <1>1, <1>14, <1>15, ReplyTrue

\* So are those of the payment (service/order/pay.go).
LEMMA PayTrue ==
  ASSUME FullInv, ApiInv', NEW k \in Instances, Pay(k)
  PROVE  FullInv'
<1>1. /\ slot[k].stage = "service" /\ slot[k].call.op = "payOrder" /\ Refusal(k) = "none"
      /\ Replies(k, PayOrderReply)
      /\ order' = [order EXCEPT !.status = "PAID", !.method = slot[k].call.args, !.tx = TxUuid]
      /\ asked' = [asked EXCEPT !["payment_method"] = LastValue(slot[k].req.body, "payment_method")]
  BY DEF Pay, Serving
<1>2. PICK r, method : r = slot[k].req /\ method = slot[k].call.args
  OBVIOUS
<1>3. method # "UNSPECIFIED" /\ order # None /\ order.status = "PENDING_PAYMENT"
  BY <1>1, <1>2 DEF Refusal, Found
<1>4. r \in OnTheWire /\ CallSays(r, slot[k].call)
  BY <1>1, <1>2 DEF FullInv, Said
<1>5. method = LastValue(r.body, "payment_method").s /\ LastValue(r.body, "payment_method") = JStr(method)
  BY <1>1, <1>2, <1>4, LastString DEF CallSays
<1>6. method \in PaymentMethods /\ Nil \notin PaymentMethods
  <2>1. method \in PaymentMethods
    BY <1>1, <1>2, <1>3 DEF FullInv, ApiInv, SlotOK, OnTheWay
  <2> QED BY <2>1 DEF PaymentMethods, Nil
<1>7. DOMAIN asked = AskedKeys /\ Truth(order, asked)
  BY <1>3 DEF FullInv, RowsTrue
<1>8. AskedKeys = {"hull_uuid", "engine_uuid", "shield_uuid", "weapon_uuid", "payment_method"}
  BY CreateOrderRequestSchema, PayOrderRequestSchema DEF AskedKeys
<1>9. /\ DOMAIN asked' = AskedKeys /\ asked'["payment_method"] = JStr(method)
      /\ \A key \in {"hull_uuid", "engine_uuid", "shield_uuid", "weapon_uuid"} : asked'[key] = asked[key]
  BY <1>1, <1>2, <1>5, <1>7, <1>8
<1>10. DOMAIN order = {"items", "status", "method", "tx"}
  BY <1>3 DEF FullInv, ApiInv, OrderOK
<1>11. order'.items = order.items /\ order'.status = "PAID" /\ order'.method = method /\ order'.tx = TxUuid
  BY <1>1, <1>2, <1>10
<1>12. Truth(order', asked')
  BY <1>6, <1>7, <1>9, <1>11 DEF Truth, OrderStatuses
<1>13. RowsTrue'
  BY <1>9, <1>12 DEF RowsTrue
<1>14. ReplySound(slot[k].call.op, PayOrderReply)
  BY <1>1, RepliesSound
<1> QED BY <1>1, <1>13, <1>14, ReplyTrue

\* A status that goes on leaves the rest of the order alone: a pending order
\* is cancelled, a paid one assembled.
LEMMA StatusTrue ==
  ASSUME FullInv, order # None, NEW status,
         \/ order.status = "PENDING_PAYMENT" /\ status = "CANCELLED"
         \/ order.status = "PAID" /\ status = "ASSEMBLED",
         order' = [order EXCEPT !.status = status], UNCHANGED asked
  PROVE  RowsTrue'
<1>1. DOMAIN asked = AskedKeys /\ Truth(order, asked)
  BY DEF FullInv, RowsTrue
<1>2. DOMAIN order = {"items", "status", "method", "tx"}
  BY DEF FullInv, ApiInv, OrderOK
<1>3. order'.items = order.items /\ order'.status = status /\ order'.method = order.method /\ order'.tx = order.tx
  BY <1>2
<1>4. Truth(order', asked')
  BY <1>1, <1>3 DEF Truth, OrderStatuses
<1> QED BY <1>1, <1>4 DEF RowsTrue

\* GetOrder shows the rows.
LEMMA GetTrue ==
  ASSUME FullInv, ApiInv', NEW k \in Instances, Get(k) \/ GetFails(k)
  PROVE  FullInv'
<1>1. slot[k].stage = "service" /\ slot[k].call.op = "getOrder" /\ UNCHANGED <<order, asked>>
  BY DEF Get, GetFails, Serving
<1>2. RowsTrue'
  BY <1>1 DEF FullInv, RowsTrue
<1>3. CASE \E error : Replies(k, GetOrderError(error))
  BY <1>1, <1>2, <1>3, RepliesSound, ReplyTrue
<1>4. CASE Get(k) /\ Found(k)
  <2>1. PICK o, said, shown : o = order /\ said = asked /\ shown = [asked |-> asked, status |-> order.status]
    OBVIOUS
  <2>2. PICK reply : reply = GetOrderReply(o)
    OBVIOUS
  <2>3. slot' = [slot EXCEPT ![k].stage = "answered", ![k].by = "api", ![k].reply = reply,
                             ![k].answer = Response("getOrder", reply), ![k].shown = shown]
    BY <1>4, <2>1, <2>2 DEF Get
  <2>4. /\ \A j \in Instances \ {k} : slot'[j] = slot[j]
        /\ slot'[k].stage = "answered" /\ slot'[k].by = "api" /\ slot'[k].reply = reply
        /\ slot'[k].answer = Response("getOrder", reply) /\ slot'[k].shown = shown
        /\ slot'[k].want = slot[k].want /\ slot'[k].req = slot[k].req
    BY <2>3 DEF FullInv, ApiInv, SlotsOK, SlotFields
  <2>5. Truth(o, said) /\ shown.asked = said /\ shown.status = o.status
    BY <1>4, <2>1 DEF FullInv, RowsTrue, Found
  <2>6. ReplySound("getOrder", reply)
    BY <2>2, <2>5, OrderShown
  <2>7. "getOrder" \in Operations /\ (slot[k].want # None => slot[k].want.op = "getOrder")
    BY <1>1 DEF FullInv, ApiInv, SlotOK, OnTheWay, Operations
  <2>8. Said(slot'[k])
    BY <1>1, <2>4 DEF FullInv, Said
  <2>9. Replied(slot'[k])
    BY <2>2, <2>4, <2>5, <2>6, <2>7 DEF Replied
  <2> QED BY <1>2, <2>4, <2>8, <2>9, OneSlotOfFull
<1> QED BY <1>3, <1>4 DEF Get, GetFails

\* Every step keeps the invariant.
LEMMA FullStep == FullInv /\ [Next]_vars => FullInv'
<1> SUFFICES ASSUME FullInv, [Next]_vars PROVE FullInv'
  OBVIOUS
<1>0. ApiInv'
  BY ApiStep DEF FullInv
<1>1. ASSUME NEW k \in Instances, Arrive(k) PROVE FullInv'
  BY <1>0, <1>1, ArriveTrue
<1>2. ASSUME NEW k \in Instances, Pass(k) \/ Authorized(k) PROVE FullInv'
  <2>1. /\ slot[k].stage \in {"limit", "auth"} /\ UNCHANGED <<order, asked>>
        /\ Goes(k, "auth") \/ Goes(k, "route")
    BY <1>2 DEF Pass, Authorized
  <2> QED BY <1>0, <2>1, GoesTrue
<1>3. ASSUME NEW k \in Instances, TooManyRequests(k) \/ Unauthorized(k) PROVE FullInv'
  <2>1. /\ slot[k].stage \in {"limit", "auth"} /\ UNCHANGED <<order, asked>>
        /\ Answers(k, "limiter", Text(429)) \/ Answers(k, "auth", Text(401))
    BY <1>3 DEF TooManyRequests, Unauthorized
  <2> QED BY <1>0, <2>1, AnswerTrue
<1>4. ASSUME NEW k \in Instances, Unrouted(k) \/ Routed(k) PROVE FullInv'
  BY <1>0, <1>4, RouterTrue
<1>5. ASSUME NEW k \in Instances, Create(k) \/ Pay(k) PROVE FullInv'
  BY <1>0, <1>5, CreateTrue, PayTrue
<1>6. ASSUME NEW k \in Instances, Get(k) \/ GetFails(k) PROVE FullInv'
  BY <1>0, <1>6, GetTrue
<1>7. ASSUME NEW k \in Instances, Cancel(k) PROVE FullInv'
  <2>1. /\ slot[k].stage = "service" /\ slot[k].call.op = "cancelOrder" /\ Refusal(k) = "none"
        /\ order' = [order EXCEPT !.status = "CANCELLED"] /\ UNCHANGED asked /\ Replies(k, CancelOrderReply)
    BY <1>7 DEF Cancel, Serving
  <2>2. order # None /\ order.status = "PENDING_PAYMENT"
    BY <2>1 DEF Refusal, Found
  <2>3. RowsTrue'
    BY <2>1, <2>2, StatusTrue
  <2> QED BY <1>0, <2>1, <2>3, RepliesSound, ReplyTrue
<1>8. ASSUME NEW k \in Instances, NEW error, error \notin {"none", "ErrUnauthorized"}, Replies(k, Erroneous(error)),
             slot[k].stage = "service", slot[k].call.op # "getOrder", UNCHANGED <<order, asked>>
      PROVE  FullInv'
  <2>1. RowsTrue'
    BY <1>8 DEF FullInv, RowsTrue
  <2> QED BY <1>0, <1>8, <2>1, ErroneousSound, ReplyTrue
<1>9. ASSUME NEW k \in Instances, NEW error \in CreateErrors, CreateFails(k, error) PROVE FullInv'
  <2>1. error \notin {"none", "ErrUnauthorized"}
    BY DEF CreateErrors
  <2> QED BY <1>8, <1>9, <2>1 DEF CreateFails, Serving
<1>10. ASSUME NEW k \in Instances, OrderRefused(k) PROVE FullInv'
  <2>1. Refusal(k) \notin {"none", "ErrUnauthorized"}
    BY <1>10 DEF OrderRefused, Refusal
  <2> QED BY <1>8, <1>10, <2>1 DEF OrderRefused, Serving
<1>11. ASSUME NEW k \in Instances, NEW error \in PayErrors \cup CancelErrors, OrderFails(k, error) PROVE FullInv'
  <2>1. error \notin {"none", "ErrUnauthorized"}
    BY DEF PayErrors, CancelErrors
  <2> QED BY <1>8, <1>11, <2>1 DEF OrderFails, Serving
<1>12. ASSUME NEW k \in Instances, Finish(k) PROVE FullInv'
  <2>1. slot' = [slot EXCEPT ![k] = Idle] /\ UNCHANGED <<order, asked>>
    BY <1>12 DEF Finish
  <2>2. slot'[k] = Idle /\ \A j \in Instances \ {k} : slot'[j] = slot[j]
    BY <2>1 DEF FullInv, ApiInv, SlotsOK
  <2>3. Said(slot'[k]) /\ Replied(slot'[k])
    BY <2>2 DEF Said, Replied, Idle
  <2>4. RowsTrue'
    BY <2>1 DEF FullInv, RowsTrue
  <2> QED BY <1>0, <2>2, <2>3, <2>4, OneSlotOfFull
<1>13. CASE Assemble
  <2>1. order # None /\ order.status = "PAID" /\ order' = [order EXCEPT !.status = "ASSEMBLED"] /\ UNCHANGED <<asked, slot>>
    BY <1>13 DEF Assemble
  <2>2. RowsTrue'
    BY <2>1, StatusTrue
  <2> QED BY <1>0, <2>1, <2>2 DEF FullInv
<1>14. CASE UNCHANGED <<order, asked, slot>>
  BY <1>0, <1>14 DEF FullInv, RowsTrue
<1>15. ASSUME NEW k \in Instances, Step(k) PROVE FullInv'
  BY <1>2, <1>3, <1>4, <1>5, <1>6, <1>7, <1>9, <1>10, <1>11, <1>12, <1>15 DEF Step
<1> QED BY <1>1, <1>13, <1>14, <1>15 DEF Next, Clock, Around, apiVars, vars

\* FullInv holds from the start.
LEMMA FullAlways == Spec => []FullInv
<1>1. Init => FullInv
  <2> SUFFICES ASSUME Init PROVE FullInv
    OBVIOUS
  <2>1. Said(Idle) /\ Replied(Idle)
    BY DEF Said, Replied, Idle
  <2>2. order = None /\ \A k \in Instances : slot[k] = Idle
    BY DEF Init
  <2> QED BY <2>1, <2>2, InitApi DEF FullInv, RowsTrue
<1>2. FullInv /\ [Next]_vars => FullInv'
  BY FullStep
<1> QED BY <1>1, <1>2, PTL DEF Spec

\* For any requests, with bodies of any length and members of any keys: the
\* handlers call the service for just the documented ones, with what they say,
\* and a call of the generated client arrives as it was made
\* (oas_handlers_gen.go, oas_request_decoders_gen.go, oas_json_gen.go).
THEOREM CalledAsAskedHolds == Spec => []CalledAsAsked
<1>1. FullInv => CalledAsAsked
  <2> SUFFICES ASSUME FullInv, NEW k \in Instances
               PROVE  LET sl == slot[k]
                          body == sl.req.body
                          call == sl.call
                          Wanted(key) == LET v == sl.want.x[key] IN IF v.set /\ ~v.null THEN v.value.s ELSE Nil
                      IN  /\ sl.by = "decoder" => ~Documented(sl.req)
                          /\ sl.stage = "service" =>
                               /\ Documented(sl.req)
                               /\ call.op = "createOrder" =>
                                    /\ call.args.hull = LastValue(body, "hull_uuid").s
                                    /\ call.args.engine = LastValue(body, "engine_uuid").s
                                    /\ call.args.shield = LastValue(body, "shield_uuid").s
                                    /\ call.args.weapon = LastValue(body, "weapon_uuid").s
                               /\ call.op = "payOrder" => call.args = LastValue(body, "payment_method").s
                               /\ call.op # "createOrder" => call.uuid = sl.req.path[2]
                          /\ sl.stage = "service" /\ sl.want # None =>
                               /\ call.op = sl.want.op /\ call.uuid = sl.want.uuid
                               /\ call.op = "createOrder" =>
                                    call.args.shield = Wanted("shield_uuid") /\ call.args.weapon = Wanted("weapon_uuid")
    BY Zenon DEF CalledAsAsked
  <2>1. PICK sl : sl = slot[k]
    OBVIOUS
  <2>2. Said(sl) /\ (sl.stage = "service" /\ sl.want # None => sl.call.op = sl.want.op)
    BY <2>1 DEF FullInv, ApiInv, SlotOK, OnTheWay
  <2>3. sl.by = "decoder" => ~Documented(sl.req)
    BY <2>2 DEF Said
  <2>4. sl.stage = "service" => CallSays(sl.req, sl.call)
    BY <2>2 DEF Said
  <2>5. sl.stage = "service" /\ sl.want # None =>
          /\ sl.call.op = sl.want.op /\ sl.call.uuid = sl.want.uuid
          /\ sl.call.op = "createOrder" =>
               /\ sl.call.args.shield = WantedPart(sl.want, "shield_uuid")
               /\ sl.call.args.weapon = WantedPart(sl.want, "weapon_uuid")
    BY <2>2 DEF Said
  <2> QED BY <2>1, <2>3, <2>4, <2>5 DEF CallSays, WantedPart
<1> QED BY <1>1, FullAlways, PTL

\* For any calls and catalogue: the client decodes every answer of the API
\* into the type and the values its handler returned, or into the error type
\* of its code, and no answer of a middleware (oas_response_encoders_gen.go,
\* oas_response_decoders_gen.go, oas_json_gen.go, mapError).
THEOREM ClientUnderstandsHolds == Spec => []ClientUnderstands
<1>1. FullInv => ClientUnderstands
  <2> SUFFICES ASSUME FullInv, NEW k \in Instances, slot[k].stage = "answered", slot[k].want # None
               PROVE  LET sl == slot[k]
                          r == Result(sl.want.op, sl.answer)
                      IN  /\ sl.by \in {"limiter", "auth", "decoder", "api"}
                          /\ sl.by \in {"limiter", "auth"} <=> ~r.ok
                          /\ sl.by = "api" /\ sl.reply.error = "none" => r.type = sl.reply.type /\ r.x = sl.reply.x
                          /\ r.ok /\ r.type \in ErrorTypes => r.x["code"] = JNum(sl.answer.status)
                          /\ sl.by = "decoder" \/ (sl.by = "api" /\ sl.reply.error # "none") => r.type \in ErrorTypes
    BY Zenon DEF ClientUnderstands
  <2>1. PICK sl, op, r : sl = slot[k] /\ op = sl.want.op /\ r = Result(op, sl.answer)
    OBVIOUS
  <2>2. op \in Operations /\ Known(op, sl) /\ Replied(sl)
    BY <2>1, CallsAssumption DEF FullInv, ApiInv, SlotOK, OnTheWay, Answered
  <2>3. sl.by \in {"limiter", "auth", "decoder", "api"}
    BY <2>2 DEF Known, MiddlewareNames, ApiNames
  <2>4. CASE sl.by \in {"limiter", "auth"}
    <3>1. sl.answer.ctype # "json"
      BY <2>2, <2>4 DEF Known, MiddlewareNames
    <3>2. r = NoResult
      BY <2>1, <3>1 DEF Result
    <3>3. ~r.ok
      BY <3>2 DEF NoResult
    <3> QED BY <2>1, <2>3, <2>4, <3>3
  <2>5. CASE sl.by = "decoder"
    <3>1. PICK error \in {"DecodeParams", "DecodeRequest"} : sl.answer = ErrorHandler(error)
      BY <2>1, <2>2, <2>5 DEF Replied
    <3>2. error # "ErrUnauthorized" /\ mapError(error) \in DOMAIN TypeAt(op)
      <4>1. mapError(error) = 400
        BY CodeOfError
      <4> QED BY <2>2, <4>1, StatusesKnown DEF Operations
    <3>3. r.ok /\ r.type \in ErrorTypes /\ r.x["code"] = JNum(sl.answer.status)
      BY <2>1, <2>2, <3>1, <3>2, ResultOfError
    <3> QED BY <2>1, <2>5, <3>3
  <2>6. CASE sl.by = "api"
    <3>1. ReplySound(op, sl.reply) /\ sl.answer = Response(op, sl.reply)
      BY <2>1, <2>2, <2>6 DEF Replied
    <3>2. /\ r.ok
          /\ sl.reply.error = "none" => r.type = sl.reply.type /\ r.x = sl.reply.x
          /\ sl.reply.error # "none" => r.type \in ErrorTypes
          /\ r.type \in ErrorTypes => r.x["code"] = JNum(sl.answer.status)
      BY <2>1, <2>2, <3>1, ResultOfReply
    <3> QED BY <2>1, <2>6, <3>2
  <2> QED BY <2>3, <2>4, <2>5, <2>6
<1> QED BY <1>1, FullAlways, PTL

\* For any catalogue and any requests: an answer of getOrder shows the parts
\* the creator asked for, in their slots, with their price, and the payer's
\* method (api/order/v1/create.go, pay.go, get.go and their converters).
THEOREM GetTellsTruthHolds == Spec => []GetTellsTruth
<1>1. FullInv => GetTellsTruth
  <2>1. ASSUME FullInv, NEW k \in Instances, slot[k].stage = "answered", slot[k].shown # None
        PROVE  LET r == Result("getOrder", slot[k].answer) IN r.ok /\ Tells(r.x, slot[k].shown)
    <3>1. PICK sl, r : sl = slot[k] /\ r = Result("getOrder", sl.answer)
      OBVIOUS
    <3>2. PICK o : /\ Truth(o, sl.shown.asked) /\ sl.shown.status = o.status
                   /\ sl.answer = Response("getOrder", GetOrderReply(o))
      BY <2>1, <3>1 DEF FullInv, Replied
    <3>3. ReplySound("getOrder", GetOrderReply(o)) /\ Tells(GetOrderReply(o).x, sl.shown)
      BY <3>2, OrderShown
    <3>4. GetOrderReply(o).error = "none" /\ "getOrder" \in Operations
      BY ValuesOfOrder DEF Operations
    <3>5. r.ok /\ r.x = GetOrderReply(o).x
      BY <3>1, <3>2, <3>3, <3>4, ResultOfReply
    <3> QED BY <3>1, <3>3, <3>5
  <2> QED BY <2>1, Zenon DEF GetTellsTruth, Tells
<1> QED BY <1>1, FullAlways, PTL
=============================================================================
