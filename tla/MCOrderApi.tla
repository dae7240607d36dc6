----------------------------- MODULE MCOrderApi -----------------------------
(***************************************************************************)
(* A small instance of OrderApi: a part for each slot, one order, two      *)
(* instances of the service, and requests that depart from the OpenAPI     *)
(* document in one point each.                                             *)
(***************************************************************************)
EXTENDS OrderApi, TLC

MCTypeOf == [h1 |-> "HULL", e1 |-> "ENGINE", s1 |-> "SHIELD", w1 |-> "WEAPON"]
MCPriceOf == [h1 |-> 1, e1 |-> 2, s1 |-> 4, w1 |-> 8]
MCUuids == DOMAIN MCTypeOf \cup {"o1", "o2", "t1", "user"}
MCTimes == {"now"}

NoArgs == [key \in {} |-> None]

CreateArgs(shield, weapon) ==
  ("hull_uuid" :> JStr("h1")) @@ ("engine_uuid" :> JStr("e1")) @@ ("shield_uuid" :> shield) @@ ("weapon_uuid" :> weapon)

Call(op, uuid, x) == [op |-> op, uuid |-> uuid, x |-> x, auth |-> "session"]

\* The generated client encodes any method, known or not.
MCCalls ==
  {Call("createOrder", Nil, CreateArgs(s, w)) :
     s \in {Unset, SetToNull, NewOptNilUUID(JStr("s1"))}, w \in {Unset, NewOptNilUUID(JStr("w1"))}}
    \cup {Call("createOrder", Nil, CreateArgs(NewOptNilUUID(JStr("w1")), SetToNull))}
    \cup {Call(op, u, NoArgs) : op \in {"getOrder", "cancelOrder"}, u \in {"o1", "o2"}}
    \cup {Call("payOrder", "o1", "payment_method" :> JStr(m)) : m \in PaymentMethods \cup {"GOLD"}}
    \cup {Call("payOrder", "o2", "payment_method" :> JStr("CARD"))}
    \cup {[Call("getOrder", "o1", NoArgs) EXCEPT !.auth = "missing"]}

MCPolls == {Call("getOrder", "o1", NoArgs)}

Post(path, members) == HttpRequest("POST", path, "json", Object(members), "session")

Hull == Member("hull_uuid", JStr("h1"))
Engine == Member("engine_uuid", JStr("e1"))
Good == Post(<<Root>>, <<Hull, Engine>>)

BadBodies ==
  {[Good EXCEPT !.body = b] : b \in {NoBody, OtherBody, [Object(<<Hull, Engine>>) EXCEPT !.trailing = TRUE]}}
    \cup {[Good EXCEPT !.ctype = t] : t \in {"none", "text"}}

\* Missing, repeated, unknown, misplaced and mistyped members.
OddMembers ==
  {Post(<<Root>>, ms) : ms \in
    {<<Hull>>, <<Engine, Hull>>, <<Hull, Engine, Member("engine_uuid", JStr("bad"))>>,
     <<Member("hull_uuid", JStr("e1")), Engine, Hull>>,
     <<Member("hull_uuid", JNull), Engine>>, <<Hull, Engine, Member("payment_method", JNum(1))>>,
     <<Hull, Member("engine_uuid", JNum(1))>>,
     <<Hull, Engine, Member("shield_uuid", JStr("s1")), Member("shield_uuid", JNull)>>,
     <<Hull, Engine, Member("weapon_uuid", JNull), Member("weapon_uuid", JStr("w1"))>>,
     <<Hull, Engine, Member("shield_uuid", JStr("bad"))>>,
     <<Hull, Engine, Member("shield_uuid", JStr("o2"))>>}}

Method(m) == Member("payment_method", JStr(m))

Payments ==
  {Post(<<Root, "o1", "pay">>, ms) : ms \in
    {<<>>, <<Method("SBP"), Method("GOLD")>>, <<Method("GOLD"), Method("SBP")>>,
     <<Member("payment_method", JNull)>>, <<Member("payment_method", JNum(1))>>}}
    \cup {Post(<<Root, u, "pay">>, <<Method("SBP")>>) : u \in {"", "bad"}}

OddPaths ==
  {HttpRequest(m, p, "none", NoBody, "session") : m \in {"GET", "POST"},
     p \in {<<Root>>, <<Root, "bad">>, <<Root, "o1", "">>, <<Root, "o1", "pay">>, <<Root, "o1", "cancelled">>}}
    \cup {HttpRequest("POST", <<Root, "bad", "cancel">>, "none", NoBody, "session"),
          HttpRequest("GET", <<Root, "">>, "none", NoBody, "session"),
          HttpRequest("OPTIONS", <<Root, "o1", "cancel">>, "none", NoBody, "session"),
          HttpRequest("GET", <<"/health">>, "none", NoBody, "session")}

MCRequests == BadBodies \cup OddMembers \cup Payments \cup OddPaths
                \cup {[Good EXCEPT !.auth = a] : a \in {"notBearer", "empty", "notUuid"}}

MCPaths == {r.path : r \in MCRequests} \cup {Sent(c).path : c \in MCCalls \cup MCPolls}
=============================================================================
