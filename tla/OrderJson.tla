------------------------------ MODULE OrderJson ------------------------------
(***************************************************************************)
(* The messages of the order API as the generated code writes and reads    *)
(* them (shared/pkg/openapi/order/v1: oas_json_gen, oas_schemas_gen,       *)
(* oas_validators_gen).  A JSON object is the sequence of its members: the *)
(* decoder takes them as they come, so a key may repeat or be unknown.  A  *)
(* Go struct is a function from the keys of its fields to their values.    *)
(* The generated methods of all types have one form, which Encode and      *)
(* Decode are; what differs from type to type is a table.                  *)
(*                                                                         *)
(* Text is abstract: a string is or is not a uuid, a time, or a known      *)
(* payment method or status.                                               *)
(***************************************************************************)
EXTENDS Integers, Sequences, Functions, FiniteSetsExt

CONSTANTS
  Uuids,   \* the strings that json.DecodeUUID and conv.ToUUID accept
  Times    \* the strings that json.DecodeDateTime accepts

JNull == [t |-> "null", s |-> "", n |-> 0]

JStr(x) == [t |-> "str", s |-> x, n |-> 0]

JNum(x) == [t |-> "num", s |-> "", n |-> x]

\* A JSON value, as far as a field may have one.
IsJson(j) == j = JNull \/ j = JStr(j.s) \/ j = JNum(j.n)

Member(key, value) == [key |-> key, value |-> value]

\* What the body of a message holds: nothing, a JSON object, or anything else
\* (another JSON value, or no JSON); trailing is data behind the object.
NoBody == [kind |-> "none", members |-> <<>>, trailing |-> FALSE]

OtherBody == [kind |-> "other", members |-> <<>>, trailing |-> FALSE]

Object(members) == [kind |-> "object", members |-> members, trailing |-> FALSE]
-----------------------------------------------------------------------------
(* OptNilUUID and OptNilPaymentMethod: the optional, nullable values. *)

Unset == [set |-> FALSE, null |-> FALSE, value |-> JNull]

SetToNull == [set |-> TRUE, null |-> TRUE, value |-> JNull]

NewOptNilUUID(v) == [set |-> TRUE, null |-> FALSE, value |-> v]

NewOptNilPaymentMethod(v) == [set |-> TRUE, null |-> FALSE, value |-> v]

\* Get: null and not set are the same to the caller.
HasUUID(o) == o.set /\ ~o.null

HasPaymentMethod(o) == o.set /\ ~o.null

EncodeOptNilUUID(o) == IF o.null THEN JNull ELSE o.value

EncodeOptNilPaymentMethod(o) == IF o.null THEN JNull ELSE o.value

DecodeOptNilUUID(j) == IF j = JNull THEN SetToNull ELSE NewOptNilUUID(j)

DecodeOptNilPaymentMethod(j) == IF j = JNull THEN SetToNull ELSE NewOptNilPaymentMethod(j)
-----------------------------------------------------------------------------
(* The values of the fields. *)

PaymentMethods == {"CARD", "SBP", "CREDIT_CARD", "INVESTOR_MONEY"}

OrderStatuses == {"PENDING_PAYMENT", "PAID", "CANCELLED", "ASSEMBLED"}

\* PaymentMethod.Decode and OrderStatus.Decode take any string, a value that
\* is none of the constants as it stands: that is left to Validate.
ReadsPaymentMethod(j) == j.t = "str"

ReadsOrderStatus(j) == j.t = "str"

ReadsUUID(j) == j.t = "str" /\ j.s \in Uuids

\* The decoder of a field of each type accepts the value.
Reads(type, j) ==
  CASE type = "UUID" -> ReadsUUID(j)
    [] type = "int64" -> j.t = "num"
    [] type = "string" -> j.t = "str"
    [] type = "DateTime" -> j.t = "str" /\ j.s \in Times
    [] type = "PaymentMethod" -> ReadsPaymentMethod(j)
    [] type = "OrderStatus" -> ReadsOrderStatus(j)
    [] type = "OptNilUUID" -> j = JNull \/ ReadsUUID(j)
    [] type = "OptNilPaymentMethod" -> j = JNull \/ ReadsPaymentMethod(j)

Optional(type) == type \in {"OptNilUUID", "OptNilPaymentMethod"}

EncodeValue(type, v) ==
  CASE type = "OptNilUUID" -> EncodeOptNilUUID(v)
    [] type = "OptNilPaymentMethod" -> EncodeOptNilPaymentMethod(v)
    [] OTHER -> v

DecodeValue(type, j) ==
  CASE type = "OptNilUUID" -> DecodeOptNilUUID(j)
    [] type = "OptNilPaymentMethod" -> DecodeOptNilPaymentMethod(j)
    [] OTHER -> j

\* The zero value a field has before it is decoded.
ZeroValue(type) == IF Optional(type) THEN Unset ELSE JNull
-----------------------------------------------------------------------------
(* The types.  The mask holds the places, from 0, of the required fields.  *)

Field(key, type) == [key |-> key, type |-> type]

CreateOrderRequest ==
  [fields |-> <<Field("hull_uuid", "UUID"), Field("engine_uuid", "UUID"),
                Field("shield_uuid", "OptNilUUID"), Field("weapon_uuid", "OptNilUUID")>>,
   mask |-> {0, 1}]

CreateOrderResponse ==
  [fields |-> <<Field("order_uuid", "UUID"), Field("total_price", "int64")>>, mask |-> {0, 1}]

PayOrderRequest == [fields |-> <<Field("payment_method", "PaymentMethod")>>, mask |-> {0}]

PayOrderResponse == [fields |-> <<Field("transaction_uuid", "UUID")>>, mask |-> {0}]

CancelOrderResponse == [fields |-> <<>>, mask |-> {}]

OrderDtoFields ==
  <<Field("order_uuid", "UUID"), Field("user_uuid", "UUID"),
    Field("hull_uuid", "UUID"), Field("engine_uuid", "UUID"),
    Field("shield_uuid", "OptNilUUID"), Field("weapon_uuid", "OptNilUUID"),
    Field("total_price", "int64"), Field("transaction_uuid", "OptNilUUID"),
    Field("payment_method", "OptNilPaymentMethod"), Field("status", "OrderStatus"),
    Field("created_at", "DateTime")>>

\* Two bytes: 01001111 and 00000110.
OrderDtoMask == {0, 1, 2, 3, 6} \cup {8 + 1, 8 + 2}

OrderDto == [fields |-> OrderDtoFields, mask |-> OrderDtoMask]

Error == [fields |-> <<Field("code", "int64"), Field("message", "string")>>, mask |-> {0, 1}]

\* The error answers of each operation, all with the methods of Error.
CancelOrderErrors == {"CancelOrderBadRequest", "CancelOrderConflict",
                      "CancelOrderInternalServerError", "CancelOrderNotFound"}

CreateOrderErrors == {"CreateOrderBadRequest", "CreateOrderConflict",
                      "CreateOrderInternalServerError", "CreateOrderNotFound"}

CreateOrderUnauthorized == "CreateOrderUnauthorized"

GetOrderErrors == {"GetOrderBadRequest", "GetOrderInternalServerError", "GetOrderNotFound"}

PayOrderErrors == {"PayOrderBadRequest", "PayOrderConflict",
                   "PayOrderInternalServerError", "PayOrderNotFound"}

ErrorTypes == CancelOrderErrors \cup CreateOrderErrors \cup {CreateOrderUnauthorized}
                \cup GetOrderErrors \cup PayOrderErrors

Schema(type) ==
  CASE type \in ErrorTypes -> Error
    [] type = "CreateOrderResponse" -> CreateOrderResponse
    [] type = "PayOrderResponse" -> PayOrderResponse
    [] type = "CancelOrderResponse" -> CancelOrderResponse
    [] type = "OrderDto" -> OrderDto
-----------------------------------------------------------------------------
Keys(T) == {T.fields[i].key : i \in DOMAIN T.fields}

\* The place of the field that has the key.
At(T, key) == CHOOSE i \in DOMAIN T.fields : T.fields[i].key = key

FieldType(T, key) == T.fields[At(T, key)].type

\* encodeFields: an optional field that is not set is left out.
Emitted(f, x) == Optional(f.type) => x[f.key].set

EncodeField(out, f, x) ==
  IF Emitted(f, x) THEN Append(out, Member(f.key, EncodeValue(f.type, x[f.key]))) ELSE out

\* The members after each of the fields.
EncodeFields(T, x) ==
  LET out[i \in 0 .. Len(T.fields)] == IF i = 0 THEN <<>> ELSE EncodeField(out[i - 1], T.fields[i], x)
  IN  out

Encode(T, x) == Object(EncodeFields(T, x)[Len(T.fields)])

\* A struct being decoded: bits is requiredBitSet.
Decoding(T) == [ok |-> TRUE, bits |-> {}, x |-> [key \in Keys(T) |-> ZeroValue(FieldType(T, key))]]

\* The callback of ObjBytes: a member of an unknown key is skipped, one of a
\* known key overwrites what an earlier one of that key has left, and the
\* first that does not decode ends it.
DecodeMember(T, d, m) ==
  IF ~d.ok \/ m.key \notin Keys(T) THEN d
  ELSE IF Reads(FieldType(T, m.key), m.value)
  THEN [ok |-> TRUE, bits |-> d.bits \cup {At(T, m.key) - 1},
        x |-> [d.x EXCEPT ![m.key] = DecodeValue(FieldType(T, m.key), m.value)]]
  ELSE [d EXCEPT !.ok = FALSE]

\* The struct after each of the members.
DecodeMembers(T, members) ==
  LET d[i \in 0 .. Len(members)] == IF i = 0 THEN Decoding(T) ELSE DecodeMember(T, d[i - 1], members[i])
  IN  d

\* Decode, and the check for data behind the object.
Decode(T, body) ==
  LET d == DecodeMembers(T, body.members)[Len(body.members)]
  IN  [ok |-> body.kind = "object" /\ d.ok /\ T.mask \subseteq d.bits /\ ~body.trailing, x |-> d.x]
-----------------------------------------------------------------------------
(* Validate *)

ValidPaymentMethod(v) == v.s \in PaymentMethods

ValidOrderStatus(v) == v.s \in OrderStatuses

ValidPayOrderRequest(x) == ValidPaymentMethod(x["payment_method"])

ValidOrderDto(x) ==
  /\ HasPaymentMethod(x["payment_method"]) => ValidPaymentMethod(x["payment_method"].value)
  /\ ValidOrderStatus(x["status"])
=============================================================================
