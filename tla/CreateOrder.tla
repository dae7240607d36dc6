----------------------------- MODULE CreateOrder -----------------------------
(***************************************************************************)
(* What POST /orders answers: the checks of the order service's Create and *)
(* of the inventory calls it makes, on one request, while other orders go  *)
(* on taking parts.  Create checks the uuids, fetches the parts, looks at  *)
(* their stock, has the inventory check slots and compatibility, and       *)
(* reserves; the first check that fails decides the HTTP code, through the *)
(* inventory's gRPC code and the order service's error of the same kind.   *)
(* Both services ask IAM for the caller's session, each call anew; it may  *)
(* expire or be logged out in between.  Any of the calls may fail.         *)
(*                                                                         *)
(* The catalogue is what the parts table holds: rows also come from        *)
(* outside the program, and a new row's properties are '{}'.               *)
(***************************************************************************)
EXTENDS Part, Sequences, FiniteSets

CONSTANTS
  Catalog,    \* the type and the properties of each row, by uuid
  Nil,        \* the nil uuid
  Unknown,    \* a uuid that names no row
  Absent,     \* no shield, or no weapon, in the request
  Requests,   \* the requests that come
  MaxStock,   \* bound on the seeded stock
  MaxOthers   \* bound: steps of other orders

Parts == DOMAIN Catalog

PartTypes == {"HULL", "ENGINE", "SHIELD", "WEAPON"}

\* kind is the key of the JSONB object: none for '{}', broken for a value that
\* does not unmarshal.  strength is a hull's strength or what an engine
\* requires; model is the class or the type of the others, which an object
\* of another kind does not have.
Record == [type : PartTypes \cup {"OTHER"},
           kind : {"hull", "engine", "shield", "weapon", "none", "broken"},
           strength : Nat,
           model : {"A", "energy", "plasma", "laser", "missile", "other"}]

Slots == {"hull", "engine", "shield", "weapon"}

ASSUME CreateAssumption ==
  /\ Catalog \in [Parts -> Record]
  /\ \A p \in Parts : Catalog[p].kind \in {"hull", "none", "broken"} => Catalog[p].model = "other"
  /\ IsFiniteSet(Parts)
  /\ {Nil, Unknown, Absent} \cap Parts = {}
  /\ Requests \subseteq [Slots -> Parts \cup {Nil, Unknown, Absent}]
  /\ \A r \in Requests : r["hull"] # Absent /\ r["engine"] # Absent
  /\ MaxStock \in Nat /\ MaxOthers \in Nat

VARIABLES
  request,
  session,    \* IAM vouches for the caller's session
  rows,       \* stock and reservations of the parts
  stage,      \* the check Create comes to next
  code,       \* the HTTP code of the answer
  panicked,   \* the inventory process has died on a nil pointer
  failed,     \* a call got no proper answer, or the insert did not go through
  others

vars == <<request, session, rows, stage, code, panicked, failed, others>>

Init ==
  /\ request \in Requests
  /\ rows \in [Parts -> [stock : 0 .. MaxStock, reserved : {0}]]
  /\ session \in BOOLEAN
  /\ stage = "auth"
  /\ code = 0
  /\ panicked = FALSE
  /\ failed = FALSE
  /\ others = 0
-----------------------------------------------------------------------------
(* The inventory's answers, as gRPC codes. *)

\* The uuids of the slots that are filled.
Filled(r) == {s \in Slots : r[s] # Absent}

Repeated(r) == \E s, t \in Filled(r) : s # t /\ r[s] = r[t] /\ r[s] # Nil

NewPartType(rec) == rec.type \in PartTypes

\* Mutants: one off at the lower bound, or at the upper one.
NewHullPropertiesOver30(rec) == rec.strength \in 31 .. 200

NewHullPropertiesTo201(rec) == rec.strength \in 30 .. 201

NewHullProperties(rec) == rec.strength \in 30 .. 200

\* A stands for the valid classes, which nothing else tells apart.
NewEngineProperties(rec) == rec.model = "A"

NewShieldProperties(rec) == rec.model \in {"energy", "plasma"}

NewWeaponProperties(rec) == rec.model \in {"laser", "missile"}

\* partPropertiesFromRecord: '{}' decodes, to properties that are all nil.
NewProperties(rec) ==
  \/ rec.kind = "hull" /\ NewHullProperties(rec)
  \/ rec.kind = "engine" /\ NewEngineProperties(rec)
  \/ rec.kind = "shield" /\ NewShieldProperties(rec)
  \/ rec.kind = "weapon" /\ NewWeaponProperties(rec)
  \/ rec.kind = "none"

Decodes(rec) == NewPartType(rec) /\ NewProperties(rec)

\* mapAndOrder, over the uuids of some slots.  JSON that does not unmarshal is
\* Unknown rather than Internal, which the order service does not tell apart.
List(r, slots) ==
  LET found == {r[s] : s \in slots} \cap Parts IN
  IF Cardinality(found) # Cardinality(slots) THEN "NotFound"
  ELSE IF \E p \in found : ~Decodes(Catalog[p]) THEN "Internal" ELSE "OK"

SlotType(s) ==
  CASE s = "hull" -> "HULL" [] s = "engine" -> "ENGINE" [] s = "shield" -> "SHIELD" [] OTHER -> "WEAPON"

\* Mutant: the type of the part is not compared with the slot's.
ResolveUntyped(r) ==
  LET slots == {s \in Filled(r) : r[s] # Nil} IN
  IF Nil \in {r["hull"], r["engine"]} \/ Repeated(r) THEN "InvalidArgument" ELSE List(r, slots)

\* resolveShipSlots.  A nil uuid counts as an empty slot.
Resolve(r) ==
  LET slots == {s \in Filled(r) : r[s] # Nil} IN
  IF Nil \in {r["hull"], r["engine"]} \/ Repeated(r) THEN "InvalidArgument"
  ELSE IF List(r, slots) # "OK" THEN List(r, slots)
  ELSE IF \E s \in slots : Catalog[r[s]].type # SlotType(s) THEN "InvalidArgument"
  ELSE "OK"

\* The slot is filled and the part has the properties of that kind.
Has(r, s) == r[s] \in Parts /\ Catalog[r[s]].kind = s

\* Mutant: a hull has to be stronger than the engine requires.
CanSupportMore(r) == Catalog[r["hull"]].strength > Catalog[r["engine"]].strength

CanSupport(r) == Catalog[r["hull"]].strength >= Catalog[r["engine"]].strength

ConflictsWith(r) ==
  Has(r, "shield") /\ Has(r, "weapon")
    /\ Catalog[r["shield"]].model = "plasma" /\ Catalog[r["weapon"]].model = "laser"

\* compatibilityChecker.Check reads the hull's and the engine's properties
\* through their pointers.
Check(r) ==
  IF ~Has(r, "hull") \/ ~Has(r, "engine") THEN "panic"
  ELSE IF ~CanSupport(r) \/ ConflictsWith(r) THEN "FailedPrecondition"
  ELSE "OK"

\* The order client's mapErrors, and then the HTTP error handler's mapError.
HttpCode(grpc) ==
  CASE grpc = "NotFound" -> 404
    [] grpc = "InvalidArgument" -> 400
    [] grpc \in {"FailedPrecondition", "ResourceExhausted"} -> 409
    [] OTHER -> 500
-----------------------------------------------------------------------------
(* The steps of Create. *)

Answer(c) == stage' = "done" /\ code' = c

Goto(s) == stage' = s /\ UNCHANGED code

\* The inventory's Auth interceptor comes before its handlers.
Authed(grpc) == IF session THEN grpc ELSE "Unauthenticated"

Ask(grpc, s) == IF grpc = "OK" THEN Goto(s) ELSE Answer(HttpCode(grpc))

AuthMiddleware ==
  /\ stage = "auth"
  /\ IF session THEN Goto("unique") ELSE Answer(401)
  /\ UNCHANGED <<request, session, rows, panicked, failed, others>>

ValidateUniqueUUIDs ==
  /\ stage = "unique"
  /\ IF Repeated(request) THEN Answer(400) ELSE Goto("list")
  /\ UNCHANGED <<request, session, rows, panicked, failed, others>>

\* ListParts, the number of parts it returned, and their stock.
ListParts ==
  LET answer == List(request, Filled(request)) IN
  /\ stage = "list"
  /\ Ask(IF Authed(answer) = "OK" /\ (\E s \in Filled(request) : rows[request[s]].stock = 0)
         THEN "ResourceExhausted" ELSE Authed(answer), "validate")
  /\ UNCHANGED <<request, session, rows, panicked, failed, others>>

ValidateCompatibility ==
  LET answer == Authed(IF Resolve(request) # "OK" THEN Resolve(request) ELSE Check(request)) IN
  /\ stage = "validate"
  /\ Ask(answer, "reserve")
  /\ panicked' = (answer = "panic")
  /\ UNCHANGED <<request, session, rows, failed, others>>

Wanted == {request[s] : s \in Filled(request)}

\* The inventory's side of ReserveParts.
Reserved ==
  /\ session /\ \A p \in Wanted : Can("Reserve", rows[p])
  /\ rows' = [p \in Parts |-> IF p \in Wanted THEN Apply("Reserve", rows[p]) ELSE rows[p]]

\* ReserveParts, and the order is inserted.
ReserveParts ==
  /\ stage = "reserve"
  /\ \/ Reserved /\ Answer(201)
     \/ /\ ~session \/ \E p \in Wanted : ~Can("Reserve", rows[p])
        /\ Answer(HttpCode(Authed("ResourceExhausted")))
        /\ UNCHANGED rows
  /\ UNCHANGED <<request, session, panicked, failed, others>>

\* Whoami, a call of the inventory or the insert fails: no answer in time, a
\* connection lost, a statement refused.  The middleware takes every error of
\* Whoami for a session that is not valid; to mapErrors and to mapError the
\* others are none of the errors they know.  The parts may have been reserved.
CallFails ==
  /\ stage \in {"auth", "list", "validate", "reserve"}
  /\ Answer(IF stage = "auth" THEN 401 ELSE HttpCode("Unavailable"))
  /\ UNCHANGED rows \/ (stage = "reserve" /\ Reserved)
  /\ failed' = TRUE
  /\ UNCHANGED <<request, session, panicked, others>>

\* Another order reserves a part, releases it, or is assembled from it.
Others(p, op) ==
  /\ stage # "done"
  /\ others < MaxOthers /\ others' = others + 1
  /\ Can(op, rows[p])
  /\ rows' = [rows EXCEPT ![p] = Apply(op, @)]
  /\ UNCHANGED <<request, session, stage, code, panicked, failed>>

\* The session expires, or its owner logs out.
SessionEnds ==
  /\ stage # "done" /\ session
  /\ session' = FALSE
  /\ UNCHANGED <<request, rows, stage, code, panicked, failed, others>>

Next ==
  \/ AuthMiddleware \/ SessionEnds \/ CallFails
  \/ ValidateUniqueUUIDs \/ ListParts \/ ValidateCompatibility \/ ReserveParts
  \/ \E p \in Parts, op \in Ops : Others(p, op)

Spec == Init /\ [][Next]_vars
-----------------------------------------------------------------------------
TypeOK ==
  /\ request \in Requests
  /\ rows \in [Parts -> Row]
  /\ session \in BOOLEAN
  /\ stage \in {"auth", "unique", "list", "validate", "reserve", "done"}
  /\ code \in {0, 201, 400, 401, 404, 409, 500}
  /\ panicked \in BOOLEAN /\ failed \in BOOLEAN
  /\ others \in 0 .. MaxOthers

(* What the answer should be, without the order of the checks. *)

\* Every slot has a part of its own type, and the ship can be built of them.
Buildable ==
  /\ \A s \in Filled(request) : request[s] \in Parts /\ Catalog[request[s]].type = SlotType(s)
  /\ Catalog[request["hull"]].strength >= Catalog[request["engine"]].strength
  /\ ~({"shield", "weapon"} \subseteq Filled(request)
         /\ Catalog[request["shield"]].model = "plasma" /\ Catalog[request["weapon"]].model = "laser")

\* The row has the properties of its type, with values that are allowed
\* ("Strength must be between 30 and 200", hull_properties.go).
Sound(rec) ==
  \/ rec.type = "HULL" /\ rec.kind = "hull" /\ 30 <= rec.strength /\ rec.strength <= 200
  \/ rec.type = "ENGINE" /\ rec.kind = "engine" /\ rec.model = "A"
  \/ rec.type = "SHIELD" /\ rec.kind = "shield" /\ rec.model \in {"energy", "plasma"}
  \/ rec.type = "WEAPON" /\ rec.kind = "weapon" /\ rec.model \in {"laser", "missile"}

\* An order is only ever created for a ship that can be built, on a hull and an
\* engine that are sound, of parts that were promised to it: whichever checks
\* the two services share out between them, and whatever other orders take in
\* the meantime.
CreatedIsBuildable ==
  code = 201 =>
    /\ Buildable
    /\ Sound(Catalog[request["hull"]]) /\ Sound(Catalog[request["engine"]])
    /\ \A p \in Wanted : rows[p].reserved > 0 /\ Covered(rows[p])

\* The code says what is wrong, as the OpenAPI document lists it: 400 for a
\* request no catalogue could serve as it stands, 404 for a part that does not
\* exist, 409 for parts that do not fit or are not to be had, 401 for a caller
\* without a session or when IAM fails, and 500 only for rows that are not
\* sound, a session that ended on the way (which mapErrors does not know from
\* other failures) or a call that failed.
CodeTellsWhy ==
  /\ code = 400 => Repeated(request) \/ \E s \in Filled(request) :
                     request[s] \in Parts /\ Catalog[request[s]].type # SlotType(s)
  /\ code = 404 => ~(Wanted \subseteq Parts)
  /\ code = 409 => ~Buildable \/ \E p \in Wanted \cap Parts : ~CanReserve(rows[p])
  /\ code = 401 => ~session \/ failed
  /\ code = 500 => ~session \/ failed \/ \E p \in Wanted \cap Parts : ~Sound(Catalog[p])

\* "Exactly one field is non-nil, decided by the part type"
\* (part_properties.go): Check meets no part without the properties of its
\* type, so the inventory does not die of one.
NoPanic == ~panicked
=============================================================================
