-------------------------- MODULE CreateOrderProofs --------------------------
(***************************************************************************)
(* What Create answers, for every catalogue, every request and any number  *)
(* of other orders.  The checks are spread over two services and four      *)
(* steps: the invariant says what the passed ones have established of the  *)
(* request, which none of the steps of the other orders can undo.          *)
(***************************************************************************)
EXTENDS CreateOrder, FiniteSetTheorems, TLAPS

\* An operation of the Part entity whose guard holds yields a row, and keeps it
\* covered (part.go: Reserve, Release and Commit).
LEMMA ApplyRow ==
  ASSUME NEW op \in Ops, NEW row \in Row, Can(op, row)
  PROVE  /\ Apply(op, row) \in Row
         /\ Covered(row) => Covered(Apply(op, row))
<1>1. CASE op = "Reserve"
  BY <1>1 DEF Ops, Row, Can, Apply, CanReserve, Reserve, Covered
<1>2. CASE op = "Release"
  BY <1>2 DEF Ops, Row, Can, Apply, CanRelease, Release, Covered
<1>3. CASE op = "Commit"
  BY <1>3 DEF Ops, Row, Can, Apply, CanCommit, Commit, Covered
<1> QED BY <1>1, <1>2, <1>3 DEF Ops

\* What each passed check has established, by the stage it leads to.
Checked ==
  /\ stage \in {"list", "validate", "reserve"} => ~Repeated(request)
  /\ stage \in {"validate", "reserve"} => List(request, Filled(request)) = "OK"
  /\ stage = "reserve" => Resolve(request) = "OK" /\ Check(request) = "OK"

\* Nothing is answered before the end.
Unanswered == stage # "done" => code = 0

AllCovered == \A p \in Parts : Covered(rows[p])

CreateInv ==
  /\ TypeOK
  /\ AllCovered
  /\ Unanswered
  /\ Checked
  /\ CreatedIsBuildable
  /\ CodeTellsWhy
-----------------------------------------------------------------------------
(* What the checks on the request establish. *)

\* There are four slots.
LEMMA SlotsFinite == IsFiniteSet(Slots)
<1>1. IsFiniteSet({"hull"})
  BY FS_Singleton
<1>2. IsFiniteSet({"hull"} \cup {"engine"})
  BY <1>1, FS_AddElement
<1>3. IsFiniteSet(({"hull"} \cup {"engine"}) \cup {"shield"})
  BY <1>2, FS_AddElement
<1>4. IsFiniteSet((({"hull"} \cup {"engine"}) \cup {"shield"}) \cup {"weapon"})
  BY <1>3, FS_AddElement
<1>5. Slots = (({"hull"} \cup {"engine"}) \cup {"shield"}) \cup {"weapon"}
  BY DEF Slots
<1> QED BY <1>4, <1>5

\* The rows that mapAndOrder finds are as many as the slots only when every
\* slot names a row.
LEMMA ListedAll ==
  ASSUME NEW r, NEW F \in SUBSET Slots, List(r, F) # "NotFound"
  PROVE  \A s \in F : r[s] \in Parts
<1> DEFINE ids == {r[s] : s \in F}
           f == [s \in F |-> r[s]]
<1>1. IsFiniteSet(F)
  BY SlotsFinite, FS_Subset
<1>2. f \in Surjection(F, ids)
  BY DEF Surjection
<1>3. IsFiniteSet(ids) /\ Cardinality(ids) <= Cardinality(F)
  BY <1>1, <1>2, FS_Surjection
<1>4. ids \cap Parts \in SUBSET ids
  OBVIOUS
<1>5. /\ Cardinality(ids \cap Parts) <= Cardinality(ids)
      /\ Cardinality(ids) = Cardinality(ids \cap Parts) => ids = ids \cap Parts
      /\ IsFiniteSet(ids \cap Parts)
  BY <1>3, <1>4, FS_Subset
<1>6. Cardinality(ids \cap Parts) = Cardinality(F)
  BY DEF List
<1>7. Cardinality(F) \in Nat /\ Cardinality(ids) \in Nat
  BY <1>1, <1>3, FS_CardinalityType
<1>8. ids = ids \cap Parts
  BY <1>3, <1>5, <1>6, <1>7
<1> QED BY <1>8

\* A request that names existing parts, each once, is not answered NotFound.
LEMMA AllListed ==
  ASSUME NEW r, NEW F \in SUBSET Slots, \A s \in F : r[s] \in Parts,
         \A s, t \in F : s # t => r[s] # r[t]
  PROVE  List(r, F) # "NotFound"
<1> DEFINE ids == {r[s] : s \in F}
           f == [s \in F |-> r[s]]
<1>1. IsFiniteSet(F)
  BY SlotsFinite, FS_Subset
<1>2. f \in Surjection(F, ids) /\ f \in Injection(F, ids)
  BY DEF Surjection, Injection, IsInjective
<1>3. ids \cap Parts = ids
  OBVIOUS
<1> HIDE DEF f
<1>4. Cardinality(ids) = Cardinality(F)
  BY <1>1, <1>2, FS_Surjection, Zenon
<1> QED BY <1>3, <1>4 DEF List

\* What ListParts answers tells of the rows behind it.
LEMMA ListCodes ==
  ASSUME NEW r, NEW F \in SUBSET Slots
  PROVE  /\ List(r, F) \in {"OK", "NotFound", "Internal"}
         /\ List(r, F) = "Internal" => \E s \in F : r[s] \in Parts /\ ~Decodes(Catalog[r[s]])
         /\ List(r, F) = "OK" => \A s \in F : r[s] \in Parts /\ Decodes(Catalog[r[s]])
<1>1. List(r, F) \in {"OK", "NotFound", "Internal"}
  BY DEF List
<1>2. List(r, F) = "Internal" => \E s \in F : r[s] \in Parts /\ ~Decodes(Catalog[r[s]])
  BY DEF List
<1>3. ASSUME List(r, F) = "OK" PROVE \A s \in F : r[s] \in Parts /\ Decodes(Catalog[r[s]])
  <2>1. \A s \in F : r[s] \in Parts
    BY <1>3, ListedAll
  <2> QED BY <1>3, <2>1 DEF List
<1> QED BY <1>1, <1>2, <1>3

\* The properties of a part of a slot's type are those of the slot, in a sound
\* row.
LEMMA SoundKind ==
  ASSUME NEW s \in Slots, NEW rec, rec.type = SlotType(s), Sound(rec)
  PROVE  rec.kind = s
BY DEF Slots, SlotType, Sound

\* A row that decodes and has the properties of its type is sound.
LEMMA DecodesSound ==
  ASSUME NEW s \in Slots, NEW rec \in Record, rec.type = SlotType(s), rec.kind = s, Decodes(rec)
  PROVE  Sound(rec)
BY DEF Slots, SlotType, Sound, Decodes, NewProperties, NewHullProperties, NewEngineProperties,
   NewShieldProperties, NewWeaponProperties, Record

\* A sound row decodes.
LEMMA SoundDecodes ==
  ASSUME NEW rec \in Record, Sound(rec)
  PROVE  Decodes(rec)
BY DEF Sound, Decodes, NewPartType, PartTypes, NewProperties, NewHullProperties, NewEngineProperties,
   NewShieldProperties, NewWeaponProperties, Record
-----------------------------------------------------------------------------
(* The stages. *)

\* The seeded rows and any request begin within the invariant.
LEMMA InitCreate == Init => CreateInv
<1> SUFFICES ASSUME Init PROVE CreateInv
  OBVIOUS
<1>1. TypeOK
  <2>1. rows \in [Parts -> Row]
    BY CreateAssumption DEF Init, Row
  <2>2. session \in BOOLEAN /\ panicked \in BOOLEAN /\ failed \in BOOLEAN
    BY Zenon DEF Init
  <2>3. others \in 0 .. MaxOthers
    BY CreateAssumption DEF Init
  <2> QED BY <2>1, <2>2, <2>3 DEF Init, TypeOK
<1>2. AllCovered
  BY DEF Init, AllCovered, Covered
<1> QED BY <1>1, <1>2 DEF CreateInv, Init, Unanswered, Checked, CreatedIsBuildable, CodeTellsWhy

\* A step that goes on to the next check answers nothing.
LEMMA NoAnswer ==
  ASSUME code' = 0
  PROVE  Unanswered' /\ CreatedIsBuildable' /\ CodeTellsWhy'
BY DEF Unanswered, CreatedIsBuildable, CodeTellsWhy

\* The auth middleware and validateUniqueUUIDs.
LEMMA FirstChecks ==
  ASSUME CreateInv, AuthMiddleware \/ ValidateUniqueUUIDs
  PROVE  CreateInv'
<1> USE DEF CreateInv, AuthMiddleware, ValidateUniqueUUIDs, Goto, Answer
<1>1. TypeOK'
  BY DEF TypeOK
<1>2. AllCovered' /\ Unanswered'
  BY DEF AllCovered, Unanswered
<1>3. Checked'
  BY DEF Checked
<1>4. CreatedIsBuildable' /\ CodeTellsWhy'
  <2>1. CASE code' = 0
    BY <2>1, NoAnswer
  <2>2. CASE code' = 401 /\ ~session
    BY <2>2 DEF CreatedIsBuildable, CodeTellsWhy
  <2>3. CASE code' = 400 /\ Repeated(request)
    BY <2>3 DEF CreatedIsBuildable, CodeTellsWhy
  <2> QED BY <2>1, <2>2, <2>3 DEF Unanswered
<1> QED BY <1>1, <1>2, <1>3, <1>4

\* ListParts: its error, a part that is sold out, or the next check.
LEMMA ListKeeps ==
  ASSUME CreateInv, ListParts
  PROVE  CreateInv'
<1> DEFINE F == Filled(request)
           ans == List(request, F)
           dry == \E s \in F : rows[request[s]].stock = 0
<1>1. F \in SUBSET Slots
  BY DEF Filled
<1>2. /\ stage = "list" /\ code = 0 /\ ~Repeated(request) /\ request \in Requests
      /\ rows \in [Parts -> Row] /\ session \in BOOLEAN
  BY DEF CreateInv, ListParts, Unanswered, Checked, TypeOK
<1>3. UNCHANGED <<request, session, rows, panicked, failed, others>>
  BY DEF ListParts
<1>4. \/ stage' = "validate" /\ code' = 0 /\ ans = "OK"
      \/ stage' = "done" /\ code' = 409 /\ ans = "OK" /\ dry
      \/ stage' = "done" /\ code' = 500 /\ ~session
      \/ stage' = "done" /\ code' = 404 /\ ans = "NotFound"
      \/ stage' = "done" /\ code' = 500 /\ ans = "Internal"
  <2>1. ans \in {"OK", "NotFound", "Internal"}
    BY <1>1, ListCodes
  <2>2. Ask(IF Authed(ans) = "OK" /\ dry THEN "ResourceExhausted" ELSE Authed(ans), "validate")
    BY DEF ListParts
  <2> HIDE DEF ans, dry
  <2>3. CASE ~session
    BY <2>2, <2>3 DEF Ask, Authed, Goto, Answer, HttpCode
  <2>4. CASE session
    BY <1>2, <2>1, <2>2, <2>4 DEF Ask, Authed, Goto, Answer, HttpCode
  <2> QED BY <2>3, <2>4
<1>5. TypeOK' /\ AllCovered' /\ Unanswered'
  BY <1>3, <1>4 DEF CreateInv, TypeOK, AllCovered, Unanswered
<1>6. Checked'
  BY <1>2, <1>3, <1>4 DEF Checked
<1>7. CreatedIsBuildable' /\ CodeTellsWhy'
  <2>1. CASE code' = 0
    BY <2>1, NoAnswer
  <2>2. CASE code' = 409 /\ ans = "OK" /\ dry
    <3>1. PICK s \in F : rows[request[s]].stock = 0
      BY <2>2
    <3>2. request[s] \in Parts
      BY <1>1, <2>2, ListCodes
    <3>3. ~CanReserve(rows[request[s]])
      BY <1>2, <3>1, <3>2 DEF CanReserve, Row
    <3>4. request[s] \in Wanted \cap Parts
      BY <3>2 DEF Wanted
    <3> QED BY <1>3, <2>2, <3>3, <3>4 DEF CreatedIsBuildable, CodeTellsWhy, Wanted
  <2>3. CASE code' = 500 /\ ~session
    BY <1>3, <2>3 DEF CreatedIsBuildable, CodeTellsWhy
  <2>4. CASE code' = 404 /\ ans = "NotFound"
    <3>1. ~(Wanted \subseteq Parts)
      <4> SUFFICES ASSUME Wanted \subseteq Parts PROVE FALSE
        OBVIOUS
      <4>1. \A s \in F : request[s] \in Parts
        BY DEF Wanted
      <4>2. \A s, t \in F : s # t => request[s] # request[t]
        BY <1>2, <4>1, CreateAssumption DEF Repeated
      <4> QED BY <1>1, <2>4, <4>1, <4>2, AllListed
    <3> QED BY <1>3, <2>4, <3>1 DEF CreatedIsBuildable, CodeTellsWhy, Wanted
  <2>5. CASE code' = 500 /\ ans = "Internal"
    <3>1. PICK s \in F : request[s] \in Parts /\ ~Decodes(Catalog[request[s]])
      BY <1>1, <2>5, ListCodes
    <3>2. request[s] \in Wanted \cap Parts /\ ~Sound(Catalog[request[s]])
      BY <3>1, SoundDecodes, CreateAssumption DEF Wanted
    <3> QED BY <1>3, <2>5, <3>2 DEF CreatedIsBuildable, CodeTellsWhy, Wanted
  <2> QED BY <1>4, <2>1, <2>2, <2>3, <2>4, <2>5
<1> QED BY <1>5, <1>6, <1>7 DEF CreateInv
-----------------------------------------------------------------------------
(* The checks of ValidateCompatibility, on a request that has been listed. *)

\* A listed request has no nil uuid left, so resolveShipSlots looks at every
\* slot and can only find a part of the wrong type.
LEMMA ResolveTells ==
  ASSUME NEW r \in Requests, ~Repeated(r), List(r, Filled(r)) = "OK"
  PROVE  \/ /\ Resolve(r) = "OK"
            /\ \A s \in Filled(r) : Catalog[r[s]].type = SlotType(s)
         \/ /\ Resolve(r) = "InvalidArgument"
            /\ \E s \in Filled(r) : r[s] \in Parts /\ Catalog[r[s]].type # SlotType(s)
<1>1. \A s \in Filled(r) : r[s] \in Parts
  BY ListCodes DEF Filled
<1>2. "hull" \in Filled(r) /\ "engine" \in Filled(r)
  BY CreateAssumption DEF Filled, Slots
<1>3. Nil \notin Parts
  BY CreateAssumption
<1>4. {s \in Filled(r) : r[s] # Nil} = Filled(r)
  BY <1>1, <1>3
<1>5. Nil \notin {r["hull"], r["engine"]}
  BY <1>1, <1>2, <1>3
<1>6. Resolve(r) = IF \E s \in Filled(r) : Catalog[r[s]].type # SlotType(s) THEN "InvalidArgument" ELSE "OK"
  BY <1>4, <1>5 DEF Resolve
<1> QED BY <1>1, <1>6

\* A panic needs a row that is not sound; a refusal, parts that do not fit.
LEMMA CheckTells ==
  ASSUME request \in Requests, List(request, Filled(request)) = "OK",
         \A s \in Filled(request) : Catalog[request[s]].type = SlotType(s)
  PROVE  \/ Check(request) = "OK" /\ Buildable
         \/ Check(request) = "FailedPrecondition" /\ ~Buildable
         \/ /\ Check(request) = "panic"
            /\ \E p \in Wanted \cap Parts : ~Sound(Catalog[p])
<1> DEFINE F == Filled(request)
<1>1. \A s \in F : request[s] \in Parts /\ Decodes(Catalog[request[s]])
  BY ListCodes DEF Filled
<1>2. "hull" \in F /\ "engine" \in F
  BY CreateAssumption DEF Filled, Slots
<1>3. CASE ~Has(request, "hull") \/ ~Has(request, "engine")
  <2>1. PICK s \in F : ~Has(request, s)
    BY <1>2, <1>3
  <2>2. request[s] \in Parts /\ Catalog[request[s]].kind # s
    BY <1>1, <2>1 DEF Has
  <2>3. ~Sound(Catalog[request[s]])
    BY <2>2, SoundKind DEF Filled
  <2>4. request[s] \in Wanted \cap Parts
    BY <2>2 DEF Wanted
  <2> QED BY <1>3, <2>3, <2>4 DEF Check
<1>4. CASE Has(request, "hull") /\ Has(request, "engine")
  <2>1. CASE ~CanSupport(request)
    BY <1>4, <2>1 DEF Check, Buildable, CanSupport
  <2>2. CASE CanSupport(request) /\ ConflictsWith(request)
    <3>1. "shield" \in F /\ "weapon" \in F
      BY <2>2, CreateAssumption DEF ConflictsWith, Has, Filled, Slots
    <3> QED BY <1>4, <2>2, <3>1 DEF Check, Buildable, ConflictsWith
  <2>3. CASE CanSupport(request) /\ ~ConflictsWith(request)
    <3>1. Check(request) = "OK"
      BY <1>4, <2>3 DEF Check
    <3>2. ASSUME {"shield", "weapon"} \subseteq F, Catalog[request["shield"]].model = "plasma",
                 Catalog[request["weapon"]].model = "laser"
          PROVE  FALSE
      <4>1. Catalog[request["shield"]].kind = "shield" /\ request["shield"] \in Parts
        BY <1>1, <3>2, CreateAssumption DEF Decodes, NewProperties, NewEngineProperties,
           NewWeaponProperties
      <4>2. Catalog[request["weapon"]].kind = "weapon" /\ request["weapon"] \in Parts
        BY <1>1, <3>2, CreateAssumption DEF Decodes, NewProperties, NewEngineProperties,
           NewShieldProperties
      <4> QED BY <2>3, <3>2, <4>1, <4>2 DEF ConflictsWith, Has
    <3>3. Buildable
      BY <1>1, <2>3, <3>2 DEF Buildable, CanSupport
    <3> QED BY <3>1, <3>3
  <2> QED BY <2>1, <2>2, <2>3
<1> QED BY <1>3, <1>4

\* ValidateCompatibility: its error, the inventory's panic, or the next check.
LEMMA ValidateKeeps ==
  ASSUME CreateInv, ValidateCompatibility
  PROVE  CreateInv'
<1>1. /\ stage = "validate" /\ code = 0 /\ ~Repeated(request) /\ request \in Requests
      /\ List(request, Filled(request)) = "OK" /\ session \in BOOLEAN
  BY DEF CreateInv, ValidateCompatibility, Unanswered, Checked, TypeOK
<1>2. UNCHANGED <<request, session, rows, failed, others>>
  BY DEF ValidateCompatibility
<1>3. \/ /\ stage' = "reserve" /\ code' = 0
         /\ Resolve(request) = "OK" /\ Check(request) = "OK"
      \/ stage' = "done" /\ code' = 500 /\ ~session
      \/ /\ stage' = "done" /\ code' = 400
         /\ \E s \in Filled(request) : request[s] \in Parts /\ Catalog[request[s]].type # SlotType(s)
      \/ stage' = "done" /\ code' = 409 /\ ~Buildable
      \/ stage' = "done" /\ code' = 500 /\ \E p \in Wanted \cap Parts : ~Sound(Catalog[p])
  <2>1. CASE ~session
    BY <2>1 DEF ValidateCompatibility, Ask, Authed, Answer, HttpCode
  <2>2. CASE session /\ Resolve(request) # "OK"
    <3>1. /\ Resolve(request) = "InvalidArgument"
          /\ \E s \in Filled(request) : request[s] \in Parts /\ Catalog[request[s]].type # SlotType(s)
      BY <1>1, <2>2, ResolveTells
    <3>2. stage' = "done" /\ code' = 400
      BY <2>2, <3>1 DEF ValidateCompatibility, Ask, Authed, Answer, HttpCode
    <3> QED BY <3>1, <3>2
  <2>3. CASE session /\ Resolve(request) = "OK"
    <3>1. \A s \in Filled(request) : Catalog[request[s]].type = SlotType(s)
      BY <1>1, <2>3, ResolveTells
    <3>2. Ask(Check(request), "reserve")
      BY <2>3 DEF ValidateCompatibility, Authed
    <3>3. CASE Check(request) = "OK"
      BY <1>1, <2>3, <3>2, <3>3 DEF Ask, Goto
    <3>4. CASE Check(request) = "FailedPrecondition" /\ ~Buildable
      BY <3>2, <3>4 DEF Ask, Answer, HttpCode
    <3>5. CASE Check(request) = "panic" /\ \E p \in Wanted \cap Parts : ~Sound(Catalog[p])
      BY <3>2, <3>5 DEF Ask, Answer, HttpCode
    <3> QED BY <1>1, <3>1, <3>3, <3>4, <3>5, CheckTells
  <2> QED BY <2>1, <2>2, <2>3
<1>4. panicked' \in BOOLEAN
  BY Zenon DEF ValidateCompatibility
<1>5. TypeOK' /\ AllCovered' /\ Unanswered'
  BY <1>2, <1>3, <1>4 DEF CreateInv, TypeOK, AllCovered, Unanswered
<1>6. Checked'
  BY <1>1, <1>2, <1>3 DEF Checked
<1>7. CreatedIsBuildable' /\ CodeTellsWhy'
  <2>1. Wanted' = Wanted /\ (Buildable' <=> Buildable)
    BY <1>2 DEF Wanted, Buildable
  <2>2. CASE code' = 0
    BY <2>2, NoAnswer
  <2>3. CASE code' = 500 /\ (~session \/ \E p \in Wanted \cap Parts : ~Sound(Catalog[p]))
    BY <1>2, <2>1, <2>3 DEF CreatedIsBuildable, CodeTellsWhy
  <2>4. CASE /\ code' = 400
             /\ \E s \in Filled(request) : request[s] \in Parts /\ Catalog[request[s]].type # SlotType(s)
    BY <1>2, <2>4 DEF CreatedIsBuildable, CodeTellsWhy
  <2>5. CASE code' = 409 /\ ~Buildable
    BY <2>1, <2>5 DEF CreatedIsBuildable, CodeTellsWhy
  <2> QED BY <1>3, <2>2, <2>3, <2>4, <2>5
<1> QED BY <1>5, <1>6, <1>7 DEF CreateInv

\* The checks leave no hull and no engine that is not sound.
LEMMA CheckedSound ==
  ASSUME request \in Requests, ~Repeated(request), List(request, Filled(request)) = "OK",
         Resolve(request) = "OK", Check(request) = "OK"
  PROVE  Sound(Catalog[request["hull"]]) /\ Sound(Catalog[request["engine"]])
<1>1. \A s \in Filled(request) : /\ request[s] \in Parts /\ Decodes(Catalog[request[s]])
                                /\ Catalog[request[s]].type = SlotType(s)
  BY ListCodes, ResolveTells DEF Filled
<1>2. {"hull", "engine"} \subseteq Filled(request) /\ {"hull", "engine"} \subseteq Slots
  BY CreateAssumption DEF Filled, Slots
<1>3. Has(request, "hull") /\ Has(request, "engine")
  BY DEF Check
<1>4. \A s \in {"hull", "engine"} : Sound(Catalog[request[s]])
  BY <1>1, <1>2, <1>3, DecodesSound, CreateAssumption DEF Has
<1> QED BY <1>4

\* ReserveParts, and the insert of the order.
LEMMA ReserveKeeps ==
  ASSUME CreateInv, ReserveParts
  PROVE  CreateInv'
<1>1. /\ stage = "reserve" /\ ~Repeated(request) /\ request \in Requests
      /\ List(request, Filled(request)) = "OK"
      /\ Resolve(request) = "OK" /\ Check(request) = "OK"
      /\ rows \in [Parts -> Row] /\ AllCovered
  BY DEF CreateInv, ReserveParts, Checked, TypeOK
<1>2. UNCHANGED <<request, session, panicked, failed, others>>
  BY DEF ReserveParts
<1>3. Wanted \subseteq Parts
  BY <1>1, ListCodes DEF Wanted, Filled
<1>4. Buildable
  <2>1. \A s \in Filled(request) : Catalog[request[s]].type = SlotType(s)
    BY <1>1, ResolveTells
  <2> QED BY <1>1, <2>1, CheckTells
<1>5. Wanted' = Wanted /\ (Buildable' <=> Buildable)
  BY <1>2 DEF Wanted, Buildable
<1>5a. Sound(Catalog[request["hull"]]) /\ Sound(Catalog[request["engine"]])
  BY <1>1, CheckedSound
<1>6. CASE /\ \A p \in Wanted : Can("Reserve", rows[p])
           /\ rows' = [p \in Parts |-> IF p \in Wanted THEN Apply("Reserve", rows[p]) ELSE rows[p]]
           /\ stage' = "done" /\ code' = 201
  <2>1. "Reserve" \in Ops
    BY DEF Ops
  <2>2. \A p \in Wanted : Apply("Reserve", rows[p]) \in Row /\ Covered(Apply("Reserve", rows[p]))
    BY <1>1, <1>3, <1>6, <2>1, ApplyRow DEF AllCovered
  <2>3. \A p \in Wanted : Apply("Reserve", rows[p]).reserved > 0
    BY <1>1, <1>3 DEF Apply, Reserve, Row
  <2>4. rows' \in [Parts -> Row] /\ AllCovered'
    BY <1>1, <1>6, <2>2 DEF AllCovered
  <2>5. TypeOK' /\ Unanswered' /\ Checked'
    BY <1>2, <1>6, <2>4 DEF CreateInv, TypeOK, Unanswered, Checked
  <2>6. CreatedIsBuildable' /\ CodeTellsWhy'
    BY <1>2, <1>3, <1>4, <1>5, <1>5a, <1>6, <2>2, <2>3 DEF CreatedIsBuildable, CodeTellsWhy
  <2> QED BY <2>4, <2>5, <2>6 DEF CreateInv
<1>7. CASE /\ ~session \/ \E p \in Wanted : ~Can("Reserve", rows[p])
           /\ Answer(HttpCode(Authed("ResourceExhausted")))
           /\ UNCHANGED rows
  <2>1. stage' = "done" /\ code' = IF session THEN 409 ELSE 500
    BY <1>7 DEF Answer, HttpCode, Authed
  <2>2. TypeOK' /\ AllCovered' /\ Unanswered' /\ Checked'
    BY <1>1, <1>2, <1>7, <2>1 DEF CreateInv, TypeOK, AllCovered, Unanswered, Checked
  <2>3. CASE session
    <3>1. \E p \in Wanted \cap Parts : ~CanReserve(rows[p])
      BY <1>3, <1>7, <2>3 DEF Can
    <3> QED BY <1>5, <1>7, <2>1, <2>2, <2>3, <3>1 DEF CreateInv, CreatedIsBuildable, CodeTellsWhy
  <2>4. CASE ~session
    BY <1>2, <2>1, <2>2, <2>4 DEF CreateInv, CreatedIsBuildable, CodeTellsWhy
  <2> QED BY <2>3, <2>4
<1> QED BY <1>6, <1>7 DEF ReserveParts, Reserved, Answer

\* A call that fails ends the request; what was reserved stays covered.
LEMMA FailureKeeps ==
  ASSUME CreateInv, CallFails
  PROVE  CreateInv'
<1>1. /\ stage' = "done" /\ failed' = TRUE /\ code' \in {401, 500}
      /\ UNCHANGED <<request, session, panicked, others>>
  BY DEF CallFails, Answer, HttpCode
<1>2. rows' \in [Parts -> Row] /\ AllCovered'
  <2>1. CASE UNCHANGED rows
    BY <2>1 DEF CreateInv, TypeOK, AllCovered
  <2>2. CASE stage = "reserve" /\ Reserved
    <3>1. Wanted \subseteq Parts
      BY <2>2, ListCodes DEF CreateInv, Checked, Wanted, Filled
    <3>2. \A p \in Wanted : Apply("Reserve", rows[p]) \in Row /\ Covered(Apply("Reserve", rows[p]))
      BY <2>2, <3>1, ApplyRow DEF CreateInv, TypeOK, AllCovered, Reserved, Ops
    <3> QED BY <2>2, <3>2 DEF CreateInv, TypeOK, AllCovered, Reserved
  <2> QED BY <2>1, <2>2 DEF CallFails
<1>3. TypeOK'
  BY <1>1, <1>2 DEF CreateInv, TypeOK
<1>4. Unanswered' /\ Checked' /\ CreatedIsBuildable' /\ CodeTellsWhy'
  BY <1>1 DEF Unanswered, Checked, CreatedIsBuildable, CodeTellsWhy
<1> QED BY <1>2, <1>3, <1>4 DEF CreateInv

\* Other orders and the end of the session touch nothing that was checked of
\* the request.
LEMMA ElsewhereKeeps ==
  ASSUME CreateInv, SessionEnds \/ \E p \in Parts, op \in Ops : Others(p, op)
  PROVE  CreateInv'
<1>1. code' = 0 /\ stage' = stage /\ request' = request /\ stage # "done"
  BY DEF CreateInv, Unanswered, SessionEnds, Others
<1>2. Checked' /\ CreatedIsBuildable' /\ CodeTellsWhy' /\ Unanswered'
  BY <1>1, NoAnswer DEF CreateInv, Checked
<1>3. TypeOK' /\ AllCovered'
  <2>1. CASE SessionEnds
    <3>1. session' \in BOOLEAN
      BY <2>1, Zenon DEF SessionEnds
    <3> QED BY <2>1, <3>1 DEF SessionEnds, CreateInv, TypeOK, AllCovered
  <2>2. ASSUME NEW p \in Parts, NEW op \in Ops, Others(p, op) PROVE TypeOK' /\ AllCovered'
    <3>1. Apply(op, rows[p]) \in Row /\ Covered(Apply(op, rows[p]))
      BY <2>2, ApplyRow DEF Others, CreateInv, TypeOK, AllCovered
    <3>2. others' \in 0 .. MaxOthers
      BY <2>2, CreateAssumption DEF Others, CreateInv, TypeOK
    <3> QED BY <2>2, <3>1, <3>2 DEF Others, CreateInv, TypeOK, AllCovered
  <2> QED BY <2>1, <2>2
<1> QED BY <1>2, <1>3 DEF CreateInv

\* Every step keeps the invariant.
LEMMA CreateStep == CreateInv /\ [Next]_vars => CreateInv'
<1>1. ASSUME CreateInv, UNCHANGED vars PROVE CreateInv'
  BY <1>1 DEF vars, CreateInv, TypeOK, AllCovered, Unanswered, Checked, CreatedIsBuildable, CodeTellsWhy,
     Buildable, Wanted
<1> QED BY <1>1, FirstChecks, ListKeeps, ValidateKeeps, ReserveKeeps, FailureKeeps, ElsewhereKeeps DEF Next

\* The invariant holds throughout, for every catalogue and request.
THEOREM CreateInvariance == Spec => []CreateInv
BY InitCreate, CreateStep, PTL DEF Spec

\* The request, the rows and the answer keep their types (create.go).
THEOREM CreateTypeCorrect == Spec => []TypeOK
<1>1. CreateInv => TypeOK
  BY DEF CreateInv
<1> QED BY <1>1, CreateInvariance, PTL

\* Whatever the catalogue holds and whatever other orders take in between, 201
\* is answered only for a ship that can be built of parts reserved for it
\* (create.go, validate_compatibility.go, reserve.go).
THEOREM CreatedIsBuildableHolds == Spec => []CreatedIsBuildable
<1>1. CreateInv => CreatedIsBuildable
  BY DEF CreateInv
<1> QED BY <1>1, CreateInvariance, PTL

\* Every error code names something that is wrong with the request, the rows
\* or the session at that moment (the inventory client, error_handler.go).
THEOREM CodeTellsWhyHolds == Spec => []CodeTellsWhy
<1>1. CreateInv => CodeTellsWhy
  BY DEF CreateInv
<1> QED BY <1>1, CreateInvariance, PTL

\* The inventory dies in Check only of a requested row that breaks the rule
\* "exactly one field is non-nil, decided by the part type": the run with a
\* bare row is the only way there is.
PanicNeedsUnsound == panicked => \E p \in Wanted \cap Parts : ~Sound(Catalog[p])

\* No catalogue of sound rows makes compatibilityChecker.Check read through a
\* nil pointer (compatibility_checker.go).
THEOREM PanicNeedsUnsoundHolds == Spec => []PanicNeedsUnsound
<1>1. Init => PanicNeedsUnsound
  BY DEF Init, PanicNeedsUnsound
<1>2. CreateInv /\ PanicNeedsUnsound /\ [Next]_vars => PanicNeedsUnsound'
  <2> SUFFICES ASSUME CreateInv, PanicNeedsUnsound, [Next]_vars, panicked'
               PROVE  (\E p \in Wanted \cap Parts : ~Sound(Catalog[p]))'
    BY DEF PanicNeedsUnsound
  <2>1. request' = request
    BY DEF Next, vars, AuthMiddleware, SessionEnds, ValidateUniqueUUIDs, ListParts, ValidateCompatibility,
       ReserveParts, CallFails, Others
  <2>2. Wanted' = Wanted
    BY <2>1 DEF Wanted
  <2>3. CASE ValidateCompatibility
    <3>1. /\ request \in Requests /\ ~Repeated(request) /\ List(request, Filled(request)) = "OK"
      BY <2>3 DEF CreateInv, ValidateCompatibility, Checked, TypeOK
    <3>2. Authed(IF Resolve(request) # "OK" THEN Resolve(request) ELSE Check(request)) = "panic"
      BY <2>3 DEF ValidateCompatibility
    <3>3. (IF Resolve(request) # "OK" THEN Resolve(request) ELSE Check(request)) = "panic"
      BY <3>2 DEF Authed
    <3>4. Resolve(request) = "OK" /\ Check(request) = "panic"
      BY <3>1, <3>3, ResolveTells
    <3>5. \A s \in Filled(request) : Catalog[request[s]].type = SlotType(s)
      BY <3>1, <3>4, ResolveTells
    <3>6. \E p \in Wanted \cap Parts : ~Sound(Catalog[p])
      BY <3>1, <3>4, <3>5, CheckTells
    <3> QED BY <2>2, <3>6
  <2>4. CASE ~ValidateCompatibility
    <3>1. panicked' = panicked
      BY <2>4 DEF Next, vars, AuthMiddleware, SessionEnds, ValidateUniqueUUIDs, ListParts, ReserveParts, CallFails, Others
    <3> QED BY <2>2, <3>1 DEF PanicNeedsUnsound
  <2> QED BY <2>3, <2>4
<1> QED BY <1>1, <1>2, CreateInvariance, PTL DEF Spec
=============================================================================
