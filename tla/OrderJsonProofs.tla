--------------------------- MODULE OrderJsonProofs ---------------------------
(***************************************************************************)
(* What the generated encoders and decoders of the order API compute, for  *)
(* bodies of any length: which values the decoder reads, which members the *)
(* encoder writes, and that the one undoes the other.  Both are loops, so  *)
(* the proofs are by induction on the number of rounds.                    *)
(***************************************************************************)
EXTENDS OrderJson, WellFoundedInduction, TLAPS
-----------------------------------------------------------------------------
(* Induction over the rounds of a loop. *)

\* A set with 0 that holds the successor of each of its numbers holds all.
LEMMA Induction ==
  ASSUME NEW S, 0 \in S, \A n \in Nat : n \in S => n + 1 \in S
  PROVE  Nat \subseteq S
<1> DEFINE Missing == Nat \ S
           R == OpToRel(<, Nat)
<1> SUFFICES ASSUME Missing # {} PROVE FALSE
  OBVIOUS
<1>1. IsWellFoundedOn(R, Nat)
  BY NatLessThanWellFounded
<1>2. \A m, n \in Nat : <<m, n>> \in R <=> m < n
  BY DEF OpToRel
<1> HIDE DEF R
<1>3. Missing \subseteq Nat
  OBVIOUS
<1>4. PICK n \in Missing : \A m \in Missing : ~(<<m, n>> \in R)
  BY <1>1, <1>3, WFMin
<1>5. n - 1 \in Nat /\ n = (n - 1) + 1
  OBVIOUS
<1>6. n - 1 \in Missing
  BY <1>5
<1>7. <<n - 1, n>> \in R
  BY <1>2, <1>5
<1> QED BY <1>4, <1>6, <1>7

\* Max of a set of places is one of them, and none is behind it.
LEMMA HasMax ==
  ASSUME NEW n \in Nat, NEW S \in SUBSET (1 .. n), S # {}
  PROVE  Max(S) \in S /\ \A i \in S : i <= Max(S)
<1> DEFINE P == {m \in Nat : m <= n => \A U \in SUBSET (1 .. m) :
                               U # {} => \E x \in U : \A y \in U : x >= y}
<1>1. 0 \in P
  <2>1. \A U \in SUBSET (1 .. 0) : U = {}
    OBVIOUS
  <2> QED BY <2>1
<1>2. ASSUME NEW m \in Nat, m \in P PROVE m + 1 \in P
  <2> SUFFICES ASSUME m + 1 <= n, NEW U \in SUBSET (1 .. m + 1), U # {}
               PROVE  \E x \in U : \A y \in U : x >= y
    OBVIOUS
  <2>1. CASE m + 1 \in U
    BY <2>1
  <2>2. CASE m + 1 \notin U
    <3>1. U \in SUBSET (1 .. m) /\ m <= n
      BY <2>2
    <3> QED BY <1>2, <3>1
  <2> QED BY <2>1, <2>2
<1>3. n \in P
  <2> HIDE DEF P
  <2> QED BY <1>1, <1>2, Induction
<1>4. \E x \in S : \A y \in S : x >= y
  BY <1>3
<1> QED BY <1>4 DEF Max
-----------------------------------------------------------------------------
(* The loops. *)

\* The encoder's loop over the fields is well defined.
LEMMA EncodeLoop ==
  ASSUME NEW T, NEW x, Len(T.fields) \in Nat
  PROVE  /\ EncodeFields(T, x)[0] = <<>>
         /\ \A i \in 1 .. Len(T.fields) :
              EncodeFields(T, x)[i] = EncodeField(EncodeFields(T, x)[i - 1], T.fields[i], x)
<1> DEFINE Out(n, g) == [i \in 0 .. n |-> IF i = 0 THEN <<>> ELSE EncodeField(g[i - 1], T.fields[i], x)]
           S == {n \in Nat : n <= Len(T.fields) => \E g : g = Out(n, g)}
<1>1. 0 \in S
  <2>1. [i \in 0 .. 0 |-> <<>>] = Out(0, [i \in 0 .. 0 |-> <<>>])
    OBVIOUS
  <2> QED BY <2>1
<1>2. ASSUME NEW n \in Nat, n \in S PROVE n + 1 \in S
  <2> SUFFICES ASSUME n + 1 <= Len(T.fields) PROVE \E g : g = Out(n + 1, g)
    OBVIOUS
  <2>1. PICK g : g = Out(n, g)
    BY <1>2
  <2> DEFINE h == [i \in 0 .. n + 1 |-> IF i <= n THEN g[i] ELSE EncodeField(g[n], T.fields[n + 1], x)]
  <2>2. \A i \in 0 .. n + 1 : h[i] = IF i = 0 THEN <<>> ELSE EncodeField(h[i - 1], T.fields[i], x)
    BY <2>1
  <2>3. h = Out(n + 1, h)
    BY <2>2
  <2> QED BY <2>3
<1>3. \E g : g = Out(Len(T.fields), g)
  <2> HIDE DEF S
  <2>1. Len(T.fields) \in S
    BY <1>1, <1>2, Induction
  <2> QED BY <2>1 DEF S
<1>4. EncodeFields(T, x) = Out(Len(T.fields), EncodeFields(T, x))
  BY <1>3 DEF EncodeFields
<1> QED BY <1>4

\* So is the decoder's, over the members of the body.
LEMMA DecodeLoop ==
  ASSUME NEW T, NEW ms, Len(ms) \in Nat
  PROVE  /\ DecodeMembers(T, ms)[0] = Decoding(T)
         /\ \A i \in 1 .. Len(ms) :
              DecodeMembers(T, ms)[i] = DecodeMember(T, DecodeMembers(T, ms)[i - 1], ms[i])
<1> DEFINE D(n, g) == [i \in 0 .. n |-> IF i = 0 THEN Decoding(T) ELSE DecodeMember(T, g[i - 1], ms[i])]
           S == {n \in Nat : n <= Len(ms) => \E g : g = D(n, g)}
<1>1. 0 \in S
  <2>1. [i \in 0 .. 0 |-> Decoding(T)] = D(0, [i \in 0 .. 0 |-> Decoding(T)])
    OBVIOUS
  <2> QED BY <2>1
<1>2. ASSUME NEW n \in Nat, n \in S PROVE n + 1 \in S
  <2> SUFFICES ASSUME n + 1 <= Len(ms) PROVE \E g : g = D(n + 1, g)
    OBVIOUS
  <2>1. PICK g : g = D(n, g)
    BY <1>2
  <2> DEFINE h == [i \in 0 .. n + 1 |-> IF i <= n THEN g[i] ELSE DecodeMember(T, g[n], ms[n + 1])]
  <2>2. \A i \in 0 .. n + 1 : h[i] = IF i = 0 THEN Decoding(T) ELSE DecodeMember(T, h[i - 1], ms[i])
    BY <2>1
  <2>3. h = D(n + 1, h)
    BY <2>2
  <2> QED BY <2>3
<1>3. \E g : g = D(Len(ms), g)
  <2> HIDE DEF S
  <2>1. Len(ms) \in S
    BY <1>1, <1>2, Induction
  <2> QED BY <2>1 DEF S
<1>4. DecodeMembers(T, ms) = D(Len(ms), DecodeMembers(T, ms))
  BY <1>3 DEF DecodeMembers
<1> QED BY <1>4
-----------------------------------------------------------------------------
(* The decoder. *)

\* The generated type: no two fields of the same key, and the mask of required
\* fields is that of those that are not optional.
SchemaOK(T) ==
  /\ Len(T.fields) \in Nat /\ DOMAIN T.fields = 1 .. Len(T.fields)
  /\ \A i, j \in DOMAIN T.fields : T.fields[i].key = T.fields[j].key => i = j
  /\ \A i \in DOMAIN T.fields : ~Optional(T.fields[i].type) <=> i - 1 \in T.mask
  /\ \A b \in T.mask : b \in Nat /\ b + 1 \in DOMAIN T.fields

\* The decoder accepts the member: it knows its key and reads its value, or
\* does not know the key.
Accepted(T, m) == m.key \in Keys(T) => Reads(FieldType(T, m.key), m.value)

\* What has become of the struct after n members.
After(T, ms, n, d) ==
  /\ d.ok \in BOOLEAN /\ DOMAIN d = {"ok", "bits", "x"}
  /\ d.x = [key \in Keys(T) |-> d.x[key]]
  /\ d.ok <=> \A i \in 1 .. n : Accepted(T, ms[i])
  /\ d.ok =>
       /\ \A b : b \in d.bits <=> \E i \in 1 .. n : ms[i].key \in Keys(T) /\ b = At(T, ms[i].key) - 1
       /\ \A key \in Keys(T) :
            /\ (\A i \in 1 .. n : ms[i].key # key) => d.x[key] = ZeroValue(FieldType(T, key))
            /\ \A i \in 1 .. n : ms[i].key = key /\ (\A j \in i + 1 .. n : ms[j].key # key) =>
                 d.x[key] = DecodeValue(FieldType(T, key), ms[i].value)

\* One more member: it is skipped, overwrites its field, or ends the decoding.
LEMMA OneMember ==
  ASSUME NEW T, NEW ms, NEW n \in Nat, NEW d, After(T, ms, n, d)
  PROVE  After(T, ms, n + 1, DecodeMember(T, d, ms[n + 1]))
<1> DEFINE m == ms[n + 1]
           e == DecodeMember(T, d, m)
<1>0. 1 .. n + 1 = (1 .. n) \cup {n + 1}
  OBVIOUS
<1>1. CASE ~d.ok
  <2>1. e = d
    BY <1>1 DEF DecodeMember
  <2> QED BY <1>0, <1>1, <2>1 DEF After
<1>2. CASE d.ok /\ m.key \notin Keys(T)
  <2>1. e = d
    BY <1>2 DEF DecodeMember
  <2>2. Accepted(T, m)
    BY <1>2 DEF Accepted
  <2>3. \A key \in Keys(T) : m.key # key
    BY <1>2
  <2>4. ASSUME NEW key \in Keys(T)
        PROVE  /\ (\A i \in 1 .. n + 1 : ms[i].key # key) => d.x[key] = ZeroValue(FieldType(T, key))
               /\ \A i \in 1 .. n + 1 : ms[i].key = key /\ (\A j \in i + 1 .. n + 1 : ms[j].key # key) =>
                    d.x[key] = DecodeValue(FieldType(T, key), ms[i].value)
    <3>1. \A i \in 1 .. n : i + 1 .. n \subseteq i + 1 .. n + 1
      OBVIOUS
    <3> QED BY <1>0, <1>2, <2>3, <3>1 DEF After
  <2>5. \A b : b \in d.bits <=> \E i \in 1 .. n + 1 : ms[i].key \in Keys(T) /\ b = At(T, ms[i].key) - 1
    BY <1>0, <1>2 DEF After
  <2>6. \A i \in 1 .. n + 1 : Accepted(T, ms[i])
    BY <1>0, <1>2, <2>2 DEF After
  <2>7. d.ok \in BOOLEAN /\ DOMAIN d = {"ok", "bits", "x"} /\ d.x = [key \in Keys(T) |-> d.x[key]]
    BY DEF After
  <2>8. After(T, ms, n + 1, d)
    BY <1>2, <2>4, <2>5, <2>6, <2>7 DEF After
  <2> QED BY <2>1, <2>8
<1>3. CASE d.ok /\ m.key \in Keys(T) /\ ~Reads(FieldType(T, m.key), m.value)
  <2>1. e = [d EXCEPT !.ok = FALSE]
    BY <1>3 DEF DecodeMember
  <2>2. e.ok = FALSE /\ e.x = d.x /\ DOMAIN e = {"ok", "bits", "x"}
    BY <2>1 DEF After
  <2>3. ~Accepted(T, m)
    BY <1>3 DEF Accepted
  <2> HIDE DEF e
  <2> QED BY <1>0, <2>2, <2>3 DEF After, e
<1>4. CASE d.ok /\ m.key \in Keys(T) /\ Reads(FieldType(T, m.key), m.value)
  <2> DEFINE v == DecodeValue(FieldType(T, m.key), m.value)
  <2>1. e = [ok |-> TRUE, bits |-> d.bits \cup {At(T, m.key) - 1}, x |-> [d.x EXCEPT ![m.key] = v]]
    BY <1>4 DEF DecodeMember
  <2> HIDE DEF v
  <2>2. /\ e.ok = TRUE /\ DOMAIN e = {"ok", "bits", "x"}
        /\ e.bits = d.bits \cup {At(T, m.key) - 1} /\ e.x = [d.x EXCEPT ![m.key] = v]
    BY <2>1
  <2> HIDE DEF e
  <2>3. /\ e.x = [key \in Keys(T) |-> e.x[key]]
        /\ e.x[m.key] = v /\ \A key \in Keys(T) \ {m.key} : e.x[key] = d.x[key]
    BY <1>4, <2>2 DEF After
  <2>4. \A i \in 1 .. n + 1 : Accepted(T, ms[i])
    BY <1>0, <1>4 DEF After, Accepted
  <2>5. \A b : b \in e.bits <=> \E i \in 1 .. n + 1 : ms[i].key \in Keys(T) /\ b = At(T, ms[i].key) - 1
    BY <1>0, <1>4, <2>2 DEF After
  <2>6. ASSUME NEW key \in Keys(T), key = m.key
        PROVE  /\ ~\A i \in 1 .. n + 1 : ms[i].key # key
               /\ \A i \in 1 .. n + 1 : ms[i].key = key /\ (\A j \in i + 1 .. n + 1 : ms[j].key # key) =>
                    e.x[key] = DecodeValue(FieldType(T, key), ms[i].value)
    <3>1. \A i \in 1 .. n : n + 1 \in i + 1 .. n + 1
      OBVIOUS
    <3> QED BY <1>0, <2>3, <2>6, <3>1 DEF v
  <2>7. ASSUME NEW key \in Keys(T), key # m.key
        PROVE  /\ (\A i \in 1 .. n + 1 : ms[i].key # key) => e.x[key] = ZeroValue(FieldType(T, key))
               /\ \A i \in 1 .. n + 1 : ms[i].key = key /\ (\A j \in i + 1 .. n + 1 : ms[j].key # key) =>
                    e.x[key] = DecodeValue(FieldType(T, key), ms[i].value)
    <3>1. e.x[key] = d.x[key]
      BY <2>3, <2>7
    <3>2. \A i \in 1 .. n : i + 1 .. n \subseteq i + 1 .. n + 1
      OBVIOUS
    <3> QED BY <1>0, <1>4, <2>7, <3>1, <3>2 DEF After
  <2> QED BY <2>2, <2>3, <2>4, <2>5, <2>6, <2>7 DEF After, e
<1> QED BY <1>1, <1>2, <1>3, <1>4 DEF After

\* The decoder accepts a body when it accepts each member; of a key that
\* repeats the last one counts, and a missing one has its zero value.
LEMMA DecodedMembers ==
  ASSUME NEW T, NEW ms, Len(ms) \in Nat
  PROVE  After(T, ms, Len(ms), DecodeMembers(T, ms)[Len(ms)])
<1> DEFINE D == DecodeMembers(T, ms)
           S == {n \in Nat : n <= Len(ms) => After(T, ms, n, D[n])}
<1>0. D[0] = Decoding(T) /\ \A i \in 1 .. Len(ms) : D[i] = DecodeMember(T, D[i - 1], ms[i])
  BY DecodeLoop
<1> HIDE DEF D
<1>1. 0 \in S
  <2>1. /\ D[0].ok = TRUE /\ D[0].bits = {} /\ DOMAIN D[0] = {"ok", "bits", "x"}
        /\ D[0].x = [key \in Keys(T) |-> ZeroValue(FieldType(T, key))]
    BY <1>0 DEF Decoding
  <2>2. 1 .. 0 = {}
    OBVIOUS
  <2>3. D[0].ok \in BOOLEAN /\ D[0].x = [key \in Keys(T) |-> D[0].x[key]]
    BY <2>1
  <2>4. After(T, ms, 0, D[0])
    BY <2>1, <2>2, <2>3 DEF After
  <2> QED BY <2>4
<1>2. ASSUME NEW n \in Nat, n \in S PROVE n + 1 \in S
  <2> SUFFICES ASSUME n + 1 <= Len(ms) PROVE After(T, ms, n + 1, D[n + 1])
    OBVIOUS
  <2>1. After(T, ms, n, D[n])
    BY <1>2
  <2>2. D[n + 1] = DecodeMember(T, D[n], ms[n + 1])
    BY <1>0
  <2> QED BY <2>1, <2>2, OneMember
<1>3. Len(ms) \in S
  <2> HIDE DEF S
  <2> QED BY <1>1, <1>2, Induction
<1> QED BY <1>3 DEF D
-----------------------------------------------------------------------------
\* The place of a key is that of its field.
LEMMA PlaceOfKey ==
  ASSUME NEW T, SchemaOK(T)
  PROVE  /\ \A i \in DOMAIN T.fields :
              /\ T.fields[i].key \in Keys(T) /\ At(T, T.fields[i].key) = i
              /\ FieldType(T, T.fields[i].key) = T.fields[i].type
         /\ \A key \in Keys(T) : At(T, key) \in DOMAIN T.fields /\ T.fields[At(T, key)].key = key
<1>1. ASSUME NEW i \in DOMAIN T.fields
      PROVE  /\ T.fields[i].key \in Keys(T) /\ At(T, T.fields[i].key) = i
             /\ FieldType(T, T.fields[i].key) = T.fields[i].type
  <2>1. \A j \in DOMAIN T.fields : T.fields[j].key = T.fields[i].key => j = i
    BY DEF SchemaOK
  <2>2. At(T, T.fields[i].key) = i
    BY <2>1 DEF At
  <2> QED BY <2>2 DEF Keys, FieldType
<1>2. ASSUME NEW key \in Keys(T) PROVE At(T, key) \in DOMAIN T.fields /\ T.fields[At(T, key)].key = key
  <2>1. \E i \in DOMAIN T.fields : T.fields[i].key = key
    BY DEF Keys
  <2> QED BY <2>1 DEF At
<1> QED BY <1>1, <1>2

\* Decode (oas_json_gen.go): the body is an object and nothing else, each of
\* its members is accepted, and every field that is not optional is there.
LEMMA DecodeAccepts ==
  ASSUME NEW T, SchemaOK(T), NEW body, Len(body.members) \in Nat
  PROVE  Decode(T, body).ok <=>
           /\ body.kind = "object" /\ ~body.trailing
           /\ \A i \in 1 .. Len(body.members) : Accepted(T, body.members[i])
           /\ \A f \in DOMAIN T.fields : ~Optional(T.fields[f].type) =>
                \E i \in 1 .. Len(body.members) : body.members[i].key = T.fields[f].key
<1> DEFINE ms == body.members
           d == DecodeMembers(T, ms)[Len(ms)]
<1>1. After(T, ms, Len(ms), d)
  BY DecodedMembers
<1>2. Decode(T, body).ok <=> body.kind = "object" /\ d.ok /\ T.mask \subseteq d.bits /\ ~body.trailing
  BY DEF Decode
<1> HIDE DEF d
<1>3. ASSUME d.ok
      PROVE  T.mask \subseteq d.bits <=>
               \A f \in DOMAIN T.fields : ~Optional(T.fields[f].type) =>
                 \E i \in 1 .. Len(ms) : ms[i].key = T.fields[f].key
  <2>1. ASSUME NEW f \in DOMAIN T.fields
        PROVE  f - 1 \in d.bits <=> \E i \in 1 .. Len(ms) : ms[i].key = T.fields[f].key
    <3>0. \A g \in DOMAIN T.fields : g \in Int
      BY DEF SchemaOK
    <3>1. \A i \in 1 .. Len(ms) : ms[i].key \in Keys(T) => At(T, ms[i].key) \in Int
      BY <3>0, PlaceOfKey
    <3>2. f \in Int
      BY <3>0
    <3>3. f - 1 \in d.bits <=> \E i \in 1 .. Len(ms) : ms[i].key \in Keys(T) /\ At(T, ms[i].key) = f
      BY <1>1, <1>3, <3>1, <3>2 DEF After
    <3> QED BY <3>3, PlaceOfKey
  <2>2. \A f \in DOMAIN T.fields : ~Optional(T.fields[f].type) <=> f - 1 \in T.mask
    BY DEF SchemaOK
  <2>3. \A b \in T.mask : b \in Int /\ b + 1 \in DOMAIN T.fields /\ b = (b + 1) - 1
    BY DEF SchemaOK
  <2> QED BY <2>1, <2>2, <2>3
<1> QED BY <1>1, <1>2, <1>3 DEF After

\* Of a key that repeats the last value counts, whatever came before it; a
\* field that is missing keeps its zero value.
LEMMA DecodeTakesLast ==
  ASSUME NEW T, NEW body, Len(body.members) \in Nat, Decode(T, body).ok, NEW key \in Keys(T)
  PROVE  /\ DOMAIN Decode(T, body).x = Keys(T)
         /\ (\A i \in 1 .. Len(body.members) : body.members[i].key # key) =>
              Decode(T, body).x[key] = ZeroValue(FieldType(T, key))
         /\ \A i \in 1 .. Len(body.members) :
              body.members[i].key = key /\ (\A j \in i + 1 .. Len(body.members) : body.members[j].key # key) =>
                Decode(T, body).x[key] = DecodeValue(FieldType(T, key), body.members[i].value)
<1> DEFINE ms == body.members
           d == DecodeMembers(T, ms)[Len(ms)]
<1>1. After(T, ms, Len(ms), d)
  BY DecodedMembers
<1>2. d.ok /\ Decode(T, body).x = d.x
  BY DEF Decode
<1> HIDE DEF d
<1> QED BY <1>1, <1>2 DEF After
-----------------------------------------------------------------------------
(* The encoder. *)

MemberOf(f, x) == Member(f.key, EncodeValue(f.type, x[f.key]))

\* What the first n fields have become.
Written(T, x, n, out) ==
  /\ out \in Seq({MemberOf(T.fields[i], x) : i \in DOMAIN T.fields})
  /\ \A j \in DOMAIN out : \E i \in 1 .. n : Emitted(T.fields[i], x) /\ out[j] = MemberOf(T.fields[i], x)
  /\ \A i \in 1 .. n : Emitted(T.fields[i], x) => \E j \in DOMAIN out : out[j] = MemberOf(T.fields[i], x)

\* One more field is appended, or left out.
LEMMA OneField ==
  ASSUME NEW T, NEW x, NEW n \in Nat, n + 1 \in DOMAIN T.fields, NEW out, Written(T, x, n, out)
  PROVE  Written(T, x, n + 1, EncodeField(out, T.fields[n + 1], x))
<1> DEFINE f == T.fields[n + 1]
           M == {MemberOf(T.fields[i], x) : i \in DOMAIN T.fields}
<1>0. 1 .. n + 1 = (1 .. n) \cup {n + 1} /\ MemberOf(f, x) \in M /\ out \in Seq(M)
  BY DEF Written
<1>1. CASE Emitted(f, x)
  <2> DEFINE m == MemberOf(f, x)
             e == Append(out, m)
  <2>1. EncodeField(out, f, x) = e
    BY <1>1 DEF EncodeField, MemberOf
  <2> HIDE DEF M, m
  <2>2. /\ e \in Seq(M) /\ DOMAIN e = DOMAIN out \cup {Len(out) + 1} /\ Len(out) + 1 \notin DOMAIN out
        /\ e[Len(out) + 1] = m /\ \A j \in DOMAIN out : e[j] = out[j]
    BY <1>0 DEF m
  <2> HIDE DEF e
  <2>3. ASSUME NEW j \in DOMAIN e
        PROVE  \E i \in 1 .. n + 1 : Emitted(T.fields[i], x) /\ e[j] = MemberOf(T.fields[i], x)
    <3>1. CASE j \in DOMAIN out
      BY <1>0, <2>2, <3>1 DEF Written
    <3>2. CASE j = Len(out) + 1
      BY <1>0, <1>1, <2>2, <3>2 DEF m
    <3> QED BY <2>2, <3>1, <3>2
  <2>4. ASSUME NEW i \in 1 .. n + 1, Emitted(T.fields[i], x)
        PROVE  \E j \in DOMAIN e : e[j] = MemberOf(T.fields[i], x)
    <3>1. CASE i \in 1 .. n
      BY <2>2, <2>4, <3>1 DEF Written
    <3>2. CASE i = n + 1
      BY <2>2, <3>2 DEF m
    <3> QED BY <1>0, <3>1, <3>2
  <2> QED BY <2>1, <2>2, <2>3, <2>4 DEF Written, M
<1>2. CASE ~Emitted(f, x)
  <2>1. EncodeField(out, f, x) = out
    BY <1>2 DEF EncodeField
  <2>2. \A j \in DOMAIN out : \E i \in 1 .. n + 1 : Emitted(T.fields[i], x) /\ out[j] = MemberOf(T.fields[i], x)
    BY <1>0 DEF Written
  <2>3. \A i \in 1 .. n + 1 : Emitted(T.fields[i], x) => \E j \in DOMAIN out : out[j] = MemberOf(T.fields[i], x)
    BY <1>0, <1>2 DEF Written
  <2> QED BY <1>0, <2>1, <2>2, <2>3 DEF Written
<1> QED BY <1>1, <1>2

\* Encode (oas_json_gen.go) writes the fields that are set, and nothing else.
LEMMA EncodedMembers ==
  ASSUME NEW T, SchemaOK(T), NEW x
  PROVE  /\ Encode(T, x).kind = "object" /\ Encode(T, x).trailing = FALSE
         /\ Written(T, x, Len(T.fields), Encode(T, x).members)
<1> DEFINE E == EncodeFields(T, x)
           S == {n \in Nat : n <= Len(T.fields) => Written(T, x, n, E[n])}
<1>0. Len(T.fields) \in Nat /\ DOMAIN T.fields = 1 .. Len(T.fields)
  BY DEF SchemaOK
<1>1. E[0] = <<>> /\ \A i \in 1 .. Len(T.fields) : E[i] = EncodeField(E[i - 1], T.fields[i], x)
  BY <1>0, EncodeLoop
<1> HIDE DEF E
<1>2. 0 \in S
  <2>1. Written(T, x, 0, <<>>)
    BY DEF Written
  <2> QED BY <1>1, <2>1
<1>3. ASSUME NEW n \in Nat, n \in S PROVE n + 1 \in S
  <2> SUFFICES ASSUME n + 1 <= Len(T.fields) PROVE Written(T, x, n + 1, E[n + 1])
    OBVIOUS
  <2>1. Written(T, x, n, E[n])
    BY <1>3
  <2>2. E[n + 1] = EncodeField(E[n], T.fields[n + 1], x) /\ n + 1 \in DOMAIN T.fields
    BY <1>0, <1>1
  <2> QED BY <2>1, <2>2, OneField
<1>4. Len(T.fields) \in S
  <2> HIDE DEF S
  <2> QED BY <1>0, <1>2, <1>3, Induction
<1> QED BY <1>4 DEF Encode, Object, E
-----------------------------------------------------------------------------
(* Encoding and decoding. *)

\* What of a struct comes back: the fields that were set as their values are
\* read again, the others as zero values.
LEMMA EncodeThenDecode ==
  ASSUME NEW T, SchemaOK(T), NEW x
  PROVE  /\ Decode(T, Encode(T, x)).ok <=>
              \A i \in DOMAIN T.fields :
                Emitted(T.fields[i], x) =>
                  Reads(T.fields[i].type, EncodeValue(T.fields[i].type, x[T.fields[i].key]))
         /\ Decode(T, Encode(T, x)).ok =>
              \A i \in DOMAIN T.fields :
                LET type == T.fields[i].type
                    key == T.fields[i].key
                IN  Decode(T, Encode(T, x)).x[key] =
                      IF Emitted(T.fields[i], x) THEN DecodeValue(type, EncodeValue(type, x[key]))
                      ELSE ZeroValue(type)
<1> DEFINE body == Encode(T, x)
           ms == body.members
           F == T.fields
<1>1. body.kind = "object" /\ body.trailing = FALSE /\ Written(T, x, Len(F), ms)
  BY EncodedMembers
<1> HIDE DEF body
<1>2. Len(F) \in Nat /\ DOMAIN F = 1 .. Len(F)
  BY DEF SchemaOK
<1>3. Len(ms) \in Nat /\ DOMAIN ms = 1 .. Len(ms)
  BY <1>1 DEF Written
<1>4. \A i : MemberOf(F[i], x).key = F[i].key /\ MemberOf(F[i], x).value = EncodeValue(F[i].type, x[F[i].key])
  BY DEF MemberOf, Member
<1>5. ASSUME NEW i \in DOMAIN F, NEW j \in DOMAIN ms, ms[j].key = F[i].key
      PROVE  Emitted(F[i], x) /\ ms[j].value = EncodeValue(F[i].type, x[F[i].key])
  <2>1. PICK l \in DOMAIN F : Emitted(F[l], x) /\ ms[j] = MemberOf(F[l], x)
    BY <1>1, <1>2 DEF Written
  <2>2. F[l].key = F[i].key
    BY <1>4, <1>5, <2>1
  <2>3. l = i
    BY <2>2 DEF SchemaOK
  <2> QED BY <1>4, <2>1, <2>3
<1>6. ASSUME NEW i \in DOMAIN F, Emitted(F[i], x)
      PROVE  \E j \in DOMAIN ms : ms[j].key = F[i].key
  <2>1. PICK j \in DOMAIN ms : ms[j] = MemberOf(F[i], x)
    BY <1>1, <1>2, <1>6 DEF Written
  <2> QED BY <1>4, <2>1
<1>7. ASSUME NEW i \in DOMAIN F, ~Optional(F[i].type) PROVE Emitted(F[i], x)
  BY <1>7 DEF Emitted
<1>8. (\A j \in DOMAIN ms : Accepted(T, ms[j])) <=>
        \A i \in DOMAIN F : Emitted(F[i], x) => Reads(F[i].type, EncodeValue(F[i].type, x[F[i].key]))
  <2>1. ASSUME \A j \in DOMAIN ms : Accepted(T, ms[j]), NEW i \in DOMAIN F, Emitted(F[i], x)
        PROVE  Reads(F[i].type, EncodeValue(F[i].type, x[F[i].key]))
    <3>1. PICK j \in DOMAIN ms : ms[j].key = F[i].key
      BY <1>6, <2>1
    <3>2. ms[j].value = EncodeValue(F[i].type, x[F[i].key])
      BY <1>5, <3>1
    <3>3. F[i].key \in Keys(T) /\ FieldType(T, F[i].key) = F[i].type
      BY PlaceOfKey
    <3> QED BY <2>1, <3>1, <3>2, <3>3 DEF Accepted
  <2>2. ASSUME \A i \in DOMAIN F : Emitted(F[i], x) => Reads(F[i].type, EncodeValue(F[i].type, x[F[i].key])),
               NEW j \in DOMAIN ms, ms[j].key \in Keys(T)
        PROVE  Reads(FieldType(T, ms[j].key), ms[j].value)
    <3>1. PICK i \in DOMAIN F : F[i].key = ms[j].key /\ FieldType(T, ms[j].key) = F[i].type
      BY <2>2, PlaceOfKey
    <3>2. Emitted(F[i], x) /\ ms[j].value = EncodeValue(F[i].type, x[F[i].key])
      BY <1>5, <3>1
    <3> QED BY <2>2, <3>1, <3>2
  <2> QED BY <2>1, <2>2 DEF Accepted
<1>9. Decode(T, body).ok <=> \A j \in DOMAIN ms : Accepted(T, ms[j])
  BY <1>1, <1>3, <1>6, <1>7, DecodeAccepts
<1>10. ASSUME Decode(T, body).ok, NEW i \in DOMAIN F
       PROVE  Decode(T, body).x[F[i].key] =
                IF Emitted(F[i], x) THEN DecodeValue(F[i].type, EncodeValue(F[i].type, x[F[i].key]))
                ELSE ZeroValue(F[i].type)
  <2>1. F[i].key \in Keys(T) /\ FieldType(T, F[i].key) = F[i].type
    BY PlaceOfKey
  <2>2. CASE Emitted(F[i], x)
    <3> DEFINE at == {j \in DOMAIN ms : ms[j].key = F[i].key}
    <3>1. at # {} /\ at \in SUBSET (1 .. Len(ms))
      BY <1>3, <1>6, <2>2
    <3>2. Max(at) \in at /\ \A j \in at : j <= Max(at)
      BY <1>3, <3>1, HasMax
    <3>3. PICK l \in DOMAIN ms : ms[l].key = F[i].key /\ \A j \in l + 1 .. Len(ms) : ms[j].key # F[i].key
      <4>1. PICK l \in at : \A j \in at : j <= l
        BY <3>2
      <4>2. l \in 1 .. Len(ms) /\ \A j \in l + 1 .. Len(ms) : j \in DOMAIN ms /\ ~(j <= l)
        BY <1>3
      <4> QED BY <4>1, <4>2
    <3>4. Decode(T, body).x[F[i].key] = DecodeValue(F[i].type, ms[l].value)
      BY <1>3, <1>10, <2>1, <3>3, DecodeTakesLast
    <3> QED BY <1>5, <2>2, <3>3, <3>4
  <2>3. CASE ~Emitted(F[i], x)
    <3>1. \A j \in 1 .. Len(ms) : ms[j].key # F[i].key
      BY <1>3, <1>5, <2>3
    <3>2. Decode(T, body).x[F[i].key] = ZeroValue(F[i].type)
      BY <1>3, <1>10, <2>1, <3>1, DecodeTakesLast
    <3> QED BY <2>3, <3>2
  <2> QED BY <2>2, <2>3
<1> QED BY <1>8, <1>9, <1>10 DEF body

\* A value that the field's decoder reads, or an optional one that its setters
\* make (oas_schemas_gen.go): not set, set to null, or set to such a value.
Fits(type, v) ==
  IF Optional(type)
  THEN \/ v = Unset
       \/ v = SetToNull
       \/ v = NewOptNilUUID(v.value) /\ v.value # JNull /\ Reads(type, v.value)
  ELSE Reads(type, v)

\* A value that fits is encoded, if at all, as one that is read as the same.
LEMMA FitsComesBack ==
  ASSUME NEW f, NEW x, Fits(f.type, x[f.key])
  PROVE  /\ Emitted(f, x) => /\ Reads(f.type, EncodeValue(f.type, x[f.key]))
                             /\ DecodeValue(f.type, EncodeValue(f.type, x[f.key])) = x[f.key]
         /\ ~Emitted(f, x) => x[f.key] = ZeroValue(f.type)
<1> DEFINE v == x[f.key]
<1>0. "OptNilUUID" # "OptNilPaymentMethod"
  OBVIOUS
<1>1. CASE ~Optional(f.type)
  <2>1. Emitted(f, x) /\ EncodeValue(f.type, v) = v /\ DecodeValue(f.type, v) = v
    BY <1>1 DEF Emitted, Optional, EncodeValue, DecodeValue
  <2> QED BY <1>1, <2>1 DEF Fits
<1>2. CASE Optional(f.type)
  <2> HIDE DEF v
  <2>0. f.type = "OptNilUUID" \/ f.type = "OptNilPaymentMethod"
    BY <1>2 DEF Optional
  <2>a. EncodeValue(f.type, v) = IF v.null THEN JNull ELSE v.value
    BY <2>0 DEF EncodeValue, EncodeOptNilUUID, EncodeOptNilPaymentMethod
  <2>b. \A j : DecodeValue(f.type, j) = IF j = JNull THEN SetToNull ELSE NewOptNilUUID(j)
    BY <2>0 DEF DecodeValue, DecodeOptNilUUID, DecodeOptNilPaymentMethod, NewOptNilUUID, NewOptNilPaymentMethod
  <2>c. (Emitted(f, x) <=> v.set) /\ ZeroValue(f.type) = Unset
    BY <1>2 DEF Emitted, ZeroValue, v
  <2>d. Reads(f.type, JNull)
    <3>1. CASE f.type = "OptNilUUID"
      BY <3>1 DEF Reads
    <3>2. CASE f.type = "OptNilPaymentMethod"
      BY <3>2 DEF Reads
    <3> QED BY <2>0, <3>1, <3>2
  <2>1. /\ EncodeValue(f.type, v) = IF v.null THEN JNull ELSE v.value
        /\ \A j : DecodeValue(f.type, j) = IF j = JNull THEN SetToNull ELSE NewOptNilUUID(j)
        /\ Emitted(f, x) <=> v.set
        /\ ZeroValue(f.type) = Unset
        /\ Reads(f.type, JNull)
    BY <2>a, <2>b, <2>c, <2>d
  <2>2. CASE v = Unset
    BY <2>1, <2>2 DEF Unset, v
  <2>3. CASE v = SetToNull
    <3>1. SetToNull.set = TRUE /\ SetToNull.null = TRUE
      BY DEF SetToNull
    <3> QED BY <2>1, <2>3, <3>1 DEF v
  <2>4. CASE v = NewOptNilUUID(v.value) /\ v.value # JNull /\ Reads(f.type, v.value)
    <3>1. v.set = TRUE /\ v.null = FALSE
      BY <2>4 DEF NewOptNilUUID
    <3> QED BY <2>1, <2>4, <3>1 DEF v
  <2> QED BY <1>2, <2>2, <2>3, <2>4 DEF Fits, v
<1> QED BY <1>1, <1>2

\* Decode undoes Encode (oas_json_gen.go): a struct whose values fit comes back
\* as it was.
THEOREM RoundTrip ==
  ASSUME NEW T, SchemaOK(T), NEW x, x = [key \in Keys(T) |-> x[key]],
         \A i \in DOMAIN T.fields : Fits(T.fields[i].type, x[T.fields[i].key])
  PROVE  Decode(T, Encode(T, x)).ok /\ Decode(T, Encode(T, x)).x = x
<1> DEFINE d == Decode(T, Encode(T, x))
<1>1. d.ok
  BY EncodeThenDecode, FitsComesBack
<1>2. \A i \in DOMAIN T.fields : d.x[T.fields[i].key] = x[T.fields[i].key]
  BY <1>1, EncodeThenDecode, FitsComesBack
<1>3. d.x = [key \in Keys(T) |-> d.x[key]]
  <2> DEFINE ms == Encode(T, x).members
  <2>1. Written(T, x, Len(T.fields), ms)
    BY EncodedMembers
  <2>2. Len(ms) \in Nat
    BY <2>1 DEF Written
  <2>3. After(T, ms, Len(ms), DecodeMembers(T, ms)[Len(ms)])
    BY <2>2, DecodedMembers
  <2> QED BY <2>3 DEF After, Decode
<1>4. \A key \in Keys(T) : d.x[key] = x[key]
  BY <1>2 DEF Keys
<1> HIDE DEF d
<1> QED BY <1>1, <1>3, <1>4 DEF d
-----------------------------------------------------------------------------
(* The generated types. *)

\* A field has its key and its type.
LEMMA FieldParts == \A key, type : Field(key, type).key = key /\ Field(key, type).type = type
BY DEF Field

\* Each type of the API has its keys once, and its required mask is that of
\* the fields that are not optional (oas_json_gen.go, requiredBitSet): the
\* request of createOrder,
LEMMA CreateOrderRequestSchema ==
  /\ SchemaOK(CreateOrderRequest)
  /\ Keys(CreateOrderRequest) = {"hull_uuid", "engine_uuid", "shield_uuid", "weapon_uuid"}
  /\ \A key \in {"hull_uuid", "engine_uuid"} : FieldType(CreateOrderRequest, key) = "UUID"
  /\ \A key \in {"shield_uuid", "weapon_uuid"} : FieldType(CreateOrderRequest, key) = "OptNilUUID"
<1> DEFINE T == CreateOrderRequest
           F == T.fields
<1>0. /\ F = <<Field("hull_uuid", "UUID"), Field("engine_uuid", "UUID"),
               Field("shield_uuid", "OptNilUUID"), Field("weapon_uuid", "OptNilUUID")>>
      /\ T.mask = {0, 1}
  BY DEF CreateOrderRequest
<1> HIDE DEF T
<1>a. /\ Len(F) = 4 /\ DOMAIN F = 1 .. 4
      /\ F[1] = Field("hull_uuid", "UUID") /\ F[2] = Field("engine_uuid", "UUID")
      /\ F[3] = Field("shield_uuid", "OptNilUUID") /\ F[4] = Field("weapon_uuid", "OptNilUUID")
  BY <1>0
<1>1. /\ F[1].key = "hull_uuid" /\ F[1].type = "UUID"
      /\ F[2].key = "engine_uuid" /\ F[2].type = "UUID"
      /\ F[3].key = "shield_uuid" /\ F[3].type = "OptNilUUID"
      /\ F[4].key = "weapon_uuid" /\ F[4].type = "OptNilUUID"
  BY <1>a, FieldParts
<1> HIDE DEF F
<1>2. SchemaOK(T)
  BY <1>0, <1>a, <1>1 DEF SchemaOK, Optional, F
<1>3. Keys(T) = {"hull_uuid", "engine_uuid", "shield_uuid", "weapon_uuid"}
  BY <1>a, <1>1 DEF Keys, F
<1>4. /\ FieldType(T, "hull_uuid") = "UUID" /\ FieldType(T, "engine_uuid") = "UUID"
      /\ FieldType(T, "shield_uuid") = "OptNilUUID" /\ FieldType(T, "weapon_uuid") = "OptNilUUID"
  BY <1>a, <1>1, <1>2, PlaceOfKey DEF F
<1> QED BY <1>2, <1>3, <1>4 DEF T

\* of payOrder,
LEMMA PayOrderRequestSchema ==
  /\ SchemaOK(PayOrderRequest)
  /\ Keys(PayOrderRequest) = {"payment_method"}
  /\ FieldType(PayOrderRequest, "payment_method") = "PaymentMethod"
<1> DEFINE T == PayOrderRequest
           F == T.fields
<1>0. F = <<Field("payment_method", "PaymentMethod")>> /\ T.mask = {0}
  BY DEF PayOrderRequest
<1> HIDE DEF T
<1>1. Len(F) = 1 /\ DOMAIN F = 1 .. 1 /\ F[1].key = "payment_method" /\ F[1].type = "PaymentMethod"
  BY <1>0, FieldParts
<1> HIDE DEF F
<1>2. SchemaOK(T)
  BY <1>0, <1>1 DEF SchemaOK, Optional, F
<1>3. Keys(T) = {"payment_method"}
  BY <1>1 DEF Keys, F
<1> QED BY <1>1, <1>2, <1>3, PlaceOfKey DEF T, F

\* the answers,
LEMMA AnswerSchemas ==
  /\ SchemaOK(CreateOrderResponse) /\ Keys(CreateOrderResponse) = {"order_uuid", "total_price"}
  /\ FieldType(CreateOrderResponse, "order_uuid") = "UUID" /\ FieldType(CreateOrderResponse, "total_price") = "int64"
  /\ SchemaOK(PayOrderResponse) /\ Keys(PayOrderResponse) = {"transaction_uuid"}
  /\ FieldType(PayOrderResponse, "transaction_uuid") = "UUID"
  /\ SchemaOK(CancelOrderResponse) /\ Keys(CancelOrderResponse) = {}
  /\ SchemaOK(Error) /\ Keys(Error) = {"code", "message"}
  /\ FieldType(Error, "code") = "int64" /\ FieldType(Error, "message") = "string"
<1>1. ASSUME NEW T, NEW k1, NEW t1, NEW k2, NEW t2, k1 # k2, ~Optional(t1), ~Optional(t2),
             T.fields = <<Field(k1, t1), Field(k2, t2)>>, T.mask = {0, 1}
      PROVE  SchemaOK(T) /\ Keys(T) = {k1, k2} /\ FieldType(T, k1) = t1 /\ FieldType(T, k2) = t2
  <2> DEFINE F == T.fields
  <2>1. Len(F) = 2 /\ DOMAIN F = 1 .. 2 /\ F[1] = Field(k1, t1) /\ F[2] = Field(k2, t2)
    BY <1>1
  <2>2. F[1].key = k1 /\ F[1].type = t1 /\ F[2].key = k2 /\ F[2].type = t2
    BY <2>1, FieldParts
  <2> HIDE DEF F
  <2>3. SchemaOK(T)
    BY <1>1, <2>1, <2>2 DEF SchemaOK, F
  <2>4. Keys(T) = {k1, k2}
    BY <2>1, <2>2 DEF Keys, F
  <2> QED BY <2>1, <2>2, <2>3, <2>4, PlaceOfKey DEF F
<1>2. ASSUME NEW T, NEW key, NEW type, ~Optional(type), T.fields = <<Field(key, type)>>, T.mask = {0}
      PROVE  SchemaOK(T) /\ Keys(T) = {key} /\ FieldType(T, key) = type
  <2> DEFINE F == T.fields
  <2>1. Len(F) = 1 /\ DOMAIN F = 1 .. 1 /\ F[1].key = key /\ F[1].type = type
    BY <1>2, FieldParts
  <2> HIDE DEF F
  <2>2. SchemaOK(T)
    BY <1>2, <2>1 DEF SchemaOK, F
  <2>3. Keys(T) = {key}
    BY <2>1 DEF Keys, F
  <2> QED BY <2>1, <2>2, <2>3, PlaceOfKey DEF F
<1>3. ~Optional("UUID") /\ ~Optional("int64") /\ ~Optional("string")
  BY DEF Optional
<1>4. /\ CreateOrderResponse.fields = <<Field("order_uuid", "UUID"), Field("total_price", "int64")>>
      /\ CreateOrderResponse.mask = {0, 1}
  BY DEF CreateOrderResponse
<1>5. PayOrderResponse.fields = <<Field("transaction_uuid", "UUID")>> /\ PayOrderResponse.mask = {0}
  BY DEF PayOrderResponse
<1>6. /\ Error.fields = <<Field("code", "int64"), Field("message", "string")>>
      /\ Error.mask = {0, 1}
  BY DEF Error
<1>7. SchemaOK(CancelOrderResponse) /\ Keys(CancelOrderResponse) = {}
  <2>1. CancelOrderResponse.fields = <<>> /\ CancelOrderResponse.mask = {}
    BY DEF CancelOrderResponse
  <2> QED BY <2>1 DEF SchemaOK, Keys
<1>8. "order_uuid" # "total_price" /\ "code" # "message"
  OBVIOUS
<1>9. /\ SchemaOK(CreateOrderResponse) /\ Keys(CreateOrderResponse) = {"order_uuid", "total_price"}
      /\ FieldType(CreateOrderResponse, "order_uuid") = "UUID" /\ FieldType(CreateOrderResponse, "total_price") = "int64"
  BY <1>1, <1>3, <1>4, <1>8
<1>10. SchemaOK(PayOrderResponse) /\ Keys(PayOrderResponse) = {"transaction_uuid"}
       /\ FieldType(PayOrderResponse, "transaction_uuid") = "UUID"
  BY <1>2, <1>3, <1>5
<1>11. /\ SchemaOK(Error) /\ Keys(Error) = {"code", "message"}
       /\ FieldType(Error, "code") = "int64" /\ FieldType(Error, "message") = "string"
  <2>1. PICK T : T = Error
    OBVIOUS
  <2>2. T.fields = <<Field("code", "int64"), Field("message", "string")>> /\ T.mask = {0, 1}
    BY <1>6, <2>1
  <2>3. PICK key, type : key = "message" /\ type = "string" /\ ~Optional(type) /\ key # "code"
    BY <1>3, <1>8
  <2>4. T.fields = <<Field("code", "int64"), Field(key, type)>> /\ T.mask = {0, 1}
    BY <2>2, <2>3
  <2>5. SchemaOK(T) /\ Keys(T) = {"code", key} /\ FieldType(T, "code") = "int64" /\ FieldType(T, key) = type
    BY <1>1, <1>3, <2>3, <2>4
  <2> QED BY <2>1, <2>3, <2>5
<1> QED BY <1>7, <1>9, <1>10, <1>11

\* and the order itself.
LEMMA OrderDtoSchema ==
  /\ SchemaOK(OrderDto)
  /\ Keys(OrderDto) = {"order_uuid", "user_uuid", "hull_uuid", "engine_uuid", "shield_uuid", "weapon_uuid",
                       "total_price", "transaction_uuid", "payment_method", "status", "created_at"}
  /\ \A key \in {"order_uuid", "user_uuid", "hull_uuid", "engine_uuid"} : FieldType(OrderDto, key) = "UUID"
  /\ \A key \in {"shield_uuid", "weapon_uuid", "transaction_uuid"} : FieldType(OrderDto, key) = "OptNilUUID"
  /\ FieldType(OrderDto, "total_price") = "int64" /\ FieldType(OrderDto, "payment_method") = "OptNilPaymentMethod"
  /\ FieldType(OrderDto, "status") = "OrderStatus" /\ FieldType(OrderDto, "created_at") = "DateTime"
<1> DEFINE T == OrderDto
           F == T.fields
<1>0. F = OrderDtoFields /\ T.mask = {0, 1, 2, 3, 6, 9, 10}
  BY DEF OrderDto, OrderDtoMask
<1> HIDE DEF T
<1>a. /\ Len(F) = 11 /\ DOMAIN F = 1 .. 11
      /\ F[1] = Field("order_uuid", "UUID") /\ F[2] = Field("user_uuid", "UUID")
      /\ F[3] = Field("hull_uuid", "UUID") /\ F[4] = Field("engine_uuid", "UUID")
      /\ F[5] = Field("shield_uuid", "OptNilUUID") /\ F[6] = Field("weapon_uuid", "OptNilUUID")
      /\ F[7] = Field("total_price", "int64") /\ F[8] = Field("transaction_uuid", "OptNilUUID")
      /\ F[9] = Field("payment_method", "OptNilPaymentMethod") /\ F[10] = Field("status", "OrderStatus")
      /\ F[11] = Field("created_at", "DateTime")
  BY <1>0 DEF OrderDtoFields
<1> HIDE DEF F
<1>1. /\ F[1].key = "order_uuid" /\ F[1].type = "UUID"
      /\ F[2].key = "user_uuid" /\ F[2].type = "UUID"
      /\ F[3].key = "hull_uuid" /\ F[3].type = "UUID"
      /\ F[4].key = "engine_uuid" /\ F[4].type = "UUID"
      /\ F[5].key = "shield_uuid" /\ F[5].type = "OptNilUUID"
      /\ F[6].key = "weapon_uuid" /\ F[6].type = "OptNilUUID"
      /\ F[7].key = "total_price" /\ F[7].type = "int64"
      /\ F[8].key = "transaction_uuid" /\ F[8].type = "OptNilUUID"
      /\ F[9].key = "payment_method" /\ F[9].type = "OptNilPaymentMethod"
      /\ F[10].key = "status" /\ F[10].type = "OrderStatus"
      /\ F[11].key = "created_at" /\ F[11].type = "DateTime"
  BY <1>a, FieldParts
<1>b. \A i \in DOMAIN F : i \in {1, 2, 3, 4, 5, 6, 7, 8, 9, 10, 11}
  BY <1>a
<1>2. SchemaOK(T)
  <2>1. \A i, j \in DOMAIN F : F[i].key = F[j].key => i = j
    BY <1>b, <1>1
  <2>2. \A i \in DOMAIN F : ~Optional(F[i].type) <=> i - 1 \in T.mask
    BY <1>b, <1>0, <1>1 DEF Optional
  <2>3. \A b \in T.mask : b \in Nat /\ b + 1 \in DOMAIN F
    BY <1>0, <1>a
  <2> QED BY <1>a, <2>1, <2>2, <2>3 DEF SchemaOK, F
<1>3. Keys(T) = {"order_uuid", "user_uuid", "hull_uuid", "engine_uuid", "shield_uuid", "weapon_uuid",
                 "total_price", "transaction_uuid", "payment_method", "status", "created_at"}
  BY <1>a, <1>b, <1>1 DEF Keys, F
<1>4. \A i \in 1 .. 11 : FieldType(T, F[i].key) = F[i].type
  BY <1>a, <1>2, PlaceOfKey DEF F
<1> QED BY <1>1, <1>2, <1>3, <1>4 DEF T
=============================================================================
