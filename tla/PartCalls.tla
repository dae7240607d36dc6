----------------------------- MODULE PartCalls ------------------------------
(***************************************************************************)
(* The vocabulary of calls on the inventory service: what a request names, *)
(* which rows it is about, and the replies it can get.  Shared by the      *)
(* abstract PartLedger and by Inventory, which implements it.              *)
(***************************************************************************)
EXTENDS Part, Sequences, FiniteSets

CONSTANTS
  Parts,      \* uuids of the rows of the parts table (no code adds or deletes one)
  Corrupt,    \* the rows of Parts whose properties or part_type are refused
  Malformed,  \* strings a caller may send that are not uuids
  Uuids,      \* everything a caller may send
  Requests,   \* the argument lists callers send: sequences of Uuids
  Calls,      \* slots for concurrent calls
  MaxStock    \* bound on the seeded stock_quantity

ASSUME PartsAssumption ==
  /\ IsFiniteSet(Parts)
  /\ Parts # {}
  /\ Uuids \subseteq Nat
  /\ Parts \subseteq Uuids
  /\ Corrupt \subseteq Parts
  /\ Malformed \subseteq Uuids
  /\ Parts \cap Malformed = {}

ASSUME RequestsAssumption == Requests \subseteq Seq(Uuids)

ASSUME MaxStockAssumption == MaxStock \in Nat

NoCall == [op |-> "none", uuids |-> <<>>]

CallSet == [op : Ops, uuids : Requests]

\* gRPC codes of interceptor/error.go.  An error that is none of the listed
\* ones has no gRPC status, so status.Code(err) is Unknown and the error is
\* passed on as it is.  Unavailable is what a caller sees when the server goes
\* away.
Codes == {"OK", "NotFound", "InvalidArgument", "FailedPrecondition",
          "ResourceExhausted", "Unauthenticated", "Internal", "Unknown",
          "Unavailable"}

\* The replies that tell the caller nothing about whether the call was done.
Unsure == {"Unknown", "Unavailable"}

Named(s) == {s[i] : i \in DOMAIN s}

\* An empty list carries no WHERE clause: the call is about every part.
Target(c) == IF c.uuids = <<>> THEN Parts ELSE Named(c.uuids) \cap Parts

\* Every uuid names a part and none is named twice.
WellNamed(c) == c.uuids = <<>> \/ Cardinality(Target(c)) = Len(c.uuids)

Parses(c) == Named(c.uuids) \cap Malformed = {}

\* The code the interceptor gives to the domain error of each operation.
DomainCode(op) == IF op = "Reserve" THEN "ResourceExhausted" ELSE "FailedPrecondition"

\* The call is in order: it parses, names each part once, and each row decodes.
InOrder(c) == Parses(c) /\ WellNamed(c) /\ Target(c) \cap Corrupt = {}
=============================================================================
