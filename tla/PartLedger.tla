----------------------------- MODULE PartLedger -----------------------------
(***************************************************************************)
(* What the inventory service promises to its callers, without row locks,  *)
(* transactions or queries: a ledger of parts on which ReserveParts,       *)
(* ReleaseParts and CommitParts are atomic.  A call names parts by uuid.   *)
(* Between the call and its reply there is one instant at which either all *)
(* the named parts take the operation and the reply is OK, or none does    *)
(* and the reply is an error that the rows justify at that very instant.   *)
(*                                                                         *)
(* Inventory.tla is the service as it is written; it implements this.      *)
(***************************************************************************)
EXTENDS PartCalls

VARIABLES
  rows,    \* the committed rows of the parts table
  call,    \* the call being served in each slot, or NoCall
  reply    \* the code of the last reply of each slot, "none" before the first

vars == <<rows, call, reply>>

Init ==
  /\ rows \in [Parts -> [stock : 0 .. MaxStock, reserved : {0}]]
  /\ call = [t \in Calls |-> NoCall]
  /\ reply = [t \in Calls |-> "none"]

Invoke(t) ==
  /\ call[t] = NoCall
  /\ \E c \in CallSet : call' = [call EXCEPT ![t] = c]
  /\ reply' = [reply EXCEPT ![t] = "none"]
  /\ UNCHANGED rows

Answer(t, code) ==
  /\ call' = [call EXCEPT ![t] = NoCall]
  /\ reply' = [reply EXCEPT ![t] = code]

\* All the rows take the operation.  The caller learns of it, unless the
\* database connection or the server is lost while the transaction commits.
Perform(t) ==
  LET c == call[t] IN
  /\ c # NoCall
  /\ InOrder(c)
  /\ \A p \in Target(c) : Can(c.op, rows[p])
  /\ rows' = [p \in Parts |-> IF p \in Target(c) THEN Apply(c.op, rows[p]) ELSE rows[p]]
  /\ \E code \in Unsure \cup {"OK"} : Answer(t, code)

\* An error reply has its reason in the session (of which the ledger knows
\* nothing), in the call or in the rows of this instant.
Justified(c, code) ==
  \/ code = "Unauthenticated"
  \/ code = "InvalidArgument" /\ ~Parses(c)
  \/ code = "NotFound" /\ Parses(c) /\ ~WellNamed(c)
  \/ code = "Internal" /\ Parses(c) /\ WellNamed(c) /\ Target(c) \cap Corrupt # {}
  \/ code = DomainCode(c.op) /\ InOrder(c) /\ \E p \in Target(c) : ~Can(c.op, rows[p])

Refuse(t) ==
  /\ call[t] # NoCall
  /\ \E code \in Codes : Justified(call[t], code) /\ Answer(t, code)
  /\ UNCHANGED rows

\* A database error, a cancelled context or a server crash ends any set of
\* calls without an effect; the reply does not say so.
GiveUp(S, code) ==
  /\ \A t \in S : call[t] # NoCall
  /\ call' = [t \in Calls |-> IF t \in S THEN NoCall ELSE call[t]]
  /\ reply' = [t \in Calls |-> IF t \in S THEN code ELSE reply[t]]
  /\ UNCHANGED rows

Next ==
  \/ \E t \in Calls : Invoke(t) \/ Perform(t) \/ Refuse(t)
  \/ \E S \in SUBSET Calls, code \in Unsure : GiveUp(S, code)

Spec == Init /\ [][Next]_vars
=============================================================================
