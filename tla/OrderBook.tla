------------------------------ MODULE OrderBook ------------------------------
(***************************************************************************)
(* What the services promise together of an order as long as nothing       *)
(* fails, without requests, row locks, remote calls or topics: one state   *)
(* machine per order, whose transition and whose effect on the stock or on *)
(* the customer's money are one step.                                      *)
(*                                                                         *)
(* OrderFlow.tla is the services as they are written; it implements this   *)
(* up to the first failure.                                                *)
(***************************************************************************)
EXTENDS Part

CONSTANTS Orders, Parts, Items, MaxStock

VARIABLES
  rows,      \* the inventory's rows
  life,      \* how far each order has come
  charges,   \* payments made for each order
  events     \* order.paid events of each order

vars == <<rows, life, charges, events>>

Init ==
  /\ rows \in [Parts -> [stock : 0 .. MaxStock, reserved : {0}]]
  /\ life = [o \in Orders |-> "none"]
  /\ charges = [o \in Orders |-> 0]
  /\ events = [o \in Orders |-> 0]

Become(o, from, to) ==
  /\ life[o] = from
  /\ life' = [life EXCEPT ![o] = to]

\* Every part of the order takes the operation, or the order stays as it is.
Take(op, o) ==
  /\ \A p \in Items[o] : Can(op, rows[p])
  /\ rows' = [p \in Parts |-> IF p \in Items[o] THEN Apply(op, rows[p]) ELSE rows[p]]

Create(o) == Become(o, "none", "open") /\ Take("Reserve", o) /\ UNCHANGED <<charges, events>>

Cancel(o) == Become(o, "open", "cancelled") /\ Take("Release", o) /\ UNCHANGED <<charges, events>>

Pay(o) ==
  /\ Become(o, "open", "paid")
  /\ charges' = [charges EXCEPT ![o] = @ + 1]
  /\ UNCHANGED <<rows, events>>

\* The assembly service learns of the payment, once.
Announce(o) ==
  /\ life[o] = "paid" /\ events[o] = 0
  /\ events' = [events EXCEPT ![o] = 1]
  /\ UNCHANGED <<rows, life, charges>>

Assemble(o) ==
  /\ events[o] > 0
  /\ Become(o, "paid", "assembled") /\ Take("Commit", o)
  /\ UNCHANGED <<charges, events>>

Next == \E o \in Orders : Create(o) \/ Cancel(o) \/ Pay(o) \/ Announce(o) \/ Assemble(o)

Spec == Init /\ [][Next]_vars
=============================================================================
