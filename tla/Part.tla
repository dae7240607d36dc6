-------------------------------- MODULE Part --------------------------------
(***************************************************************************)
(* The Part entity of the inventory service                                *)
(* (inventory/internal/model/entity/part.go): the two counters of a row of *)
(* the parts table and the three operations the domain allows on them.     *)
(* Every other column is descriptive and never written by the program.     *)
(*                                                                         *)
(* A row is a record [stock, reserved]: stock_quantity is what lies in the *)
(* warehouse, reserved is how much of it is already promised to orders.    *)
(***************************************************************************)
EXTENDS Naturals

Ops == {"Reserve", "Release", "Commit"}

Row == [stock : Nat, reserved : Nat]

(* Mutant forms of the guards, each a slip the properties must catch. *)
CanReserveOffByOne(row) == row.stock >= row.reserved

CanReleaseUnchecked(row) == row.stock >= 0

\* The guard of each operation: the negation of its early returns.
CanReserve(row) == row.stock > row.reserved

CanRelease(row) == row.reserved > 0

CanCommit(row) == row.reserved > 0 /\ row.stock > 0

\* The assignments of each operation, taken when its guard holds.
Reserve(row) == [stock |-> row.stock, reserved |-> row.reserved + 1]

Release(row) == [stock |-> row.stock, reserved |-> row.reserved - 1]

Commit(row) == [stock |-> row.stock - 1, reserved |-> row.reserved - 1]

Can(op, row) ==
  \/ op = "Reserve" /\ CanReserve(row)
  \/ op = "Release" /\ CanRelease(row)
  \/ op = "Commit" /\ CanCommit(row)

Apply(op, row) ==
  CASE op = "Reserve" -> Reserve(row)
    [] op = "Release" -> Release(row)
    [] op = "Commit"  -> Commit(row)

\* No more is promised than there is: stock_quantity - reserved, "available
\* for new orders" in the migration that adds the column, is never negative.
Covered(row) == row.reserved <= row.stock
=============================================================================
