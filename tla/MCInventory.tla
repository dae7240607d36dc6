---------------------------- MODULE MCInventory -----------------------------
(***************************************************************************)
(* A small instance of Inventory: three parts, the last of which has       *)
(* stored properties that are refused, and a string that is no uuid.       *)
(***************************************************************************)
EXTENDS Inventory

MCParts == {1, 2, 3}
MCCorrupt == {3}
MCUuids == 1 .. 5
MCMalformed == {4}
MCNameRank == [p \in MCParts |-> 4 - p]

\* Two parts in either order, a part twice, a refused part next to a good one,
\* an unknown uuid, a malformed one, and no uuid at all.
MCRequests == {<<1, 2>>, <<2, 1>>, <<1, 1>>, <<1, 3>>, <<2, 5>>, <<4>>, <<>>}
=============================================================================
