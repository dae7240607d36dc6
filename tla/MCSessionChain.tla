--------------------------- MODULE MCSessionChain ---------------------------
(* A small instance of SessionChain, and with it of Iam. *)
EXTENDS SessionChain, TLC

SlotSymmetry == Permutations(Slots)
=============================================================================
