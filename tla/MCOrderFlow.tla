----------------------------- MODULE MCOrderFlow -----------------------------
(* Small instances of OrderFlow. *)
EXTENDS OrderFlow, TLC

CONSTANTS o1, o2, p1, p2

\* The two orders share p1; only o1 also wants p2.
SharedItems == (o1 :> {p1, p2}) @@ (o2 :> {p1})
=============================================================================
