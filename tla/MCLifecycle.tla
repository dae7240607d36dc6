----------------------------- MODULE MCLifecycle -----------------------------
(* Lifecycle as its configuration checks it. *)
EXTENDS Lifecycle
=============================================================================
