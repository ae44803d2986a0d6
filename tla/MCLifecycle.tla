----------------------------- MODULE MCLifecycle -----------------------------
(* Model values for the runs of Lifecycle. *)
EXTENDS Lifecycle

CONSTANTS c1, c2
=============================================================================
