----------------------------- MODULE MCLifecycle -----------------------------
(***************************************************************************)
(* Instances of Lifecycle: one server, or a cluster of two.                *)
(***************************************************************************)
EXTENDS Lifecycle

CONSTANTS n1, n2
=============================================================================
