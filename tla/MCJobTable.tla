----------------------------- MODULE MCJobTable -----------------------------
(***************************************************************************)
(* An instance of JobTable.                                                *)
(***************************************************************************)
EXTENDS JobTable

CONSTANTS j1, t1, k1
=============================================================================
