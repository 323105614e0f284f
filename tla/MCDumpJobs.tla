----------------------------- MODULE MCDumpJobs -----------------------------
(***************************************************************************)
(* Instances of DumpJobs: two plugin processes n1 and n2, requests served  *)
(* by one or two handlers.                                                 *)
(***************************************************************************)
EXTENDS DumpJobs, TLC

CONSTANTS n1, n2, c1, c2, j1, j2

AtOneEach  == (c1 :> n1) @@ (c2 :> n2)
AtFirst    == [c \in Callers |-> n1]

\* Jobs are interchangeable, and so are the two nodes together with the
\* handlers they serve.
Itself     == [x \in {n1, n2, c1, c2} |-> x]
Swap       == (n1 :> n2) @@ (n2 :> n1) @@ (c1 :> c2) @@ (c2 :> c1)
BothSwaps  == {p @@ q : p \in Permutations({j1, j2}), q \in {Itself, Swap}}
JobsSwap   == Permutations({j1, j2})
=============================================================================
