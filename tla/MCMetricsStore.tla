--------------------------- MODULE MCMetricsStore ---------------------------
(***************************************************************************)
(* Instances of MetricsStore: two blocks cut by the head and one compacted *)
(* from them; a dump of all but a block of the last point of time.         *)
(***************************************************************************)
EXTENDS MetricsStore, TLC

CONSTANTS b1, b2, b3, d1

AllButLast == {<<-1, MaxClock>>}
BlockSwaps == Permutations(Blocks)
=============================================================================
