----------------------------- MODULE BlockTimes -----------------------------
(***************************************************************************)
(* The times and numbers taken from the meta.json of the stored blocks, in *)
(* the order in which the file store lists them: GetTSDBStats              *)
(* (server/stats.go), and the times a dump reports (server/dump.go).  A    *)
(* meta.json that cannot be read is skipped.                               *)
(***************************************************************************)
EXTENDS Integers, SequencesExt

CONSTANT ZeroTime  \* time.Time{}, in milliseconds

\* The blocks whose meta.json can be read, by their place in the list.
Readable(metas) == {i \in DOMAIN metas : metas[i].readable}

Larger(a, b) == IF a > b THEN a ELSE b

NoStats == [minT |-> 0, maxT |-> 0, samples |-> 0, series |-> 0]

\* Mutation: MinT starts at 0 and is never set.
AddToStatsNoSentinel(stats, m) ==
  [minT    |-> IF m.minT < stats.minT THEN m.minT ELSE stats.minT,
   maxT    |-> Larger(m.maxT, stats.maxT),
   samples |-> stats.samples + m.samples,
   series  |-> Larger(m.series, stats.series)]

\* The body of the loop of GetTSDBStats.  A MinT of 0 stands for none.
AddToStats(stats, m) ==
  [minT    |-> IF m.minT < stats.minT \/ stats.minT = 0 THEN m.minT ELSE stats.minT,
   maxT    |-> Larger(m.maxT, stats.maxT),
   samples |-> stats.samples + m.samples,
   series  |-> Larger(m.series, stats.series)]

GetTSDBStats(metas) ==
  LET after[k \in 0..Len(metas)] ==
        IF k = 0 THEN NoStats
        ELSE IF k \in Readable(metas) THEN AddToStats(after[k - 1], metas[k])
        ELSE after[k - 1]
  IN after[Len(metas)]

NoTimes == [minT |-> ZeroTime, maxT |-> ZeroTime]

\* Mutation: the upper end is not looked at.
InWindowFrom(m, min, max) == m.maxT > min

\* Whether createDump fetches a block.
InWindow(m, min, max) == m.maxT < max /\ m.maxT > min

\* What createDump remembers of a block it fetches.  Whether the block could be
\* fetched does not matter.
AddToTimes(times, m) ==
  [minT |-> IF m.minT < times.minT \/ times.minT = ZeroTime THEN m.minT ELSE times.minT,
   maxT |-> Larger(m.maxT, times.maxT)]

DumpTimes(metas, min, max) ==
  LET after[k \in 0..Len(metas)] ==
        IF k = 0 THEN NoTimes
        ELSE IF k \in Readable(metas) /\ InWindow(metas[k], min, max)
          THEN AddToTimes(after[k - 1], metas[k])
        ELSE after[k - 1]
  IN after[Len(metas)]

(***************************************************************************)
(* The same, as conditions on the blocks.                                  *)
(***************************************************************************)
IsLeast(x, S)    == x \in S /\ \A y \in S : x <= y
IsGreatest(x, S) == x \in S /\ \A y \in S : x >= y

\* The samples of the blocks at some places of the list.
Samples(metas, places) == MapThenSumSet(LAMBDA i : metas[i].samples, places)

\* stats describes the blocks at some places of the list.
Describes(stats, metas, places) ==
  IF places = {} THEN stats = NoStats
  ELSE /\ IsLeast(stats.minT, {metas[i].minT : i \in places})
       /\ IsGreatest(stats.maxT, {metas[i].maxT : i \in places})
       /\ IsGreatest(stats.series, {metas[i].series : i \in places})
       /\ stats.samples = Samples(metas, places)

\* The blocks that meet a window but for those that reach beyond its end.
Enclosed(metas, min, max) ==
  LET meets == {m \in {metas[i] : i \in Readable(metas)} : m.maxT > min /\ m.minT < max} IN
  meets \ {m \in meets : m.maxT >= max}

\* times are those of some blocks.
Encloses(times, blocks) ==
  IF blocks = {} THEN times = NoTimes
  ELSE /\ IsLeast(times.minT, {m.minT : m \in blocks})
       /\ IsGreatest(times.maxT, {m.maxT : m \in blocks})

=============================================================================
