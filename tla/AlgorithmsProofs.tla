-------------------------- MODULE AlgorithmsProofs --------------------------
(***************************************************************************)
(* Each algorithm returns what its reference definition says, whatever the *)
(* length of its input: the log adapter, the statistics and the times of a *)
(* dump.                                                                   *)
(*                                                                         *)
(* A loop is a function that is defined by recursion, so two things have   *)
(* to be shown of it: that there is one, and what its entries are.  Both   *)
(* are inductions on a set of numbers (Ascent, Iteration).  The reference  *)
(* definition of the number of samples is a sum over a set, for which      *)
(* there is the same on a set of sets (SubsetAscent).                      *)
(***************************************************************************)
EXTENDS Algorithms, WellFoundedInduction, FiniteSetTheorems, SequenceTheorems, TLAPS

(***************************************************************************)
(* Induction, on sets of numbers and of subsets.                           *)
(***************************************************************************)

\* What holds of 0 and passes on to the next number holds up to n.
LEMMA Ascent ==
  ASSUME NEW n \in Nat, NEW Good, 0 \in Good,
         \A k \in 1..n : k - 1 \in Good => k \in Good
  PROVE  0..n \subseteq Good
<1> DEFINE Bad == {k \in 0..n : k \notin Good}
<1> SUFFICES ASSUME Bad # {} PROVE FALSE
  OBVIOUS
<1>1. PICK least \in Bad : \A j \in Bad : <<j, least>> \notin OpToRel(<, Nat)
  <2>1. Bad \subseteq Nat
    OBVIOUS
  <2> QED
    BY <2>1, NatLessThanWellFounded, WFMin, Zenon
<1>2. \A j \in Bad : ~(j < least)
  <2> SUFFICES ASSUME NEW j \in Bad, j < least PROVE FALSE
    OBVIOUS
  <2>1. OpToRel(<, Nat) = {ss \in Nat \X Nat : ss[1] < ss[2]}
    BY DEF OpToRel
  <2>2. j \in Nat /\ least \in Nat
    OBVIOUS
  <2> HIDE DEF Bad
  <2>3. <<j, least>> \in {ss \in Nat \X Nat : ss[1] < ss[2]}
    BY <2>2
  <2> QED
    BY <1>1, <2>1, <2>3
<1>3. least # 0 /\ least \in 1..n /\ least - 1 \in 0..n
  OBVIOUS
<1>4. least - 1 \in Good
  BY <1>2, <1>3
<1> QED
  BY <1>3, <1>4

\* What holds of a set if it does of its strict subsets holds of every subset
\* of a finite set.
LEMMA SubsetAscent ==
  ASSUME NEW D, IsFiniteSet(D), NEW Good,
         \A S \in SUBSET D : (\A T \in SUBSET S : T # S => T \in Good) => S \in Good
  PROVE  SUBSET D \subseteq Good
<1> DEFINE Bad == {S \in SUBSET D : S \notin Good}
<1> SUFFICES ASSUME Bad # {} PROVE FALSE
  OBVIOUS
<1>1. IsWellFoundedOn(StrictSubsetOrdering(D), SUBSET D)
  <2>1. FiniteSubsetsOf(D) = SUBSET D
    BY FS_FiniteSubsetsOfFinite
  <2>2. IsWellFoundedOn(StrictSubsetOrdering(D), FiniteSubsetsOf(D))
    BY FS_StrictSubsetOrderingWellFounded
  <2> QED
    BY <2>1, <2>2
<1>2. Bad \subseteq SUBSET D
  OBVIOUS
<1>3. PICK least \in Bad : \A S \in Bad : <<S, least>> \notin StrictSubsetOrdering(D)
  <2> DEFINE R == StrictSubsetOrdering(D)
             U == SUBSET D
  <2>1. IsWellFoundedOn(R, U) /\ Bad \subseteq U /\ Bad # {}
    BY <1>1, <1>2
  <2>2. \E x \in Bad : \A y \in Bad : ~(<<y, x>> \in R)
    <3> HIDE DEF Bad, R, U
    <3> QED
      BY <2>1, WFMin
  <2> QED
    BY <2>2
<1>4. \A T \in SUBSET least : T # least => T \in Good
  <2> SUFFICES ASSUME NEW T \in SUBSET least, T # least, T \notin Good PROVE FALSE
    OBVIOUS
  <2>1. T \in Bad
    OBVIOUS
  <2>2. <<T, least>> \in StrictSubsetOrdering(D)
    BY <2>1 DEF StrictSubsetOrdering
  <2> QED
    BY <1>3, <2>1, <2>2
<1> QED
  BY <1>4

\* f holds what a loop has computed before its first iteration and after each.
Iterates(f, n, base, step) ==
  /\ f[0] = base
  /\ \A k \in 1..n : f[k] = step[<<k, f[k - 1]>>]

\* A loop of n iterations computes something.
LEMMA Iteration ==
  ASSUME NEW n \in Nat, NEW V, NEW base \in V, NEW step \in [(1..n) \X V -> V]
  PROVE  \E f \in [0..n -> V] : Iterates(f, n, base, step)
<1> DEFINE Runs(f, m) == /\ f[0] = base
                         /\ \A k \in 1..m : f[k] = step[<<k, f[k - 1]>>]
           Good == {m \in 0..n : \E f \in [0..m -> V] : Runs(f, m)}
<1>1. 0 \in Good
  <2> DEFINE f == [k \in 0..0 |-> base]
  <2>1. f \in [0..0 -> V] /\ Runs(f, 0)
    OBVIOUS
  <2> HIDE DEF f, Runs
  <2> QED
    BY <2>1
<1>2. ASSUME NEW m \in 1..n, m - 1 \in Good
      PROVE  m \in Good
  <2>1. PICK f \in [0..(m - 1) -> V] : Runs(f, m - 1)
    BY <1>2
  <2> DEFINE g == [k \in 0..m |-> IF k = m THEN step[<<m, f[m - 1]>>] ELSE f[k]]
  <2>2. f[m - 1] \in V
    BY <2>1
  <2>3. step[<<m, f[m - 1]>>] \in V
    BY <2>2
  <2>4. g \in [0..m -> V]
    BY <2>3
  <2>5. g[0] = base
    BY <2>1
  <2>6. ASSUME NEW k \in 1..m
        PROVE  g[k] = step[<<k, g[k - 1]>>]
    <3>1. g[k - 1] = f[k - 1]
      OBVIOUS
    <3>2. CASE k = m
      <4>1. g[k] = step[<<m, f[m - 1]>>]
        BY <3>2
      <4> HIDE DEF g
      <4> QED
        BY <3>1, <3>2, <4>1
    <3>3. CASE k # m
      BY <2>1, <3>1, <3>3
    <3> QED
      BY <3>2, <3>3
  <2>7. Runs(g, m)
    BY <2>5, <2>6
  <2> HIDE DEF g, Runs
  <2> QED
    BY <2>4, <2>7
<1>3. 0..n \subseteq Good
  <2> HIDE DEF Good
  <2> QED
    BY <1>1, <1>2, Ascent
<1>4. n \in Good
  BY <1>3
<1> QED
  BY <1>4 DEF Iterates

(***************************************************************************)
(* Sums over a finite set.  MapThenSumSet takes the elements in an order   *)
(* of its own; the sum is the same in any order.                           *)
(***************************************************************************)
Some(S) == CHOOSE x \in S : TRUE

\* f is the table of the sums of w over the subsets of D.
Sums(f, D, w) ==
  f = [S \in SUBSET D |-> IF S = {} THEN 0 ELSE w[Some(S)] + f[S \ {Some(S)}]]

\* There is such a table.
LEMMA SumsExist ==
  ASSUME NEW D, IsFiniteSet(D), NEW w, \A x \in D : w[x] \in Nat
  PROVE  \E f : Sums(f, D, w)
<1> DEFINE Small(m) == {S \in SUBSET D : Cardinality(S) <= m}
           Entry(f, S) == IF S = {} THEN 0 ELSE w[Some(S)] + f[S \ {Some(S)}]
           Fits(f, m) == f = [S \in Small(m) |-> Entry(f, S)]
           Good == {m \in 0..Cardinality(D) : \E f : Fits(f, m)}
<1>1. \A S \in SUBSET D : /\ IsFiniteSet(S)
                          /\ Cardinality(S) \in Nat
                          /\ Cardinality(S) <= Cardinality(D)
  BY FS_Subset, FS_CardinalityType
<1>2. Cardinality(D) \in Nat
  BY FS_CardinalityType
<1>3. 0 \in Good
  <2> DEFINE g == [S \in Small(0) |-> 0]
  <2>1. ASSUME NEW S \in Small(0) PROVE Entry(g, S) = 0
    <3>1. Cardinality(S) = 0
      BY <1>1
    <3>2. S = {}
      BY <1>1, <3>1, FS_EmptySet
    <3> QED
      BY <3>2
  <2>2. Fits(g, 0)
    BY <2>1
  <2> HIDE DEF Fits, g
  <2> QED
    BY <1>2, <2>2
<1>4. ASSUME NEW m \in 1..Cardinality(D), m - 1 \in Good
      PROVE  m \in Good
  <2>1. PICK f : Fits(f, m - 1)
    BY <1>4
  <2> DEFINE g == [S \in Small(m) |-> Entry(f, S)]
  <2>2. \A S \in Small(m - 1) : S \in Small(m) /\ f[S] = Entry(f, S)
    <3>1. ASSUME NEW S \in Small(m - 1) PROVE S \in Small(m)
      BY <1>1, <1>2
    <3>2. ASSUME NEW S \in Small(m - 1) PROVE f[S] = Entry(f, S)
      <4> HIDE DEF Small, Entry
      <4> QED
        BY <2>1
    <3> QED
      BY <3>1, <3>2
  <2>3. ASSUME NEW S \in Small(m), S # {}
        PROVE  S \ {Some(S)} \in Small(m - 1)
    <3>1. Some(S) \in S
      BY <2>3 DEF Some
    <3>2. Cardinality(S \ {Some(S)}) = Cardinality(S) - 1
      BY <1>1, <3>1, FS_RemoveElement
    <3> QED
      BY <1>1, <3>2
  <2>4. ASSUME NEW S \in Small(m)
        PROVE  Entry(f, S) = Entry(g, S)
    <3>1. CASE S = {}
      BY <3>1
    <3>2. CASE S # {}
      <4> DEFINE T == S \ {Some(S)}
      <4>1. T \in Small(m - 1)
        BY <2>3, <3>2
      <4>2. f[T] = g[T]
        <5> HIDE DEF T, Small, Entry
        <5> QED
          BY <2>2, <4>1
      <4> QED
        BY <3>2, <4>2
    <3> QED
      BY <3>1, <3>2
  <2>5. Fits(g, m)
    <3> HIDE DEF Small, Entry
    <3> QED
      BY <2>4
  <2> HIDE DEF Fits, g
  <2> QED
    BY <2>5
<1>5. Cardinality(D) \in Good
  <2> HIDE DEF Good
  <2>1. 0..Cardinality(D) \subseteq Good
    BY <1>2, <1>3, <1>4, Ascent
  <2> QED
    BY <1>2, <2>1
<1>6. PICK f : Fits(f, Cardinality(D))
  BY <1>5
<1>7. Small(Cardinality(D)) = SUBSET D
  BY <1>1
<1>8. Sums(f, D, w)
  BY <1>6, <1>7 DEF Sums
<1> QED
  BY <1>8

\* An entry of the table does not depend on the element taken out first.
LEMMA SumsInAnyOrder ==
  ASSUME NEW D, IsFiniteSet(D), NEW w, \A x \in D : w[x] \in Nat, NEW f, Sums(f, D, w)
  PROVE  \A S \in SUBSET D : f[S] \in Nat /\ \A x \in S : f[S] = w[x] + f[S \ {x}]
<1> DEFINE Good == {S \in SUBSET D : f[S] \in Nat /\ \A x \in S : f[S] = w[x] + f[S \ {x}]}
<1>1. ASSUME NEW S \in SUBSET D, \A T \in SUBSET S : T # S => T \in Good
      PROVE  S \in Good
  <2>1. CASE S = {}
    <3>1. f[S] = 0
      BY <2>1 DEF Sums
    <3> QED
      BY <2>1, <3>1
  <2>2. CASE S # {}
    <3> DEFINE c == Some(S)
    <3>1. c \in S /\ w[c] \in Nat
      BY <2>2 DEF Some
    <3>2. f[S] = w[c] + f[S \ {c}]
      BY <2>2 DEF Sums
    <3> HIDE DEF c
    <3>3. f[S \ {c}] \in Nat
      BY <1>1, <3>1
    <3>4. ASSUME NEW x \in S
          PROVE  f[S] = w[x] + f[S \ {x}]
      <4>1. CASE x = c
        BY <3>2, <4>1
      <4>2. CASE x # c
        <5> DEFINE T == S \ {c}
                   U == S \ {x}
                   R == (S \ {c}) \ {x}
        <5>1. T \in Good /\ U \in Good /\ R \in Good /\ x \in T /\ c \in U
          BY <1>1, <3>1, <4>2
        <5>2. U \ {c} = R /\ T \ {x} = R
          OBVIOUS
        <5>3. f[T] = w[x] + f[R]
          BY <5>1, <5>2
        <5>4. f[U] = w[c] + f[R]
          BY <5>1, <5>2
        <5>5. w[x] \in Nat /\ f[R] \in Nat
          BY <5>1
        <5> HIDE DEF T, U, R
        <5>6. f[S] = w[c] + f[T]
          BY <3>2 DEF T
        <5>7. f[S] = w[x] + f[U]
          BY <3>1, <5>3, <5>4, <5>5, <5>6
        <5> QED
          BY <5>7 DEF U
      <4> QED
        BY <4>1, <4>2
    <3>5. f[S] \in Nat
      BY <3>1, <3>2, <3>3
    <3> QED
      BY <3>4, <3>5
  <2> QED
    BY <2>1, <2>2
<1>2. SUBSET D \subseteq Good
  <2> HIDE DEF Good
  <2> QED
    BY <1>1, SubsetAscent
<1> QED
  BY <1>2

\* The table for a subset is part of the table for a set.
LEMMA SumsAgree ==
  ASSUME NEW D, IsFiniteSet(D), NEW E \in SUBSET D, NEW w,
         NEW f, Sums(f, D, w), NEW g, Sums(g, E, w)
  PROVE  f[E] = g[E]
<1> DEFINE Good == {S \in SUBSET E : f[S] = g[S]}
<1>1. ASSUME NEW S \in SUBSET E, \A T \in SUBSET S : T # S => T \in Good
      PROVE  S \in Good
  <2>1. CASE S = {}
    BY <2>1 DEF Sums
  <2>2. CASE S # {}
    <3>1. Some(S) \in S
      BY <2>2 DEF Some
    <3>2. f[S \ {Some(S)}] = g[S \ {Some(S)}]
      BY <1>1, <3>1
    <3>3. f[S] = w[Some(S)] + f[S \ {Some(S)}]
      BY <2>2 DEF Sums
    <3>4. g[S] = w[Some(S)] + g[S \ {Some(S)}]
      BY <2>2 DEF Sums
    <3> QED
      BY <3>2, <3>3, <3>4
  <2> QED
    BY <2>1, <2>2
<1>2. IsFiniteSet(E)
  BY FS_Subset
<1>3. SUBSET E \subseteq Good
  <2> HIDE DEF Good
  <2> QED
    BY <1>1, <1>2, SubsetAscent
<1> QED
  BY <1>3

\* One more block adds its samples.
LEMMA SamplesMore ==
  ASSUME NEW metas \in Seq(Blocks), NEW P \in SUBSET DOMAIN metas,
         NEW k \in DOMAIN metas, k \notin P
  PROVE  /\ Samples(metas, {}) = 0
         /\ Samples(metas, P) \in Nat
         /\ Samples(metas, P \cup {k}) = Samples(metas, P) + metas[k].samples
<1> DEFINE D == DOMAIN metas
           w == [i \in D |-> metas[i].samples]
           table(E) == CHOOSE f : Sums(f, E, w)
<1>1. IsFiniteSet(D) /\ \A E \in SUBSET D : IsFiniteSet(E)
  <2>1. IsFiniteSet(D)
    BY FS_Interval, Len(metas) \in Int, D = 1..Len(metas)
  <2> QED
    BY <2>1, FS_Subset
<1>2. \A x \in D : w[x] \in Nat
  BY DEF Blocks
<1>3. \A E \in SUBSET D : Sums(table(E), E, w)
  <2> SUFFICES ASSUME NEW E \in SUBSET D PROVE \E f : Sums(f, E, w)
    OBVIOUS
  <2>1. \A x \in E : w[x] \in Nat
    BY <1>2
  <2> HIDE DEF w, D
  <2> QED
    BY <1>1, <2>1, SumsExist
<1>4. ASSUME NEW E \in SUBSET D
      PROVE  Samples(metas, E) = table(E)[E]
  <2>1. ASSUME NEW S \in SUBSET E, S # {}
        PROVE  w[Some(S)] = metas[Some(S)].samples
    <3>1. Some(S) \in S
      BY <2>1 DEF Some
    <3> QED
      BY <3>1
  <2> DEFINE Solves(f) == f = [S \in SUBSET E |->
                                IF S = {} THEN 0
                                ELSE metas[Some(S)].samples + f[S \ {Some(S)}]]
  <2>2. \A f : Solves(f) <=> Sums(f, E, w)
    <3> SUFFICES ASSUME NEW f
                 PROVE  [S \in SUBSET E |-> IF S = {} THEN 0
                                ELSE metas[Some(S)].samples + f[S \ {Some(S)}]]
                        = [S \in SUBSET E |-> IF S = {} THEN 0
                                ELSE w[Some(S)] + f[S \ {Some(S)}]]
      BY DEF Sums
    <3> HIDE DEF w
    <3> QED
      BY <2>1
  <2>3. Samples(metas, E) = (CHOOSE f : Solves(f))[E]
    BY DEF Samples, MapThenSumSet, MapThenFoldSet, Some
  <2>4. (CHOOSE f : Solves(f)) = table(E)
    <3> HIDE DEF Solves, w
    <3> QED
      BY <2>2
  <2> QED
    BY <2>3, <2>4
<1> HIDE DEF table, w
<1>5. \A E \in SUBSET D : Samples(metas, E) = table(D)[E]
  <2> SUFFICES ASSUME NEW E \in SUBSET D PROVE table(E)[E] = table(D)[E]
    BY <1>4
  <2>1. Sums(table(D), D, w) /\ Sums(table(E), E, w) /\ IsFiniteSet(D)
    BY <1>1, <1>3
  <2> DEFINE f == table(D)
             g == table(E)
  <2>2. f[E] = g[E]
    <3> HIDE DEF D, f, g
    <3> QED
      BY <2>1, SumsAgree DEF f, g
  <2> QED
    BY <2>2
<1>6. \A S \in SUBSET D : /\ table(D)[S] \in Nat
                          /\ \A x \in S : table(D)[S] = w[x] + table(D)[S \ {x}]
  <2> HIDE DEF D
  <2> QED
    BY <1>1, <1>2, <1>3, SumsInAnyOrder
<1>7. Samples(metas, {}) = 0
  <2>1. table(D)[{}] = 0
    BY <1>3 DEF Sums
  <2> QED
    BY <1>5, <2>1
<1>8. Samples(metas, P) \in Nat
  BY <1>5, <1>6
<1>9. Samples(metas, P \cup {k}) = metas[k].samples + Samples(metas, P)
  <2>1. (P \cup {k}) \ {k} = P /\ P \cup {k} \in SUBSET D
    OBVIOUS
  <2>2. w[k] = metas[k].samples
    BY DEF w
  <2> QED
    BY <1>5, <1>6, <2>1, <2>2
<1>10. metas[k].samples \in Nat
  BY DEF Blocks
<1> QED
  BY <1>7, <1>8, <1>9, <1>10

(***************************************************************************)
(* The statistics.                                                         *)
(***************************************************************************)
Stats == [minT: Nat, maxT: Nat, samples: Nat, series: Nat]

\* A further element keeps a set's least one or takes its place.
LEMMA LeastMore ==
  ASSUME NEW S \in SUBSET Int, NEW x, IsLeast(x, S), NEW y \in Int
  PROVE  IsLeast(IF y < x THEN y ELSE x, S \cup {y})
BY DEF IsLeast

\* The same of its greatest one.
LEMMA GreatestMore ==
  ASSUME NEW S \in SUBSET Int, NEW x, IsGreatest(x, S), NEW y \in Int
  PROVE  IsGreatest(Larger(y, x), S \cup {y})
BY DEF IsGreatest, Larger

\* The loop of GetTSDBStats, iteration by iteration.
LEMMA StatsLoop ==
  ASSUME NEW metas \in Seq(Blocks)
  PROVE  \E f \in [0..Len(metas) -> Stats] :
           /\ GetTSDBStats(metas) = f[Len(metas)]
           /\ f[0] = NoStats
           /\ \A k \in 1..Len(metas) :
                f[k] = IF k \in Readable(metas) THEN AddToStats(f[k - 1], metas[k])
                       ELSE f[k - 1]
<1> DEFINE n == Len(metas)
           Body(k, s) == IF k \in Readable(metas) THEN AddToStats(s, metas[k]) ELSE s
           step == [ks \in (1..n) \X Stats |-> Body(ks[1], ks[2])]
           Solves(f) == f = [k \in 0..n |->
                              IF k = 0 THEN NoStats
                              ELSE IF k \in Readable(metas)
                                THEN AddToStats(f[k - 1], metas[k])
                              ELSE f[k - 1]]
<1>1. \A k \in 1..n, s \in Stats : Body(k, s) \in Stats
  <2> SUFFICES ASSUME NEW k \in 1..n, NEW s \in Stats PROVE AddToStats(s, metas[k]) \in Stats
    OBVIOUS
  <2> DEFINE m == metas[k]
  <2>1. m.minT \in Nat /\ m.maxT \in Nat /\ m.samples \in Nat /\ m.series \in Nat
    BY DEF Blocks
  <2>2. s.minT \in Nat /\ s.maxT \in Nat /\ s.samples \in Nat /\ s.series \in Nat
    BY DEF Stats
  <2> HIDE DEF m
  <2>3. /\ (IF m.minT < s.minT \/ s.minT = 0 THEN m.minT ELSE s.minT) \in Nat
        /\ Larger(m.maxT, s.maxT) \in Nat /\ Larger(m.series, s.series) \in Nat
        /\ s.samples + m.samples \in Nat
    BY <2>1, <2>2 DEF Larger
  <2>4. AddToStats(s, m) \in Stats
    BY <2>3 DEF AddToStats, Stats
  <2> QED
    BY <2>4 DEF m
<1>2. step \in [(1..n) \X Stats -> Stats]
  <2> HIDE DEF Body
  <2> QED
    BY <1>1
<1>3. NoStats \in Stats /\ n \in Nat
  BY DEF NoStats, Stats
<1>4. PICK f \in [0..n -> Stats] : Iterates(f, n, NoStats, step)
  <2> HIDE DEF step, n
  <2> QED
    BY <1>2, <1>3, Iteration
<1>5. \A k \in 1..n : f[k] = Body(k, f[k - 1])
  <2> SUFFICES ASSUME NEW k \in 1..n PROVE f[k] = Body(k, f[k - 1])
    OBVIOUS
  <2>1. f[k - 1] \in Stats
    OBVIOUS
  <2>2. step[<<k, f[k - 1]>>] = Body(k, f[k - 1])
    <3> HIDE DEF Body
    <3> QED
      BY <2>1
  <2> HIDE DEF step, Body
  <2> QED
    BY <1>4, <2>2 DEF Iterates
<1>6. Solves(f)
  <2>1. f = [k \in 0..n |-> f[k]]
    OBVIOUS
  <2>2. \A k \in 0..n : f[k] = IF k = 0 THEN NoStats
                              ELSE IF k \in Readable(metas)
                                THEN AddToStats(f[k - 1], metas[k])
                              ELSE f[k - 1]
    BY <1>4, <1>5 DEF Iterates
  <2> QED
    BY <2>1, <2>2
<1> DEFINE after == CHOOSE g : Solves(g)
<1>7. Solves(after)
  <2> HIDE DEF Solves
  <2> QED
    BY <1>6
<1>8. GetTSDBStats(metas) = after[n]
  BY DEF GetTSDBStats
<1> HIDE DEF after
<1>9. after[0] = NoStats /\ \A k \in 1..n : after[k] = Body(k, after[k - 1])
  BY <1>3, <1>7
<1>10. \A k \in 0..n : after[k] \in Stats
  <2> DEFINE Good == {k \in 0..n : after[k] \in Stats}
  <2>1. 0 \in Good
    BY <1>3, <1>9
  <2>2. ASSUME NEW k \in 1..n, k - 1 \in Good PROVE k \in Good
    <3> HIDE DEF Body
    <3> QED
      BY <1>1, <1>9, <2>2
  <2>3. 0..n \subseteq Good
    <3> HIDE DEF Good, n
    <3> QED
      BY <1>3, <2>1, <2>2, Ascent
  <2> QED
    BY <2>3
<1>11. after \in [0..n -> Stats]
  BY <1>7, <1>10
<1> QED
  BY <1>8, <1>9, <1>11

\* One more block.
LEMMA DescribesMore ==
  ASSUME NEW metas \in Seq(Blocks), NEW P \in SUBSET DOMAIN metas,
         NEW k \in DOMAIN metas, k \notin P,
         NEW s \in Stats, Describes(s, metas, P)
  PROVE  Describes(AddToStats(s, metas[k]), metas, P \cup {k})
<1> DEFINE m == metas[k]
           t == AddToStats(s, m)
           mins0 == {metas[i].minT : i \in P}
           mins1 == {metas[i].minT : i \in P \cup {k}}
           maxs0 == {metas[i].maxT : i \in P}
           maxs1 == {metas[i].maxT : i \in P \cup {k}}
           series0 == {metas[i].series : i \in P}
           series1 == {metas[i].series : i \in P \cup {k}}
<1>1. /\ m \in Blocks
      /\ \A i \in DOMAIN metas : metas[i] \in Blocks
  OBVIOUS
<1>2. /\ t.minT = IF m.minT < s.minT \/ s.minT = 0 THEN m.minT ELSE s.minT
      /\ t.maxT = Larger(m.maxT, s.maxT)
      /\ t.samples = s.samples + m.samples
      /\ t.series = Larger(m.series, s.series)
  BY DEF AddToStats
<1>3. /\ m.minT \in Nat /\ m.minT # 0 /\ m.maxT \in Nat /\ m.series \in Nat /\ m.samples \in Nat
      /\ \A i \in DOMAIN metas : /\ metas[i].minT \in Nat /\ metas[i].minT # 0
                                 /\ metas[i].maxT \in Nat
                                 /\ metas[i].series \in Nat
  BY <1>1 DEF Blocks
<1>4. /\ mins1 = mins0 \cup {m.minT}
      /\ maxs1 = maxs0 \cup {m.maxT}
      /\ series1 = series0 \cup {m.series}
  OBVIOUS
<1>5. /\ mins0 \in SUBSET Int
      /\ maxs0 \in SUBSET Int
      /\ series0 \in SUBSET Int
      /\ 0 \notin mins0
      /\ P = {} => mins0 = {} /\ maxs0 = {} /\ series0 = {}
  BY <1>3
<1>6. t.samples = Samples(metas, P \cup {k})
  <2>1. s.samples = Samples(metas, P)
    <3>1. CASE P = {}
      <4>1. Samples(metas, {}) = 0
        BY SamplesMore
      <4>2. s.samples = 0
        BY <3>1 DEF Describes, NoStats
      <4> QED
        BY <3>1, <4>1, <4>2
    <3>2. CASE P # {}
      BY <3>2 DEF Describes
    <3> QED
      BY <3>1, <3>2
  <2> QED
    BY <1>2, <2>1, SamplesMore
<1>7. CASE P = {}
  <2>1. s.minT = 0 /\ s.maxT = 0 /\ s.series = 0
    BY <1>7 DEF Describes, NoStats
  <2> HIDE DEF m, t, mins0, mins1, maxs0, maxs1, series0, series1
  <2>2. t.minT = m.minT /\ t.maxT = m.maxT /\ t.series = m.series
    BY <1>2, <1>3, <2>1 DEF Larger
  <2>3. /\ IsLeast(t.minT, mins1)
        /\ IsGreatest(t.maxT, maxs1)
        /\ IsGreatest(t.series, series1)
    BY <1>3, <1>4, <1>5, <1>7, <2>2 DEF IsLeast, IsGreatest
  <2> QED
    BY <1>6, <2>3 DEF Describes, t, m, mins1, maxs1, series1
<1>8. CASE P # {}
  <2>1. /\ IsLeast(s.minT, mins0)
        /\ IsGreatest(s.maxT, maxs0)
        /\ IsGreatest(s.series, series0)
    BY <1>8 DEF Describes
  <2> HIDE DEF m, t, mins0, mins1, maxs0, maxs1, series0, series1
  <2>2. s.minT # 0
    BY <1>5, <2>1 DEF IsLeast
  <2>3. IsLeast(t.minT, mins1)
    <3>1. t.minT = IF m.minT < s.minT THEN m.minT ELSE s.minT
      BY <1>2, <2>2
    <3>2. m.minT \in Int /\ mins0 \in SUBSET Int /\ IsLeast(s.minT, mins0)
      BY <1>3, <1>5, <2>1
    <3>3. IsLeast(IF m.minT < s.minT THEN m.minT ELSE s.minT, mins0 \cup {m.minT})
      BY <3>2, LeastMore
    <3> QED
      BY <1>4, <3>1, <3>3
  <2>4. IsGreatest(t.maxT, maxs1)
    <3>1. m.maxT \in Int /\ maxs0 \in SUBSET Int /\ IsGreatest(s.maxT, maxs0)
      BY <1>3, <1>5, <2>1
    <3>2. IsGreatest(Larger(m.maxT, s.maxT), maxs0 \cup {m.maxT})
      BY <3>1, GreatestMore
    <3> QED
      BY <1>2, <1>4, <3>2
  <2>5. IsGreatest(t.series, series1)
    <3>1. m.series \in Int /\ series0 \in SUBSET Int /\ IsGreatest(s.series, series0)
      BY <1>3, <1>5, <2>1
    <3>2. IsGreatest(Larger(m.series, s.series), series0 \cup {m.series})
      BY <3>1, GreatestMore
    <3> QED
      BY <1>2, <1>4, <3>2
  <2> QED
    BY <1>6, <2>3, <2>4, <2>5 DEF Describes, t, m, mins1, maxs1, series1
<1> QED
  BY <1>7, <1>8

\* After each iteration the statistics describe the blocks read so far.
LEMMA StatsDescribe ==
  ASSUME NEW metas \in Seq(Blocks)
  PROVE  Describes(GetTSDBStats(metas), metas, Readable(metas))
<1> DEFINE n == Len(metas)
           Read(k) == Readable(metas) \cap (1..k)
<1>1. PICK f \in [0..n -> Stats] :
        /\ GetTSDBStats(metas) = f[n]
        /\ f[0] = NoStats
        /\ \A k \in 1..n :
             f[k] = IF k \in Readable(metas) THEN AddToStats(f[k - 1], metas[k]) ELSE f[k - 1]
  BY StatsLoop
<1> DEFINE Good == {k \in 0..n : Describes(f[k], metas, Read(k))}
<1>2. 0 \in Good
  <2>1. Read(0) = {}
    OBVIOUS
  <2> QED
    BY <1>1, <2>1 DEF Describes
<1>3. ASSUME NEW k \in 1..n, k - 1 \in Good
      PROVE  k \in Good
  <2>1. CASE k \in Readable(metas)
    <3>1. /\ Read(k) = Read(k - 1) \cup {k} /\ k \notin Read(k - 1)
          /\ Read(k - 1) \in SUBSET DOMAIN metas /\ k \in DOMAIN metas
      BY <2>1 DEF Readable
    <3>2. f[k - 1] \in Stats /\ Describes(f[k - 1], metas, Read(k - 1))
      BY <1>3
    <3>3. f[k] = AddToStats(f[k - 1], metas[k])
      BY <1>1, <2>1
    <3> HIDE DEF Read
    <3>4. Describes(f[k], metas, Read(k))
      BY <3>1, <3>2, <3>3, DescribesMore
    <3> QED
      BY <3>4
  <2>2. CASE k \notin Readable(metas)
    <3>1. Read(k) = Read(k - 1)
      BY <2>2
    <3>2. f[k] = f[k - 1]
      BY <1>1, <2>2
    <3> QED
      BY <1>3, <3>1, <3>2
  <2> QED
    BY <2>1, <2>2
<1>4. n \in Good
  <2>1. 0..n \subseteq Good
    <3>1. n \in Nat
      OBVIOUS
    <3> HIDE DEF Good, n
    <3> QED
      BY <1>2, <1>3, <3>1, Ascent
  <2> QED
    BY <2>1
<1>5. Read(n) = Readable(metas)
  BY DEF Readable
<1> QED
  BY <1>1, <1>4, <1>5

(***************************************************************************)
(* The times of a dump.                                                    *)
(***************************************************************************)
Times == [minT: Int, maxT: Int]

\* The blocks that createDump takes up to a place of the list.
Taken(metas, min, max, k) ==
  {metas[i] : i \in {j \in Readable(metas) \cap (1..k) : InWindow(metas[j], min, max)}}

\* The loop of createDump, iteration by iteration.
LEMMA TimesLoop ==
  ASSUME ZeroTime \in Int, NEW metas \in Seq(Blocks), NEW min \in Int, NEW max \in Int
  PROVE  \E f \in [0..Len(metas) -> Times] :
           /\ DumpTimes(metas, min, max) = f[Len(metas)]
           /\ f[0] = NoTimes
           /\ \A k \in 1..Len(metas) :
                f[k] = IF k \in Readable(metas) /\ InWindow(metas[k], min, max)
                         THEN AddToTimes(f[k - 1], metas[k])
                       ELSE f[k - 1]
<1> DEFINE n == Len(metas)
           Body(k, s) == IF k \in Readable(metas) /\ InWindow(metas[k], min, max)
                           THEN AddToTimes(s, metas[k]) ELSE s
           step == [ks \in (1..n) \X Times |-> Body(ks[1], ks[2])]
           Solves(f) == f = [k \in 0..n |->
                              IF k = 0 THEN NoTimes
                              ELSE IF k \in Readable(metas) /\ InWindow(metas[k], min, max)
                                THEN AddToTimes(f[k - 1], metas[k])
                              ELSE f[k - 1]]
<1>1. \A k \in 1..n, s \in Times : Body(k, s) \in Times
  <2> SUFFICES ASSUME NEW k \in 1..n, NEW s \in Times PROVE AddToTimes(s, metas[k]) \in Times
    OBVIOUS
  <2>1. metas[k] \in Blocks
    OBVIOUS
  <2> QED
    BY <2>1 DEF AddToTimes, Larger, Times, Blocks
<1>2. step \in [(1..n) \X Times -> Times]
  <2> HIDE DEF Body
  <2> QED
    BY <1>1
<1>3. NoTimes \in Times /\ n \in Nat
  BY DEF NoTimes, Times
<1>4. PICK f \in [0..n -> Times] : Iterates(f, n, NoTimes, step)
  <2> HIDE DEF step, n
  <2> QED
    BY <1>2, <1>3, Iteration
<1>5. \A k \in 1..n : f[k] = Body(k, f[k - 1])
  <2> SUFFICES ASSUME NEW k \in 1..n PROVE f[k] = Body(k, f[k - 1])
    OBVIOUS
  <2>1. f[k - 1] \in Times
    OBVIOUS
  <2>2. step[<<k, f[k - 1]>>] = Body(k, f[k - 1])
    <3> HIDE DEF Body
    <3> QED
      BY <2>1
  <2> HIDE DEF step, Body
  <2> QED
    BY <1>4, <2>2 DEF Iterates
<1>6. Solves(f)
  <2>1. f = [k \in 0..n |-> f[k]]
    OBVIOUS
  <2>2. \A k \in 0..n : f[k] = IF k = 0 THEN NoTimes
                              ELSE IF k \in Readable(metas) /\ InWindow(metas[k], min, max)
                                THEN AddToTimes(f[k - 1], metas[k])
                              ELSE f[k - 1]
    BY <1>4, <1>5 DEF Iterates
  <2> QED
    BY <2>1, <2>2
<1> DEFINE after == CHOOSE g : Solves(g)
<1>7. Solves(after)
  <2> HIDE DEF Solves
  <2> QED
    BY <1>6
<1>8. DumpTimes(metas, min, max) = after[n]
  BY DEF DumpTimes
<1> HIDE DEF after
<1>9. after[0] = NoTimes /\ \A k \in 1..n : after[k] = Body(k, after[k - 1])
  BY <1>3, <1>7
<1>10. \A k \in 0..n : after[k] \in Times
  <2> DEFINE Good == {k \in 0..n : after[k] \in Times}
  <2>1. 0 \in Good
    BY <1>3, <1>9
  <2>2. ASSUME NEW k \in 1..n, k - 1 \in Good PROVE k \in Good
    <3> HIDE DEF Body
    <3> QED
      BY <1>1, <1>9, <2>2
  <2>3. 0..n \subseteq Good
    <3> HIDE DEF Good, n
    <3> QED
      BY <1>3, <2>1, <2>2, Ascent
  <2> QED
    BY <2>3
<1>11. after \in [0..n -> Times]
  BY <1>7, <1>10
<1> QED
  BY <1>8, <1>9, <1>11

\* One more block that is taken.
LEMMA EnclosesMore ==
  ASSUME ZeroTime \in Int, ZeroTime < 0, NEW S \in SUBSET Blocks, NEW m \in Blocks,
         NEW s \in Times, Encloses(s, S)
  PROVE  Encloses(AddToTimes(s, m), S \cup {m})
<1> DEFINE t == AddToTimes(s, m)
<1>1. /\ t.minT = IF m.minT < s.minT \/ s.minT = ZeroTime THEN m.minT ELSE s.minT
      /\ t.maxT = Larger(m.maxT, s.maxT)
  BY DEF AddToTimes
<1>2. /\ m.minT \in Nat /\ m.maxT \in Nat
      /\ \A b \in S : b.minT \in Nat /\ b.maxT \in Nat
  BY DEF Blocks
<1>3. /\ {b.minT : b \in S \cup {m}} = {b.minT : b \in S} \cup {m.minT}
      /\ {b.maxT : b \in S \cup {m}} = {b.maxT : b \in S} \cup {m.maxT}
  OBVIOUS
<1>4. {b.minT : b \in S} \in SUBSET Int /\ {b.maxT : b \in S} \in SUBSET Int
  BY <1>2
<1> HIDE DEF t
<1>5. CASE S = {}
  <2>1. s.minT = ZeroTime /\ s.maxT = ZeroTime
    BY <1>5 DEF Encloses, NoTimes
  <2>2. t.minT = m.minT /\ t.maxT = m.maxT
    BY <1>1, <1>2, <2>1 DEF Larger
  <2>3. /\ IsLeast(t.minT, {b.minT : b \in S \cup {m}})
        /\ IsGreatest(t.maxT, {b.maxT : b \in S \cup {m}})
    BY <1>2, <1>3, <1>5, <2>2 DEF IsLeast, IsGreatest
  <2> QED
    BY <2>3 DEF Encloses, t
<1>6. CASE S # {}
  <2>1. IsLeast(s.minT, {b.minT : b \in S}) /\ IsGreatest(s.maxT, {b.maxT : b \in S})
    BY <1>6 DEF Encloses
  <2>2. s.minT # ZeroTime
    BY <1>2, <2>1 DEF IsLeast
  <2>3. IsLeast(t.minT, {b.minT : b \in S \cup {m}})
    <3>1. t.minT = IF m.minT < s.minT THEN m.minT ELSE s.minT
      BY <1>1, <2>2
    <3> QED
      BY <1>2, <1>3, <1>4, <2>1, <3>1, LeastMore
  <2>4. IsGreatest(t.maxT, {b.maxT : b \in S \cup {m}})
    BY <1>1, <1>2, <1>3, <1>4, <2>1, GreatestMore
  <2> QED
    BY <2>3, <2>4 DEF Encloses, t
<1> QED
  BY <1>5, <1>6

\* The blocks taken are those that meet the window without reaching beyond it.
LEMMA TakenIsEnclosed ==
  ASSUME NEW metas \in Seq(Blocks), NEW min \in Int, NEW max \in Int
  PROVE  Taken(metas, min, max, Len(metas)) = Enclosed(metas, min, max)
<1>1. \A i \in DOMAIN metas : /\ metas[i].minT \in Nat /\ metas[i].maxT \in Nat
                              /\ metas[i].minT <= metas[i].maxT
  BY DEF Blocks
<1>2. /\ Readable(metas) \cap (1..Len(metas)) = Readable(metas)
      /\ Readable(metas) \subseteq DOMAIN metas
  BY DEF Readable
<1>3. ASSUME NEW i \in Readable(metas)
      PROVE  InWindow(metas[i], min, max) <=>
               /\ metas[i].maxT > min /\ metas[i].minT < max /\ ~(metas[i].maxT >= max)
  BY <1>1, <1>2 DEF InWindow
<1>4. Enclosed(metas, min, max)
        = {m \in {metas[i] : i \in Readable(metas)} :
             m.maxT > min /\ m.minT < max /\ ~(m.maxT >= max)}
  BY DEF Enclosed
<1>5. Taken(metas, min, max, Len(metas))
        = {metas[i] : i \in {j \in Readable(metas) : InWindow(metas[j], min, max)}}
  BY <1>2 DEF Taken
<1> QED
  BY <1>3, <1>4, <1>5

\* After each iteration the times enclose the blocks taken so far.
LEMMA TimesEnclose ==
  ASSUME ZeroTime \in Int, ZeroTime < 0,
         NEW metas \in Seq(Blocks), NEW min \in Int, NEW max \in Int
  PROVE  Encloses(DumpTimes(metas, min, max), Enclosed(metas, min, max))
<1> DEFINE n == Len(metas)
           B(k) == Taken(metas, min, max, k)
<1>1. PICK f \in [0..n -> Times] :
        /\ DumpTimes(metas, min, max) = f[n]
        /\ f[0] = NoTimes
        /\ \A k \in 1..n :
             f[k] = IF k \in Readable(metas) /\ InWindow(metas[k], min, max)
                      THEN AddToTimes(f[k - 1], metas[k]) ELSE f[k - 1]
  BY TimesLoop
<1> DEFINE Good == {k \in 0..n : Encloses(f[k], B(k))}
<1>2. 0 \in Good
  <2>1. B(0) = {}
    BY DEF Taken
  <2> QED
    BY <1>1, <2>1 DEF Encloses
<1>3. ASSUME NEW k \in 1..n, k - 1 \in Good
      PROVE  k \in Good
  <2> DEFINE Places(j) == {i \in Readable(metas) \cap (1..j) : InWindow(metas[i], min, max)}
  <2>1. CASE k \in Readable(metas) /\ InWindow(metas[k], min, max)
    <3>1. Places(k) = Places(k - 1) \cup {k}
      BY <2>1
    <3>2. B(k) = B(k - 1) \cup {metas[k]}
      <4> HIDE DEF Places
      <4>1. B(k) = {metas[i] : i \in Places(k)} /\ B(k - 1) = {metas[i] : i \in Places(k - 1)}
        BY DEF Taken, Places
      <4> HIDE DEF B
      <4> QED
        BY <3>1, <4>1
    <3>3. f[k - 1] \in Times /\ Encloses(f[k - 1], B(k - 1)) /\ metas[k] \in Blocks
      BY <1>3
    <3>4. B(k - 1) \in SUBSET Blocks
      BY DEF Taken, Readable
    <3>5. f[k] = AddToTimes(f[k - 1], metas[k])
      BY <1>1, <2>1
    <3> HIDE DEF B
    <3>6. Encloses(f[k], B(k))
      BY <3>2, <3>3, <3>4, <3>5, EnclosesMore
    <3> QED
      BY <3>6
  <2>2. CASE ~(k \in Readable(metas) /\ InWindow(metas[k], min, max))
    <3>1. Places(k) = Places(k - 1)
      BY <2>2
    <3>2. B(k) = B(k - 1)
      BY <3>1 DEF Taken
    <3>3. f[k] = f[k - 1]
      BY <1>1, <2>2
    <3> HIDE DEF B
    <3> QED
      BY <1>3, <3>2, <3>3
  <2> QED
    BY <2>1, <2>2
<1>4. n \in Good
  <2>1. 0..n \subseteq Good
    <3>1. n \in Nat
      OBVIOUS
    <3> HIDE DEF Good, n
    <3> QED
      BY <1>2, <1>3, <3>1, Ascent
  <2> QED
    BY <2>1
<1> QED
  BY <1>1, <1>4, TakenIsEnclosed

(***************************************************************************)
(* The log adapter.                                                        *)
(***************************************************************************)
Pair == STRING \X Item

\* A set of numbers has a least one.
LEMMA MinIs ==
  ASSUME NEW S \in SUBSET Nat, S # {}
  PROVE  Min(S) \in S /\ \A y \in S : Min(S) <= y
<1>1. PICK x \in S : \A y \in S : <<y, x>> \notin OpToRel(<, Nat)
  BY NatLessThanWellFounded, WFMin, Zenon
<1>2. ASSUME NEW y \in S PROVE x <= y
  <2>1. OpToRel(<, Nat) = {ss \in Nat \X Nat : ss[1] < ss[2]}
    BY DEF OpToRel
  <2>2. <<y, x>> \notin {ss \in Nat \X Nat : ss[1] < ss[2]}
    BY <1>1, <2>1
  <2> QED
    BY <2>2
<1> QED
  BY <1>2 DEF Min

\* The first place of a key.
LEMMA PlaceIs ==
  ASSUME NEW pairs \in Seq(Pair), NEW key
  PROVE  /\ PlaceOf(pairs, key) \in 0..Len(pairs)
         /\ PlaceOf(pairs, key) = 0 => \A i \in 1..Len(pairs) : pairs[i][1] # key
         /\ PlaceOf(pairs, key) # 0 =>
              /\ PlaceOf(pairs, key) \in 1..Len(pairs)
              /\ pairs[PlaceOf(pairs, key)][1] = key
<1> DEFINE I == {i \in 1..Len(pairs) : pairs[i][1] = key}
<1>1. PlaceOf(pairs, key) = IF I # {} THEN Min(I) ELSE 0
  BY DEF PlaceOf, SelectInSeq
<1>2. I # {} => Min(I) \in I
  <2>1. I \in SUBSET Nat
    OBVIOUS
  <2> HIDE DEF I
  <2> QED
    BY <2>1, MinIs
<1> QED
  BY <1>1, <1>2

\* The first place of an item.
LEMMA IndexIs ==
  ASSUME NEW items \in Seq(Item), NEW name, NEW first \in 1..Len(items),
         items[first] = name, \A j \in 1..Len(items) : items[j] = name => first <= j
  PROVE  IndexOf(items, name) = first
<1> DEFINE I == {i \in 1..Len(items) : items[i] = name}
<1>1. IndexOf(items, name) = IF I # {} THEN Min(I) ELSE 0
  BY DEF IndexOf, SelectInSeq
<1>2. first \in I
  OBVIOUS
<1>3. Min(I) \in I /\ Min(I) <= first
  <2>1. I \in SUBSET Nat
    OBVIOUS
  <2> HIDE DEF I
  <2> QED
    BY <1>2, <2>1, MinIs
<1> QED
  BY <1>1, <1>2, <1>3

\* An item that is nowhere has no place.
LEMMA IndexIsNone ==
  ASSUME NEW items \in Seq(Item), NEW name, \A j \in 1..Len(items) : items[j] # name
  PROVE  IndexOf(items, name) = 0
<1> DEFINE I == {i \in 1..Len(items) : items[i] = name}
<1>1. IndexOf(items, name) = IF I # {} THEN Min(I) ELSE 0
  BY DEF IndexOf, SelectInSeq
<1> QED
  BY <1>1

\* A sequence without its elements from place a + 1 to place b.
Cut(s, a, b) == SubSeq(s, 1, a) \o SubSeq(s, b + 1, Len(s))

\* What is where in it.
LEMMA CutIs ==
  ASSUME NEW S, NEW s \in Seq(S), NEW a \in 0..Len(s), NEW b \in a..Len(s)
  PROVE  /\ Cut(s, a, b) \in Seq(S)
         /\ Len(Cut(s, a, b)) = Len(s) - (b - a)
         /\ \A j \in 1..(Len(s) - (b - a)) :
              Cut(s, a, b)[j] = IF j <= a THEN s[j] ELSE s[j + (b - a)]
<1> DEFINE u == SubSeq(s, 1, a)
           v == SubSeq(s, b + 1, Len(s))
<1>1. /\ a \in Int /\ b \in Int /\ Len(s) \in Nat
      /\ \A i \in 1..a : s[i] \in S
      /\ \A i \in (b + 1)..Len(s) : s[i] \in S
  OBVIOUS
<1>2. u \in Seq(S) /\ Len(u) = a /\ \A i \in 1..a : u[i] = s[i]
  <2>1. /\ u \in Seq(S) /\ Len(u) = IF 1 <= a THEN a - 1 + 1 ELSE 0
        /\ \A i \in 1..(a - 1 + 1) : u[i] = s[1 + i - 1]
    BY <1>1, SubSeqProperties
  <2> QED
    BY <1>1, <2>1
<1>3. v \in Seq(S) /\ Len(v) = Len(s) - b /\ \A i \in 1..(Len(s) - b) : v[i] = s[b + i]
  <2>1. /\ v \in Seq(S) /\ Len(v) = IF b + 1 <= Len(s) THEN Len(s) - (b + 1) + 1 ELSE 0
        /\ \A i \in 1..(Len(s) - (b + 1) + 1) : v[i] = s[b + 1 + i - 1]
    BY <1>1, SubSeqProperties
  <2> QED
    BY <1>1, <2>1
<1> DEFINE t == u \o v
<1> HIDE DEF u, v
<1>4. /\ t \in Seq(S) /\ Len(t) = Len(u) + Len(v)
      /\ \A i \in 1..(Len(u) + Len(v)) :
           t[i] = IF i <= Len(u) THEN u[i] ELSE v[i - Len(u)]
  BY <1>2, <1>3, ConcatProperties
<1> HIDE DEF t
<1>5. Len(t) = Len(s) - (b - a)
  BY <1>1, <1>2, <1>3, <1>4
<1>6. ASSUME NEW j \in 1..Len(t)
      PROVE  t[j] = IF j <= a THEN s[j] ELSE s[j + (b - a)]
  <2>1. CASE j <= a
    BY <1>1, <1>2, <1>3, <1>4, <1>5, <2>1
  <2>2. CASE j > a
    <3>1. j - a \in 1..(Len(s) - b)
      BY <1>1, <1>5, <2>2
    <3>2. t[j] = v[j - a]
      BY <1>1, <1>2, <1>3, <1>4, <2>2
    <3>3. v[j - a] = s[b + (j - a)] /\ b + (j - a) = j + (b - a)
      BY <1>1, <1>3, <3>1
    <3> QED
      BY <1>1, <2>2, <3>2, <3>3
  <2> QED
    BY <1>1, <2>1, <2>2
<1> QED
  BY <1>4, <1>5, <1>6 DEF t, u, v, Cut

\* The items of a list of pairs.
LEMMA ItemsAre ==
  ASSUME NEW pairs \in Seq(Pair)
  PROVE  /\ Items(pairs) \in Seq(Item)
         /\ Len(Items(pairs)) = 2 * Len(pairs)
         /\ \A i \in 1..Len(pairs) : /\ Items(pairs)[2 * i - 1] = pairs[i][1]
                                     /\ Items(pairs)[2 * i] = pairs[i][2]
<1> DEFINE n == 2 * Len(pairs)
<1>1. n \in Nat
  OBVIOUS
<1>2. ASSUME NEW j \in 1..n
      PROVE  pairs[(j + 1) \div 2][IF j % 2 = 1 THEN 1 ELSE 2] \in Item
  <2>1. (j + 1) \div 2 \in 1..Len(pairs)
    OBVIOUS
  <2>2. pairs[(j + 1) \div 2] \in Pair
    BY <2>1
  <2>3. CASE j % 2 = 1
    BY <2>2, <2>3 DEF Pair, Item
  <2>4. CASE j % 2 # 1
    BY <2>2, <2>4 DEF Pair
  <2> QED
    BY <2>3, <2>4
<1>3. Items(pairs) = [j \in 1..n |-> pairs[(j + 1) \div 2][IF j % 2 = 1 THEN 1 ELSE 2]]
  BY DEF Items
<1>4. Items(pairs) \in [1..n -> Item]
  BY <1>2, <1>3
<1>5. Items(pairs) \in Seq(Item) /\ Len(Items(pairs)) = n
  <2> HIDE DEF n
  <2> QED
    BY <1>1, <1>4
<1>6. ASSUME NEW i \in 1..Len(pairs)
      PROVE  Items(pairs)[2 * i - 1] = pairs[i][1] /\ Items(pairs)[2 * i] = pairs[i][2]
  <2>1. /\ 2 * i - 1 \in 1..n /\ 2 * i \in 1..n
        /\ ((2 * i - 1) + 1) \div 2 = i /\ (2 * i + 1) \div 2 = i
        /\ (2 * i - 1) % 2 = 1 /\ (2 * i) % 2 = 0
    OBVIOUS
  <2> HIDE DEF n
  <2> QED
    BY <1>3, <2>1
<1> QED
  BY <1>5, <1>6

\* Every item is the key or the value of a pair.
LEMMA Halves ==
  ASSUME NEW n \in Nat, NEW j \in 1..2 * n
  PROVE  \E i \in 1..n : j = 2 * i - 1 \/ j = 2 * i
<1>1. (j + 1) \div 2 \in 1..n /\ (j = 2 * ((j + 1) \div 2) - 1 \/ j = 2 * ((j + 1) \div 2))
  OBVIOUS
<1> QED
  BY <1>1

\* A key that is no other pair's value is found where its pair is.
LEMMA KeyIndex ==
  ASSUME NEW pairs \in Seq(Pair), NEW key,
         \A i, j \in 1..Len(pairs) : pairs[i][1] = pairs[j][1] => i = j,
         \A i \in 1..Len(pairs) : pairs[i][1] # key => pairs[i][2] # key
  PROVE  IndexOf(Items(pairs), key)
           = IF PlaceOf(pairs, key) = 0 THEN 0 ELSE 2 * PlaceOf(pairs, key) - 1
<1> DEFINE items == Items(pairs)
           p == PlaceOf(pairs, key)
           n == Len(pairs)
<1>1. /\ items \in Seq(Item) /\ Len(items) = 2 * n /\ n \in Nat
      /\ \A i \in 1..n : items[2 * i - 1] = pairs[i][1] /\ items[2 * i] = pairs[i][2]
  BY ItemsAre
<1>2. /\ p \in 0..n
      /\ p = 0 => \A i \in 1..n : pairs[i][1] # key
      /\ p # 0 => p \in 1..n /\ pairs[p][1] = key
  BY PlaceIs
<1>3. \A j \in 1..2 * n : \E i \in 1..n : j = 2 * i - 1 \/ j = 2 * i
  BY <1>1, Halves
<1> HIDE DEF items, p, n
<1>4. CASE p = 0
  <2>1. ASSUME NEW j \in 1..2 * n PROVE items[j] # key
    <3>1. PICK i \in 1..n : j = 2 * i - 1 \/ j = 2 * i
      BY <1>3
    <3>2. pairs[i][1] # key /\ pairs[i][2] # key
      BY <1>2, <1>4 DEF n
    <3> QED
      BY <1>1, <3>1, <3>2
  <2>2. IndexOf(items, key) = 0
    BY <1>1, <2>1, IndexIsNone
  <2> QED
    BY <1>4, <2>2 DEF items, p
<1>5. CASE p # 0
  <2>1. p \in 1..n /\ pairs[p][1] = key
    BY <1>2, <1>5
  <2>2. 2 * p - 1 \in 1..2 * n /\ items[2 * p - 1] = key
    BY <1>1, <2>1
  <2>3. ASSUME NEW j \in 1..2 * n, items[j] = key PROVE 2 * p - 1 <= j
    <3>1. PICK i \in 1..n : j = 2 * i - 1 \/ j = 2 * i
      BY <1>3
    <3>2. pairs[i][1] = key \/ pairs[i][2] = key
      BY <1>1, <2>3, <3>1
    <3>3. i = p
      BY <2>1, <3>2 DEF n
    <3> QED
      BY <3>1, <3>3
  <2>4. IndexOf(items, key) = 2 * p - 1
    BY <1>1, <2>2, <2>3, IndexIs
  <2> QED
    BY <1>5, <2>4 DEF items, p
<1> QED
  BY <1>4, <1>5

\* A pair removed, and its two items.
LEMMA PairRemoved ==
  ASSUME NEW pairs \in Seq(Pair), NEW p \in 1..Len(pairs)
  PROVE  /\ RemoveAt(pairs, p) \in Seq(Pair)
         /\ Len(RemoveAt(pairs, p)) = Len(pairs) - 1
         /\ \A i \in 1..(Len(pairs) - 1) :
              RemoveAt(pairs, p)[i] = IF i < p THEN pairs[i] ELSE pairs[i + 1]
         /\ DeletePair(Items(pairs), 2 * p - 1) = Items(RemoveAt(pairs, p))
<1> DEFINE items == Items(pairs)
           rest == RemoveAt(pairs, p)
           cut == DeletePair(items, 2 * p - 1)
           n == Len(pairs)
<1>1. /\ items \in Seq(Item) /\ Len(items) = 2 * n /\ n \in Nat /\ p \in 1..n
      /\ \A i \in 1..n : items[2 * i - 1] = pairs[i][1] /\ items[2 * i] = pairs[i][2]
  BY ItemsAre
<1>2. /\ rest \in Seq(Pair) /\ Len(rest) = n - 1
      /\ \A i \in 1..(n - 1) : rest[i] = IF i < p THEN pairs[i] ELSE pairs[i + 1]
  <2>1. p - 1 \in 0..Len(pairs) /\ p \in (p - 1)..Len(pairs)
    OBVIOUS
  <2>2. rest = Cut(pairs, p - 1, p)
    BY DEF RemoveAt, Cut
  <2>3. /\ rest \in Seq(Pair) /\ Len(rest) = Len(pairs) - (p - (p - 1))
        /\ \A j \in 1..(Len(pairs) - (p - (p - 1))) :
             rest[j] = IF j <= p - 1 THEN pairs[j] ELSE pairs[j + (p - (p - 1))]
    <3> HIDE DEF rest
    <3> QED
      BY <2>1, <2>2, CutIs
  <2> HIDE DEF rest
  <2> QED
    BY <2>3
<1>3. /\ cut \in Seq(Item) /\ Len(cut) = 2 * (n - 1)
      /\ \A j \in 1..2 * (n - 1) : cut[j] = IF j <= 2 * p - 2 THEN items[j] ELSE items[j + 2]
  <2> DEFINE a == 2 * p - 2
             b == 2 * p
  <2>1. a \in 0..Len(items) /\ b \in a..Len(items) /\ b - a = 2
    BY <1>1
  <2>2. cut = Cut(items, a, b)
    <3>1. (2 * p - 1) - 1 = a /\ (2 * p - 1) + 2 = b + 1
      OBVIOUS
    <3> HIDE DEF a, b, items
    <3> QED
      BY <3>1 DEF DeletePair, Cut
  <2>3. /\ cut \in Seq(Item) /\ Len(cut) = Len(items) - (b - a)
        /\ \A j \in 1..(Len(items) - (b - a)) :
             cut[j] = IF j <= a THEN items[j] ELSE items[j + (b - a)]
    <3> HIDE DEF a, b, items, cut
    <3> QED
      BY <1>1, <2>1, <2>2, CutIs
  <2> HIDE DEF cut, items
  <2> QED
    BY <1>1, <2>1, <2>3
<1>4. /\ Items(rest) \in Seq(Item) /\ Len(Items(rest)) = 2 * (n - 1)
      /\ \A i \in 1..(n - 1) : /\ Items(rest)[2 * i - 1] = rest[i][1]
                               /\ Items(rest)[2 * i] = rest[i][2]
  <2> HIDE DEF rest
  <2> QED
    BY <1>2, ItemsAre
<1> HIDE DEF items, rest, cut, n
<1>5. ASSUME NEW j \in 1..2 * (n - 1)
      PROVE  cut[j] = Items(rest)[j]
  <2>1. n - 1 \in Nat
    BY <1>1
  <2>2. PICK i \in 1..(n - 1) : j = 2 * i - 1 \/ j = 2 * i
    BY <2>1, Halves
  <2>3. CASE i < p
    <3>1. j <= 2 * p - 2 /\ i \in 1..n
      BY <1>1, <2>2, <2>3
    <3>2. cut[j] = items[j] /\ rest[i] = pairs[i]
      BY <1>2, <1>3, <2>3, <3>1
    <3> QED
      BY <1>1, <1>4, <2>2, <3>1, <3>2
  <2>4. CASE ~(i < p)
    <3>1. ~(j <= 2 * p - 2) /\ i + 1 \in 1..n /\ (j + 2 = 2 * (i + 1) - 1 \/ j + 2 = 2 * (i + 1))
      BY <1>1, <2>2, <2>4
    <3>2. cut[j] = items[j + 2] /\ rest[i] = pairs[i + 1]
      BY <1>2, <1>3, <2>4, <3>1
    <3>3. CASE j = 2 * i - 1
      <4>1. j + 2 = 2 * (i + 1) - 1
        BY <3>3
      <4>2. items[j + 2] = pairs[i + 1][1]
        BY <1>1, <3>1, <4>1
      <4> QED
        BY <1>4, <3>2, <3>3, <4>2
    <3>4. CASE j = 2 * i
      <4>1. j + 2 = 2 * (i + 1)
        BY <3>4
      <4>2. items[j + 2] = pairs[i + 1][2]
        BY <1>1, <3>1, <4>1
      <4> QED
        BY <1>4, <3>2, <3>4, <4>2
    <3> QED
      BY <2>2, <3>3, <3>4
  <2> QED
    BY <2>3, <2>4
<1>6. cut = Items(rest)
  BY <1>3, <1>4, <1>5, SeqEqual
<1> QED
  BY <1>2, <1>6 DEF cut, rest, items, n

\* The adapter does with the items what is expected of the pairs.
LEMMA LogIs ==
  ASSUME NEW pairs \in Seq(Pair), Loggable(pairs)
  PROVE  Log(Items(pairs)) = ExpectedLog(pairs)
<1> DEFINE n == Len(pairs)
           items == Items(pairs)
           p == PlaceOf(pairs, "msg")
           rest == RemoveAt(pairs, p)
           r == PlaceOf(rest, "level")
           at(i) == IF i < p THEN i ELSE i + 1
<1>1. /\ items \in Seq(Item) /\ Len(items) = 2 * n /\ n \in Nat
      /\ \A i \in 1..n : items[2 * i - 1] = pairs[i][1] /\ items[2 * i] = pairs[i][2]
  BY ItemsAre
<1>2. /\ \A i, j \in 1..n : pairs[i][1] = pairs[j][1] => i = j
      /\ \E i \in 1..n : pairs[i][1] = "msg"
      /\ \A i \in 1..n : pairs[i][1] # "msg" => pairs[i][2] # "msg" /\ pairs[i][2] # "level"
  BY DEF Loggable
<1>3. p \in 1..n /\ pairs[p][1] = "msg"
  BY <1>2, PlaceIs
<1>4. IndexOf(items, "msg") = 2 * p - 1
  <2>1. IndexOf(items, "msg") = IF p = 0 THEN 0 ELSE 2 * p - 1
    BY <1>2, KeyIndex
  <2> QED
    BY <1>3, <2>1
<1>5. /\ rest \in Seq(Pair) /\ Len(rest) = n - 1
      /\ \A i \in 1..(n - 1) : rest[i] = pairs[at(i)]
      /\ DeletePair(items, 2 * p - 1) = Items(rest)
  <2>1. /\ rest \in Seq(Pair) /\ Len(rest) = n - 1
        /\ \A i \in 1..(n - 1) : rest[i] = IF i < p THEN pairs[i] ELSE pairs[i + 1]
        /\ DeletePair(items, 2 * p - 1) = Items(rest)
    <3> HIDE DEF p
    <3> QED
      BY <1>3, PairRemoved
  <2> HIDE DEF rest, p, items
  <2> QED
    BY <2>1
<1>6. /\ \A i \in 1..(n - 1) : at(i) \in 1..n /\ at(i) # p
      /\ \A i, j \in 1..(n - 1) : at(i) = at(j) => i = j
      /\ \A q \in 1..n : q # p => \E i \in 1..(n - 1) : at(i) = q
  <2> HIDE DEF p, n
  <2>1. ASSUME NEW q \in 1..n, q # p
        PROVE  \E i \in 1..(n - 1) : at(i) = q
    <3>1. CASE q < p
      <4>1. q \in 1..(n - 1) /\ at(q) = q
        BY <1>1, <1>3, <3>1
      <4> QED
        BY <4>1
    <3>2. CASE q > p
      <4>1. q - 1 \in 1..(n - 1) /\ at(q - 1) = q
        BY <1>1, <1>3, <3>2
      <4> QED
        BY <4>1
    <3> QED
      BY <1>1, <1>3, <2>1, <3>1, <3>2
  <2>2. \A i \in 1..(n - 1) : at(i) \in 1..n /\ at(i) # p
    BY <1>1, <1>3
  <2>3. ASSUME NEW i \in 1..(n - 1), NEW j \in 1..(n - 1), at(i) = at(j)
        PROVE  i = j
    <3>1. i \in Int /\ j \in Int /\ p \in Int
      BY <1>1, <1>3
    <3>2. (IF i < p THEN i ELSE i + 1) = (IF j < p THEN j ELSE j + 1)
      BY <2>3
    <3> QED
      BY <3>1, <3>2
  <2> HIDE DEF at
  <2> QED
    BY <2>1, <2>2, <2>3
<1> DEFINE Q == PlaceOf(pairs, "level")
<1>7. /\ Q \in 0..n
      /\ Q = 0 => \A i \in 1..n : pairs[i][1] # "level"
      /\ Q # 0 => Q \in 1..n /\ pairs[Q][1] = "level"
  BY PlaceIs
<1>8. /\ r \in 0..(n - 1)
      /\ r = 0 => \A i \in 1..(n - 1) : rest[i][1] # "level"
      /\ r # 0 => r \in 1..(n - 1) /\ rest[r][1] = "level"
  <2> HIDE DEF rest
  <2> QED
    BY <1>5, PlaceIs
<1> HIDE DEF p, rest, at, n, items, Q, r
<1>9. /\ \A i, j \in 1..(n - 1) : rest[i][1] = rest[j][1] => i = j
      /\ \A i \in 1..(n - 1) : rest[i][2] # "level"
  <2>1. ASSUME NEW i \in 1..(n - 1), NEW j \in 1..(n - 1), rest[i][1] = rest[j][1]
        PROVE  i = j
    <3>1. pairs[at(i)][1] = pairs[at(j)][1]
      BY <1>5, <2>1
    <3> QED
      BY <1>2, <1>6, <3>1
  <2>2. ASSUME NEW i \in 1..(n - 1)
        PROVE  rest[i][2] # "level"
    <3>1. pairs[at(i)][1] # "msg"
      BY <1>2, <1>3, <1>6
    <3>2. pairs[at(i)][2] # "level"
      BY <1>2, <1>6, <3>1
    <3> QED
      BY <1>5, <3>2
  <2> QED
    BY <2>1, <2>2
<1>10. IndexOf(Items(rest), "level") = IF r = 0 THEN 0 ELSE 2 * r - 1
  <2>1. IndexOf(Items(rest), "level")
          = IF PlaceOf(rest, "level") = 0 THEN 0 ELSE 2 * PlaceOf(rest, "level") - 1
    BY <1>5, <1>9, KeyIndex
  <2> QED
    BY <2>1 DEF r
<1>11. /\ Q = 0 <=> r = 0
       /\ r # 0 => pairs[Q][2] = rest[r][2]
  <2>1. r # 0 => Q = at(r)
    <3> SUFFICES ASSUME r # 0 PROVE Q = at(r)
      OBVIOUS
    <3>1. r \in 1..(n - 1) /\ pairs[at(r)][1] = "level" /\ at(r) \in 1..n
      BY <1>5, <1>6, <1>8
    <3>2. Q \in 1..n /\ pairs[Q][1] = "level"
      BY <1>7, <3>1
    <3> QED
      BY <1>2, <3>1, <3>2
  <2>2. Q # 0 => r # 0
    <3> SUFFICES ASSUME Q # 0, r = 0 PROVE FALSE
      OBVIOUS
    <3>1. Q \in 1..n /\ pairs[Q][1] = "level"
      BY <1>7
    <3>2. Q # p
      BY <1>3, <3>1
    <3>3. PICK i \in 1..(n - 1) : at(i) = Q
      BY <1>6, <3>1, <3>2
    <3>4. rest[i][1] = "level"
      BY <1>5, <3>1, <3>3
    <3> QED
      BY <1>8, <3>4
  <2>3. r # 0 => Q # 0 /\ rest[r] = pairs[at(r)]
    BY <1>5, <1>6, <1>8, <2>1
  <2> QED
    BY <2>1, <2>2, <2>3
<1>12. /\ p # 0 /\ n >= 1 /\ items # <<>> /\ Len(items) # 1 /\ 2 * p - 1 # 0
       /\ 2 * p - 1 # Len(items) /\ (2 * p - 1) + 1 = 2 * p
       /\ items[2 * p] = pairs[p][2]
  BY <1>1, <1>3
<1>13. ValueOf(pairs, "msg") = pairs[p][2]
  BY <1>12 DEF ValueOf, p
<1>14. ValueOf(pairs, "level") = IF r = 0 THEN "" ELSE rest[r][2]
  BY <1>11 DEF ValueOf, Q
<1>15. Without(pairs, "msg") = rest
  BY <1>12 DEF Without, rest, p
<1>16. CASE r = 0
  <2>1. Log(items) = [fn |-> "LogInfo", msg |-> items[2 * p], kvps |-> Items(rest)]
    BY <1>4, <1>5, <1>10, <1>12, <1>16 DEF Log
  <2>2. Without(rest, "level") = rest
    BY <1>16 DEF Without, r
  <2>3. LogFn(ValueOf(pairs, "level")) = "LogInfo"
    BY <1>14, <1>16 DEF LogFn
  <2> QED
    BY <1>12, <1>13, <1>15, <2>1, <2>2, <2>3 DEF ExpectedLog, items
<1>17. CASE r # 0
  <2> DEFINE kvps == Items(rest)
  <2>1. r \in 1..(n - 1) /\ rest \in Seq(Pair) /\ Len(rest) = n - 1 /\ r \in 1..Len(rest)
    BY <1>5, <1>8, <1>17
  <2>2. /\ Len(kvps) = 2 * (n - 1)
        /\ kvps[2 * r] = rest[r][2]
    BY <2>1, ItemsAre
  <2>3. DeletePair(kvps, 2 * r - 1) = Items(RemoveAt(rest, r))
    BY <2>1, PairRemoved
  <2>4. /\ 2 * r - 1 # 0 /\ 2 * r - 1 # 2 * (n - 1) /\ (2 * r - 1) + 1 = 2 * r
    BY <1>1, <2>1
  <2> HIDE DEF kvps
  <2>5. DeletePair(items, 2 * p - 1) = kvps /\ IndexOf(kvps, "level") = 2 * r - 1
    BY <1>5, <1>10, <1>17 DEF kvps
  <2>6. Log(items) = [fn |-> LogFn(kvps[2 * r]), msg |-> items[2 * p],
                      kvps |-> DeletePair(kvps, 2 * r - 1)]
    BY <1>4, <1>12, <2>2, <2>4, <2>5 DEF Log
  <2>7. Without(rest, "level") = RemoveAt(rest, r)
    BY <1>17 DEF Without, r
  <2>8. ValueOf(pairs, "level") = kvps[2 * r]
    BY <1>14, <1>17, <2>2
  <2> QED
    BY <1>12, <1>13, <1>15, <2>3, <2>6, <2>7, <2>8 DEF ExpectedLog, items
<1> QED
  BY <1>16, <1>17 DEF items

(***************************************************************************)
(* The theorems.                                                           *)
(***************************************************************************)
Answers ==
  /\ LogIsFaithful
  /\ StatsAreTrue
  /\ DumpTimesAreTrue

\* Every call of Algorithms returns what is asked of it.
LEMMA AnswersAreTrue == Spec => []Answers
<1> USE LogAssumption, BlocksAssumption
<1>1. Init => Answers
  BY DEF Init, Answers, LogIsFaithful, StatsAreTrue, DumpTimesAreTrue
<1>2. Answers /\ [Next]_vars => Answers'
  <2> SUFFICES ASSUME Answers, [Next]_vars PROVE Answers'
    OBVIOUS
  <2> USE DEF Answers, LogIsFaithful, StatsAreTrue, DumpTimesAreTrue
  <2>1. CASE CallLog
    <3>1. PICK pairs \in LogPairs :
            call' = [fn |-> "Log", pairs |-> pairs] /\ result' = Log(Items(pairs))
      BY <2>1 DEF CallLog
    <3>2. pairs \in Seq(Pair) /\ Loggable(pairs)
      BY DEF Pair
    <3>3. Log(Items(pairs)) = ExpectedLog(pairs)
      BY <3>2, LogIs
    <3>4. call'.fn = "Log" /\ call'.pairs = pairs
      BY <3>1
    <3> QED
      BY <3>1, <3>3, <3>4
  <2>2. CASE CallGetTSDBStats
    <3>1. PICK metas \in Metas :
            /\ call' = [fn |-> "GetTSDBStats", metas |-> metas]
            /\ result' = GetTSDBStats(metas)
      BY <2>2 DEF CallGetTSDBStats
    <3>2. Describes(GetTSDBStats(metas), metas, Readable(metas))
      BY StatsDescribe
    <3>3. call'.fn = "GetTSDBStats" /\ call'.metas = metas
      BY <3>1
    <3> QED
      BY <3>1, <3>2, <3>3
  <2>3. CASE CallCreateDump
    <3>1. PICK metas \in Metas \ {<<>>}, w \in DumpRanges :
            /\ call' = [fn |-> "createDump", metas |-> metas, window |-> w]
            /\ result' = DumpTimes(metas, w[1], w[2])
      BY <2>3 DEF CallCreateDump
    <3>2. w[1] \in Int /\ w[2] \in Int
      OBVIOUS
    <3>3. Encloses(DumpTimes(metas, w[1], w[2]), Enclosed(metas, w[1], w[2]))
      BY <3>2, TimesEnclose
    <3>4. call'.fn = "createDump" /\ call'.metas = metas /\ call'.window = w
      BY <3>1
    <3> QED
      BY <3>1, <3>3, <3>4
  <2>4. CASE UNCHANGED vars
    BY <2>4 DEF vars
  <2> QED
    BY <2>1, <2>2, <2>3, <2>4 DEF Next
<1> QED
  BY <1>1, <1>2, PTL DEF Spec

(***************************************************************************)
(* Wherever "msg" and "level" stand in a list of pairs of any length, and  *)
(* whether the level is a string or a value of go-kit, the adapter finds   *)
(* them and hands on the others in their order (log.go:52-82).             *)
(***************************************************************************)
THEOREM LogsAreFaithful == Spec => []LogIsFaithful
BY AnswersAreTrue, PTL DEF Answers

(***************************************************************************)
(* Every entry whose level is a value of go-kit, those of the TSDB and of  *)
(* the scrape manager, is logged by LogInfo: its level, which the comment  *)
(* at log.go:19 says is calculated, is lost (log.go:69).                   *)
(***************************************************************************)
THEOREM GoKitLevelsAreLost ==
  Spec => [](call.fn = "Log" /\ ValueOf(call.pairs, "level") \in OtherValues
               => result.fn = "LogInfo")
<1>1. ASSUME LogIsFaithful, call.fn = "Log", ValueOf(call.pairs, "level") \in OtherValues
      PROVE  result.fn = "LogInfo"
  <2> DEFINE level == ValueOf(call.pairs, "level")
  <2>1. level # "debug" /\ level # "warn" /\ level # "error"
    <3>1. level \in OtherValues
      BY <1>1
    <3> HIDE DEF level
    <3> QED
      BY <3>1, LogAssumption
  <2>2. LogFn(level) = "LogInfo"
    <3> HIDE DEF level
    <3> QED
      BY <2>1 DEF LogFn
  <2>3. result.fn = LogFn(level)
    BY <1>1 DEF LogIsFaithful, ExpectedLog
  <2> QED
    BY <2>2, <2>3
<1> QED
  BY <1>1, LogsAreFaithful, PTL

(***************************************************************************)
(* The statistics describe the readable blocks of a list of any length, in *)
(* any order, although 0 stands both for a time and for none (stats.go).   *)
(***************************************************************************)
THEOREM StatsDescribeBlocks == Spec => []StatsAreTrue
BY AnswersAreTrue, PTL DEF Answers

(***************************************************************************)
(* The times of a dump enclose the blocks of its window and no others,     *)
(* however many blocks there are (dump.go:38-68).                          *)
(***************************************************************************)
THEOREM DumpTimesEnclose == Spec => []DumpTimesAreTrue
BY AnswersAreTrue, PTL DEF Answers

=============================================================================
