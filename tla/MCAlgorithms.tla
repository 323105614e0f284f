---------------------------- MODULE MCAlgorithms ----------------------------
(***************************************************************************)
(* The inputs of Algorithms.                                               *)
(***************************************************************************)
EXTENDS Algorithms

CONSTANTS goKitError, \* level.ErrorValue() of go-kit
          number

\* Lists of up to four pairs with different keys, one of them "msg".  The text
\* may look like a key.
Pairs ==
  {<<"msg", text>> : text \in {"a log", "msg", "level"}} \cup
  {<<"level", level>> : level \in {"debug", "info", "warn", "error", goKitError}} \cup
  {<<"ulid", "01HE">>, <<"mint", number>>}

SomeLogPairs ==
  {s \in SeqOf(Pairs, 4) :
     /\ \A i, j \in DOMAIN s : s[i][1] = s[j][1] => i = j
     /\ \E i \in DOMAIN s : s[i][1] = "msg"}

Meta == [minT: 1..3, maxT: 2..4, series: {1, 2}, samples: {5}, readable: BOOLEAN]
SomeMetas == SeqOf({m \in Meta : m.minT < m.maxT}, 2)
               \cup [1..3 -> {m \in Meta : m.minT < m.maxT /\ m.series = 1 /\ m.readable}]

\* The window ends inside a block, begins inside one, or holds none.
SomeDumpRanges == {<<0, 5>>, <<0, 4>>, <<2, 4>>, <<2, 3>>, <<-9, 1>>}

BeforeAll == -100
=============================================================================
