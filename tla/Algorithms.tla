----------------------------- MODULE Algorithms -----------------------------
(***************************************************************************)
(* One call of each pure algorithm of the plugin, on every input of a      *)
(* bounded set: the log adapter, the statistics of the stored blocks and   *)
(* the times of a dump.                                                    *)
(***************************************************************************)
EXTENDS LogAdapter, BlockTimes

CONSTANTS
  LogPairs,   \* lists of pairs that are logged
  Metas,      \* lists of meta.json
  DumpRanges  \* windows <<min, max>> of dumps

\* A list of pairs with different keys, one of them "msg".  Only its text may look
\* like one of the keys that the adapter looks for.
Loggable(pairs) ==
  /\ \A i, j \in DOMAIN pairs : pairs[i][1] = pairs[j][1] => i = j
  /\ \E i \in DOMAIN pairs : pairs[i][1] = "msg"
  /\ \A i \in DOMAIN pairs : pairs[i][1] # "msg" => pairs[i][2] \notin {"msg", "level"}

\* An item that is not a string equals none of the strings in the adapter.
ASSUME LogAssumption ==
  /\ OtherValues \cap {"msg", "level", "debug", "warn", "error"} = {}
  /\ \A pairs \in LogPairs : pairs \in Seq(STRING \X Item) /\ Loggable(pairs)

\* What a meta.json says of a block.  It begins after 1970, and not after its end.
Blocks ==
  {m \in [minT: Nat \ {0}, maxT: Nat, samples: Nat, series: Nat, readable: BOOLEAN] :
     m.minT <= m.maxT}

ASSUME BlocksAssumption ==
  /\ ZeroTime \in Int /\ ZeroTime < 0
  /\ Metas \subseteq Seq(Blocks)
  /\ DumpRanges \subseteq Int \X Int

VARIABLES
  call,   \* the call that was made and its arguments
  result  \* what it returned

vars == <<call, result>>

Init == call = [fn |-> "none"] /\ result = {}

First == call.fn = "none"

CallLog ==
  /\ First
  /\ \E pairs \in LogPairs :
       call' = [fn |-> "Log", pairs |-> pairs] /\ result' = Log(Items(pairs))

CallGetTSDBStats ==
  /\ First
  /\ \E metas \in Metas :
       call' = [fn |-> "GetTSDBStats", metas |-> metas] /\ result' = GetTSDBStats(metas)

\* Without a block createDump returns an error.
CallCreateDump ==
  /\ First
  /\ \E metas \in Metas \ {<<>>}, w \in DumpRanges :
       /\ call' = [fn |-> "createDump", metas |-> metas, window |-> w]
       /\ result' = DumpTimes(metas, w[1], w[2])

Next == CallLog \/ CallGetTSDBStats \/ CallCreateDump

Spec == Init /\ [][Next]_vars

(***************************************************************************)
(* Properties.                                                             *)
(***************************************************************************)

\* Wherever "msg" and "level" stand in a list of pairs, the message is found
\* and the other pairs are kept in their order, although both are cut out of
\* the list one after the other (log.go:52-82); a level that is a string, as in
\* log_test.go, chooses the call.  A level of go-kit does not: such an entry is
\* cut the same way and logged by LogInfo, whatever its level.
LogIsFaithful == call.fn = "Log" => result = ExpectedLog(call.pairs)

\* The statistics are those of the blocks whose meta.json can be read, in
\* whatever order they are listed (stats.go:28-48).
StatsAreTrue ==
  call.fn = "GetTSDBStats" => Describes(result, call.metas, Readable(call.metas))

\* The times a dump reports enclose exactly the blocks of its window, without
\* those that reach beyond its end, in whatever order they are listed; they
\* are the zero time if there are none (dump.go:38-68, 121).
DumpTimesAreTrue ==
  call.fn = "createDump" =>
    Encloses(result, Enclosed(call.metas, call.window[1], call.window[2]))

=============================================================================
