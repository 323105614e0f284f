----------------------------- MODULE LogAdapter -----------------------------
(***************************************************************************)
(* metricsLogger.Log (server/log.go): the adapter from the key-value       *)
(* logger of the TSDB and the scrape manager to the logger of the plugin.  *)
(* The adapter gets items of any type and compares them with strings.  In  *)
(* log_test.go the value of "level" is a string; the TSDB and the scrape   *)
(* manager log through the level package of go-kit, whose levels are       *)
(* values of a type of its own and equal to no string.                     *)
(***************************************************************************)
EXTENDS Integers, SequencesExt

CONSTANT OtherValues \* items that are not strings: levels of go-kit, numbers

Item == STRING \cup OtherValues

Panic   == [fn |-> "panic", msg |-> "", kvps |-> <<>>]  \* index out of range
Nothing == [fn |-> "none", msg |-> "", kvps |-> <<>>]

\* The index of the first occurrence of an item, 0 if there is none.
IndexOf(items, name) == SelectInSeq(items, LAMBDA item : item = name)

\* slices.Delete(items, i, i+2)
DeletePair(items, i) == SubSeq(items, 1, i - 1) \o SubSeq(items, i + 2, Len(items))

\* switch kvps[i+1]: no case is equal to a level of go-kit.
LogFn(level) ==
  CASE level = "debug" -> "LogDebug"
    [] level = "warn"  -> "LogWarn"
    [] level = "error" -> "LogError"
    [] OTHER           -> "LogInfo"

\* Mutation: the index of the level is the one it had before the message was
\* removed.
LogWithSpoiledIndex(items) ==
  LET m    == IF IndexOf(items, "msg") = 0 THEN 1 ELSE IndexOf(items, "msg")
      kvps == DeletePair(items, m)
      l    == IndexOf(items, "level") IN
  IF items = <<>> THEN Nothing
  ELSE IF Len(items) = 1 THEN [fn |-> "LogInfo", msg |-> items[1], kvps |-> <<>>]
  ELSE IF m = Len(items) THEN Panic
  ELSE IF l = 0 THEN [fn |-> "LogInfo", msg |-> items[m + 1], kvps |-> kvps]
  ELSE IF l >= Len(kvps) THEN Panic
  ELSE [fn |-> LogFn(kvps[l + 1]), msg |-> items[m + 1], kvps |-> DeletePair(kvps, l)]

\* The call of the plugin's logger.  Without "msg" the first item is taken for
\* it, whatever it is.
Log(items) ==
  LET m    == IF IndexOf(items, "msg") = 0 THEN 1 ELSE IndexOf(items, "msg")
      kvps == DeletePair(items, m)
      l    == IndexOf(kvps, "level") IN
  IF items = <<>> THEN Nothing
  ELSE IF Len(items) = 1 THEN [fn |-> "LogInfo", msg |-> items[1], kvps |-> <<>>]
  ELSE IF m = Len(items) THEN Panic
  ELSE IF l = 0 THEN [fn |-> "LogInfo", msg |-> items[m + 1], kvps |-> kvps]
  ELSE IF l = Len(kvps) THEN Panic
  ELSE [fn |-> LogFn(kvps[l + 1]), msg |-> items[m + 1], kvps |-> DeletePair(kvps, l)]

(***************************************************************************)
(* What a caller expects of a list of pairs <<key, value>>.                *)
(***************************************************************************)
\* The pairs, one after the other.
Items(pairs) ==
  [j \in 1..2 * Len(pairs) |-> pairs[(j + 1) \div 2][IF j % 2 = 1 THEN 1 ELSE 2]]

\* The place of the first pair with a key, 0 if there is none.
PlaceOf(pairs, key) == SelectInSeq(pairs, LAMBDA p : p[1] = key)

ValueOf(pairs, key) ==
  IF PlaceOf(pairs, key) = 0 THEN "" ELSE pairs[PlaceOf(pairs, key)][2]

Without(pairs, key) ==
  IF PlaceOf(pairs, key) = 0 THEN pairs ELSE RemoveAt(pairs, PlaceOf(pairs, key))

ExpectedLog(pairs) ==
  [fn   |-> LogFn(ValueOf(pairs, "level")),
   msg  |-> ValueOf(pairs, "msg"),
   kvps |-> Items(Without(Without(pairs, "msg"), "level"))]

=============================================================================
