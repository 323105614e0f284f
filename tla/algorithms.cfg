CONSTANTS
  ZeroTime <- BeforeAll
  goKitError = goKitError
  number = number
  OtherValues = {goKitError, number}
  LogPairs <- SomeLogPairs
  Metas <- SomeMetas
  DumpRanges <- SomeDumpRanges
SPECIFICATION Spec
INVARIANT LogIsFaithful StatsAreTrue DumpTimesAreTrue
CHECK_DEADLOCK FALSE
