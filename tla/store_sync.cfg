CONSTANTS
  b1 = b1
  b2 = b2
  b3 = b3
  d1 = d1
  NoBlock = NoBlock
  Blocks = {b1, b2, b3}
  Retention = 1
  LocalRetention = 2
  MaxClock = 3
  Dumps = {}
  Windows <- AllButLast
  StoreFaults = {"list"}
SPECIFICATION FairSpec
PROPERTY BlockIsStored ObsoleteIsRemoved
