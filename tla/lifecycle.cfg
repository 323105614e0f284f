CONSTANTS
  n1 = n1
  n2 = n2
  NoOne = NoOne
  Nodes = {n1, n2}
  LifeFaults = {"crash", "tsdb", "ping", "sync"}
SPECIFICATION FairSpec
INVARIANT LifeInv
PROPERTY TargetsFollow DeactivationEnds
