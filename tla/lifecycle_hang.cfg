CONSTANTS
  n1 = n1
  n2 = n2
  NoOne = NoOne
  Nodes = {n1}
  LifeFaults = {}
SPECIFICATION FairSpec
PROPERTY DeactivationAlwaysEnds
CHECK_DEADLOCK FALSE
