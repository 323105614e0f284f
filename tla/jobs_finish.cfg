CONSTANTS
  n1 = n1
  n2 = n2
  c1 = c1
  c2 = c2
  j1 = j1
  j2 = j2
  NoOne = NoOne
  Nodes = {n1}
  Jobs = {j1, j2}
  Callers = {c1}
  At <- AtFirst
  Ops = {"create", "list", "download", "support"}
  Faults = {"dump", "sched", "ctx", "read"}
SPECIFICATION FairSpec
PROPERTY JobFinishes
