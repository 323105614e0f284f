CONSTANTS
  n1 = n1
  n2 = n2
  c1 = c1
  c2 = c2
  j1 = j1
  j2 = j2
  NoOne = NoOne
  Nodes = {n1, n2}
  Jobs = {j1, j2}
  Callers = {c1, c2}
  At <- AtOneEach
  Ops = {"create", "list", "delete", "download", "support"}
  Faults = {}
SPECIFICATION HistSpec
SYMMETRY BothSwaps
INVARIANT IInv DumpBacked NoOrphanDump ListingComplete ArchiveServed
PROPERTY RecordsIsolated
CHECK_DEADLOCK FALSE
