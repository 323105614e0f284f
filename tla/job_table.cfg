CONSTANTS
  j1 = j1
  t1 = t1
  k1 = k1
  NoJob = NoJob
  Jobs = {j1}
  TimerReloads = {t1}
  Commands = {k1}
  MaxFailures = 1
SPECIFICATION FairSpec
INVARIANT TableInv
PROPERTY TableConverges ModalCloses
CHECK_DEADLOCK FALSE
