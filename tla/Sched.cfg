SPECIFICATION FairSpec
CONSTANTS
  NCPU = 2
  NPROC = 3
  Naps = {2}
  Sleepers = {2, 3}
  Mortal = {3}
  NULL = NULL
INVARIANTS
  OneCPU
  TableAlive
  SchedPanics
  NoLostWakeup
PROPERTIES
  ReadyRuns
  SleepReturns
