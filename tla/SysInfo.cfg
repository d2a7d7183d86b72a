SPECIFICATION Spec
CONSTANTS
  NPROC = 4
  Page = {f1, f2}
  MAXPID = 4
  Tracers = {2, 3}
  Askers = {1, 2}
  NULL = NULL
  f1 = f1
  f2 = f2
INVARIANTS
  NprocWithinTheScan
  TracedByAncestors
PROPERTIES
  FreememOfAMoment
  ImplementsPageAllocator
CHECK_DEADLOCK FALSE
