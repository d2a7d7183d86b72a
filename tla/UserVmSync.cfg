SPECIFICATION Spec
CONSTANTS
  PGSIZE = 2
  NVPAGES = 4
  Frame <- Frames
  Proc <- Procs
  Deltas <- Steps
  SegBytes = {1}
  NULL = NULL
  p1 = p1
  p2 = p2
  p3 = p3
  f1 = f1
  f2 = f2
  f3 = f3
  f4 = f4
  f5 = f5
SYMMETRY Symmetry
CHECK_DEADLOCK FALSE
INVARIANT
  InSync
