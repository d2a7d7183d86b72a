SPECIFICATION FairSpec
CONSTANTS
  NBUF = 2
  NBUCKETS = 2
  Proc <- ThreeProcs
  Block = {1, 2, 3, 4}
  MayUse <- OneBlockEach
  Value = {0}
  MAXPIN = 0
  NULL = NULL
  p1 = p1
  p2 = p2
  p3 = p3
PROPERTY
  LocksGranted
CHECK_DEADLOCK FALSE
