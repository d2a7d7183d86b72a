SPECIFICATION SearchSpec
CONSTANTS
  NBUF = 2
  NBUCKETS = 3
  Proc <- TwoProcs
  Block = {1, 2, 3, 4}
  MayUse <- PrivateBlocks
  Value = {0, 1}
  MAXPIN = 1
  NULL = NULL
  p1 = p1
  p2 = p2
  p3 = p3
INVARIANTS
  NoWriteLost
  PanicsOnlyIfNoneSpare
PROPERTY
  ImplementsBlockStore
CHECK_DEADLOCK FALSE
