SPECIFICATION Spec
CONSTANTS
  NBUF = 2
  NBUCKETS = 2
  Proc <- TwoProcs
  Block = {1, 2, 3}
  MayUse <- SharedBlocks
  Value = {0}
  MAXPIN = 1
  NULL = NULL
  p1 = p1
  p2 = p2
  p3 = p3
INVARIANT
  OneUserPerBlock
CHECK_DEADLOCK FALSE
