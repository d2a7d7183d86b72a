SPECIFICATION HSpec
CONSTANTS
  NBUF = 2
  NBUCKETS = 3
  Proc <- ThreeProcs
  Block = {1, 3, 4, 7}
  MayUse <- SharedBlocks
  Value = {0}
  MAXPIN = 0
  NULL = NULL
  p1 = p1
  p2 = p2
  p3 = p3
SYMMETRY Symmetry
INVARIANTS
  RefcntExact
  OnePlace
  RecyclesLRU
PROPERTY
  NeverStolen
CHECK_DEADLOCK FALSE
