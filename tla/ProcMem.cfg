SPECIFICATION Spec
CONSTANTS
  NPROC = 2
  PERTABLE = 2
  MAXPAGES = 5
  Images = {3}
  NULL = NULL
INVARIANTS
  PagesConserved
  OnlyMemoryPanics
  WholeOrEmpty
CHECK_DEADLOCK FALSE
