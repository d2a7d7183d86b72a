SPECIFICATION FairSearchSpec
CONSTANTS
  NCPU = 3
  NPAGES = 3
  NULL = NULL
INVARIANTS
  NoPageLost
  NoPageTwice
  FailsOnlyIfAllRanDry
PROPERTIES
  SomeCallReturns
  ImplementsPageAllocator
