SPECIFICATION FairSpec
CONSTANTS
  LIMIT = 36
  PIPESIZE = 1
  NOFILE = 16
INVARIANTS
  PrintsPrimes
  DescriptorsSuffice
PROPERTY
  EndsWithAll
CHECK_DEADLOCK FALSE
