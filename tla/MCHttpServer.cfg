SPECIFICATION FairSpec
CONSTANTS
  c1 = c1
  Client <- MCClient
  Asks <- MCAsks
  Most <- MCMost
  threads = 2
INVARIANTS
  InStep
  
PROPERTIES
  Served
CHECK_DEADLOCK FALSE
