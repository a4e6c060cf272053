SPECIFICATION FairSpec
CONSTANTS
  c1 = c1
  c2 = c2
  c3 = c3
  Call <- MCCall
  NoCall = NoCall
INVARIANTS
  OwnEntry
PROPERTIES
  RpcSpec
  Answered
CHECK_DEADLOCK FALSE
