SPECIFICATION FairSpec
CONSTANTS
  a = a
  b = b
  c1 = c1
  c2 = c2
  c3 = c3
  c4 = c4
  End <- MCEnd
  Peer <- MCPeer
  Call <- MCFewerCalls
  Caller <- MCCaller
  Resolve <- MCResolve
  EmptyReply <- MCEmpty
  Damaged <- MCDamaged
  Ids = 2
  NoCall = NoCall
PROPERTIES
  SilenceEnds
CHECK_DEADLOCK FALSE
