SPECIFICATION Spec
CONSTANTS
  a = a
  b = b
  c1 = c1
  c2 = c2
  c3 = c3
  c4 = c4
  End <- MCEnd
  Peer <- MCPeer
  Call <- MCCall
  Caller <- MCCaller
  Resolve <- MCResolve
  EmptyReply <- MCEmpty
  Damaged <- MCDamaged
  Ids = 2
  NoCall = NoCall
PROPERTIES
  ChecksumAnswered
CHECK_DEADLOCK FALSE
