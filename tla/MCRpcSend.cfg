SPECIFICATION FairSpec
CONSTANTS
  m1 = m1
  m2 = m2
  m3 = m3
  Message <- MCMessage
  BodyLen <- MCBodyLen
  IntBytes = 1
  kCheapPrepend = 1
  NoMessage = NoMessage
INVARIANTS
  TypeOK
  Exclusive
  PoolAccounted
  AssertsHold
  RegionStable
  FramesIntact
  Contiguous
PROPERTIES
  Settles
CHECK_DEADLOCK FALSE
