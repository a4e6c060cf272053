SPECIFICATION Spec
CONSTANTS
  Base = 2
  kCheapPrepend = 2
  kInitialSize = 1
  IntWidths <- MCWidths
  MaxChunk = 2
  MaxContent = 3
INVARIANTS
  TypeOK
  IndexOrder
  MakeSpaceSafe
  Bounded
  IntRoundTrip
PROPERTIES
  QueueSpec
