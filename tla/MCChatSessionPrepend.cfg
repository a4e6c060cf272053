SPECIFICATION SessionSpec
CONSTANTS
  Message <- MCMessage
  BodyLen <- MCBodyLen
  IntBytes = 1
  Span = 4
  Base = 2
  kCheapPrepend = 2
  kInitialSize = 2
  IntWidths <- MCWidths
  MaxChunk = 2
  MaxContent = 7
INVARIANTS
  PrependFits
CHECK_DEADLOCK FALSE
