SPECIFICATION ReadSpec
CONSTANTS
  SizeofInt32 = 2
  ReadSize = 6
  Payloads <- MCPayloads
  MaxFrames = 3
INVARIANTS
  InOrder
  Prompt
CHECK_DEADLOCK FALSE
