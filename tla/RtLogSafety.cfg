SPECIFICATION Spec
CONSTANTS
  Writers = {a, b}
  Joiners = {}
  Depth = 4
  FrameSize = 2
  CrushZone = 1
  OffMod = 32
  WrapMod = 3
  ShowOld = FALSE
  MaxMsgs = 11
INVARIANTS
  MessagesIntact
  ReadsInOrder
CHECK_DEADLOCK FALSE
