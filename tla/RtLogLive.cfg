SPECIFICATION FairSpec
CONSTANTS
  Writers = {a, b}
  Joiners = {b}
  Depth = 3
  FrameSize = 2
  CrushZone = 1
  OffMod = 16
  WrapMod = 3
  ShowOld = TRUE
  MaxMsgs = 4
PROPERTIES
  LogReturns
  CatchesUp
CHECK_DEADLOCK FALSE
