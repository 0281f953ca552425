SPECIFICATION Spec
CONSTANTS
  Writers = {a, b}
  Joiners = {b}
  Depth = 4
  FrameSize = 2
  CrushZone = 1
  OffMod = 32
  WrapMod = 3
  ShowOld = FALSE
  MaxMsgs = 7
INVARIANT OneWriter
CHECK_DEADLOCK FALSE
