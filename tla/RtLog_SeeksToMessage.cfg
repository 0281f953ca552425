SPECIFICATION Spec
CONSTANTS
  Writers = {a}
  Joiners = {}
  Depth = 4
  FrameSize = 2
  CrushZone = 1
  OffMod = 32
  WrapMod = 3
  ShowOld = TRUE
  MaxMsgs = 7
PROPERTY SeeksToMessage
CHECK_DEADLOCK FALSE
