SPECIFICATION Spec
CONSTANTS
  W = 4
  NumChains = 2
  TriggeeLists <- MCThirds
  Modes = {0, 1, 2}
  Skips = {0, 1}
  AllocFails = FALSE
  MaxTriggers = 5
PROPERTY EveryNthTime
