SPECIFICATION Spec
CONSTANTS
  W = 4
  NumChains = 2
  TriggeeLists <- MCLists
  Modes = {0, 1, 2}
  Skips = {0, 1}
  AllocFails = TRUE
  MaxTriggers = 5
INVARIANTS
  StepsDelivered
  StatsCountTriggers
  BufferWhileActive
