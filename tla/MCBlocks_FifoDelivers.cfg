SPECIFICATION Spec
CONSTANTS
  NsecPerSec = 3
  Unset = Unset
  BadLen = BadLen
  NoData = NoData
  Failed = Failed
  NaN = NaN
  Values <- MCValues
  Width = 3
  RandMax = 4
  Func <- MCFunc
  MaxErrors = 3
  StackSlots = 3
  Sizes = {0, 2, 3}
  Messages = {1, 2, 17}
  Settings <- MCSettings
  Garbage <- MCGarbage
  Scale = 4
  MaxTime = 5
  Threads = {t1, t2}
  t1 = t1
  t2 = t2
  PortLengths = {0, 2}
  MaxLoads = 2
PROPERTIES
  FifoDelivers
CHECK_DEADLOCK FALSE
