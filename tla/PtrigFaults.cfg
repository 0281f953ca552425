SPECIFICATION FairSpec
CONSTANTS
  NumChains = 2
  AutostopSteps = 1
  TstatsModes = {1, 2}
  Faults = {"stop_timeout", "thread_dies", "alloc"}
INVARIANTS
  NoThreadWithoutPrivateData
PROPERTIES
  StopReturns
  CleanupReturns
