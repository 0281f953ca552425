SPECIFICATION NodeFairSpec
CONSTANTS
  NumChains = 1
  AutostopSteps = 2
  TstatsModes = {0}
  Faults = {}
  Order <- MCOrder
  Triggees <- MCTriggees
INVARIANTS
  StepOnlyReadyBlocks
  Phased
PROPERTIES
  ClearTerminates
CHECK_DEADLOCK FALSE
