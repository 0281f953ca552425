SPECIFICATION Spec
CONSTANTS
  NumChains = 1
  AutostopSteps = 1
  TstatsModes = {0, 2}
  Faults = {}
PROPERTY StopWaitsForThread
