SPECIFICATION FairSpec
CONSTANTS
  NumChains = 2
  AutostopSteps = 2
  TstatsModes = {0, 2}
  Faults = {}
INVARIANTS
  QuietAfterStop
  StatsFlushedAtStop
PROPERTIES
  AutostopFires
  ImplementsService
