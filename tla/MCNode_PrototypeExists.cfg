SPECIFICATION Spec
CONSTANTS
  Modules = {"stdtypes", "lfds"}
  Code <- CodeLfds
  TypeNames <- AllTypes
  BlockNames <- AllBlocks
  InstanceNames <- Instances
  MaxBlocks = 4
  MaxTypes = 4
  CloneInstances = TRUE
INVARIANT PrototypeExists
