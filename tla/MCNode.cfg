SPECIFICATION Spec
CONSTANTS
  Modules = {"stdtypes", "lfds", "random", "cppdemo"}
  Code <- CodeAll
  TypeNames <- AllTypes
  BlockNames <- AllBlocks
  InstanceNames <- Instances
  MaxBlocks = 4
  MaxTypes = 4
  CloneInstances = FALSE
INVARIANTS
  ReferencesMapped
  NothingLeaks
PROPERTY CleanupEmpties
