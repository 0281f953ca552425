SPECIFICATION Spec
CONSTANTS
  Modules = {"stdtypes", "random"}
  Code <- CodeRandom
  TypeNames <- AllTypes
  BlockNames <- AllBlocks
  InstanceNames <- Instances
  MaxBlocks = 4
  MaxTypes = 4
  CloneInstances = FALSE
INVARIANT EverythingMapped
