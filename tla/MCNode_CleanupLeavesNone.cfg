SPECIFICATION Spec
CONSTANTS
  Modules = {"stdtypes", "cppdemo"}
  Code <- CodeDemo
  TypeNames <- AllTypes
  BlockNames <- AllBlocks
  InstanceNames <- Instances
  MaxBlocks = 4
  MaxTypes = 4
  CloneInstances = FALSE
PROPERTY CleanupLeavesNone
