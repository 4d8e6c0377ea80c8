CONSTANTS
  Thread = {"a", "b", "c"}
  BlockSlots = 3
  MaxBlocks = 5
  MaxPush = 2
  Workloads <- AllWorkloads
SPECIFICATION Spec
CHECK_DEADLOCK FALSE
INVARIANTS
  OneOwner
PROPERTIES
  Linearizable
  CallsReturn
