CONSTANTS
  p1 = p1
  p2 = p2
  Partition = {p1, p2}
  Priority = {1, 2}
  Key = {}
  NoKey = NoKey
  AnyPartition = AnyPartition
  AttemptLimits = {1}
  MaxTime = 1
  Delays = {0, 1}
  Timeouts = {0}
  EpochModulus = 16
  MaxId = 3
  MaxOpens = 0
  MaxRequeues = 0
  MaxExtends = 0
  MaxSetbacks = 1
SPECIFICATION Spec
CHECK_DEADLOCK FALSE
SYMMETRY Partitions
INVARIANTS
  TypeOK
  IndexConsistent
PROPERTIES
  DispatchOrder
