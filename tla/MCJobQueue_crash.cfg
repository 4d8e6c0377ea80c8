CONSTANTS
  p1 = p1
  p2 = p2
  Partition = {p1}
  Priority = {1}
  Key = {"k"}
  NoKey = NoKey
  AnyPartition = AnyPartition
  AttemptLimits = {2}
  MaxTime = 1
  Delays = {0, 1}
  Timeouts = {0, 1}
  EpochModulus = 10
  MaxId = 2
  MaxOpens = 1
  MaxRequeues = 1
  MaxExtends = 1
  MaxSetbacks = 0
SPECIFICATION FairSpec
CHECK_DEADLOCK FALSE
INVARIANTS
  LeaseExclusive
  AlwaysRecoverable
  StoreMirrorsIndex
  AtLeastOnce
PROPERTIES
  Drains
