CONSTANTS
  NumWorkers = 2
  Producer = {"a", "b"}
  Plans <- AllPlans
SPECIFICATION Spec
CHECK_DEADLOCK FALSE
INVARIANTS
  BoundHolds
  PauseHolds
  WaitSound
  ShutdownExact

  
