CONSTANTS
  k1 = k1
  k2 = k2
  v1 = v1
  v2 = v2
  Key = {k1, k2}
  Value = {v1}
  Policy = "always"
  MaxFileRecords = 1
  Expiries = {}
  MaxClock = 0
  MaxWrites = 3
  MaxCompacts = 1
  MaxMerges = 1
  MaxIterators = 1
  MaxCloses = 0
  MaxErrors = 1
  MaxKills = 0
  MaxPowerLosses = 0
SPECIFICATION Spec
SYMMETRY Symmetry
CHECK_DEADLOCK FALSE
INVARIANTS
  UndoSafe
  IteratorStable
