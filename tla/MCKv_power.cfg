CONSTANTS
  k1 = k1
  k2 = k2
  v1 = v1
  v2 = v2
  Key = {k1, k2}
  Value = {v1}
  Policy = "interval"
  MaxFileRecords = 2
  Expiries = {1}
  MaxClock = 1
  MaxWrites = 3
  MaxCompacts = 1
  MaxMerges = 0
  MaxIterators = 0
  MaxCloses = 1
  MaxErrors = 0
  MaxKills = 0
  MaxPowerLosses = 1
SPECIFICATION Spec
SYMMETRY Symmetry
CHECK_DEADLOCK FALSE
INVARIANTS
  TypeOK
  PowerSafe
  ServedIsDurable
