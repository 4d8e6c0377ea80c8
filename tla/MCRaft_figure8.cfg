CONSTANTS
  s1 = s1
  s2 = s2
  s3 = s3
  None = None
  Noop = Noop
  Server = {s1, s2, s3}
  Value = {}
  MaxTerm = 4
  MaxAppend = 1
  DrainEveryEvent = FALSE
  Links <- Line
  Elections <- AlternatingElections
  MaxLog = 2
  MaxHeartbeats = 0
  MaxRestarts = 2
  MaxDuplicates = 0
SPECIFICATION Spec
CHECK_DEADLOCK FALSE
VIEW LiveView
INVARIANTS
  LogMatching
  LeaderCompleteness
  CommitSafety
  NextInBounds
  MatchIsDurable
  DiskMirrorsNode
  NoFalseClaims
PROPERTIES
  ImplementsStateMachines
