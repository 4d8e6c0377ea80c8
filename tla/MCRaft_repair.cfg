CONSTANTS
  s1 = s1
  s2 = s2
  s3 = s3
  None = None
  Noop = Noop
  Server = {s1, s2, s3}
  Value = {}
  MaxTerm = 3
  MaxAppend = 1
  DrainEveryEvent = TRUE
  Links <- Line
  Elections <- AlternatingElections
  MaxLog = 2
  MaxHeartbeats = 1
  MaxRestarts = 0
  MaxDuplicates = 1
SPECIFICATION FairSpec
CHECK_DEADLOCK FALSE
PROPERTIES
  LeaderRepairsPeers
