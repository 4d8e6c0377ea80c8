CONSTANTS
  s1 = s1
  s2 = s2
  s3 = s3
  v1 = v1
  c1 = c1
  None = None
  Noop = Noop
  Server = {s1, s2, s3}
  Value = {v1}
  Client = {c1}
  MaxTerm = 2
  Contact = {s1}
  MaxAppend = 2
  DrainEveryEvent = TRUE
  Links <- Line
  Elections <- ComeBack
  MaxLog = 2
  MaxHeartbeats = 0
  MaxRestarts = 1
  MaxDuplicates = 1
SPECIFICATION KvSpec
CHECK_DEADLOCK FALSE
VIEW LiveView
INVARIANTS
  AckedSafe
  TypeOK
  ElectionSafety
PROPERTIES
  DurableVoteFinal
