SPECIFICATION TransportSpec
CONSTANTS
  TransportCalls = {}
  Impatient = TRUE
  MaxCommits = 1
  MaxTasks = 2
CHECK_DEADLOCK FALSE
INVARIANTS StopIsFinal
