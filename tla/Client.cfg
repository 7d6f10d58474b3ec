SPECIFICATION ClientSpec
CONSTANTS
  a1 = a1
  a2 = a2
  k1 = k1
  k2 = k2
  r1 = r1
  r2 = r2
  b1 = b1
  u1 = u1
  u2 = u2
  Off = Off
  Runs = {r1, r2}
  ListenerCalls = {"stop", "start"}
  Polls = TRUE
  MaxFailures = 2
  MaxTimers = 3
  Calls = {a1}
  CommandCalls = {a1}
  SessionUsers = {u1, u2}
  PageUser = u1
  Attempts = 2
  Rows = {a1, a2}
  Tabs = {k1, k2}
  Limit = 1
  MaxSeq = 2
  Restores = FALSE
  Connections = {k1, k2}
  Users = {u1}
  Requests = {a1, a2}
  IdOf <- RequestId
  MaxPerUser = 1
  MaxInFlight = 1
  Heartbeat = 1
  Liveness = 2
  RequestTimeout = 1
  Objects = {b1, u2}
  Completed = {u2}
  Untagged = {b1}
  Loads = {a1}
  MaxChanges = 2
  MaxRefreshes = 1
  TransportCalls = {a1}
  Impatient = FALSE
  MaxCommits = 1
  MaxTasks = 1
  Pages = {k1, k2}
  Parents = {a1}
  Children = {b1}
  MaxWrites = 2
  MaxTrouble = 1
CHECK_DEADLOCK FALSE
INVARIANTS
  ClientTypeOK RunnerSafe StopLeavesNothing
  TransportSafe CollectionsSafe RegistrySafe CallsSafe CopyIsComplete InStep CopiesSafe
PROPERTIES ClientSteps
