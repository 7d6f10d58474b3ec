SPECIFICATION DatabaseSpec
CONSTANTS
  Workers = {w1, w2}
  MaxRows = 3
  InitialRows = 1
  BatchSize = 1
  MaxAttempts = 2
  Lease = 1
  BaseDelay = 1
  MaxDelay = 2
  Slowest = 0
  Tracks = TRUE
  Repeats = TRUE
  Interval = 1
  RepeatAfterGiveUp = TRUE
  ReplaceAfter = 2
  Schedules = FALSE
  Crashes = TRUE
  Prompt = {}
  Horizon = 2
  Callers = {c1, c2, c3}
  NoOne = NoOne
  Locks = {l1, l2}
  Calls = {c1, c2, c3}
  MaxCalls = 5
  Runners = {w1, w2}
  Names = {1, 2, 3}
  Bodies = {1, 2}
  Bare = {2}
  Attempts = 1
  MaxRuns = 3
  MaxTrouble = 1
  MaxDeploys = 2
CHECK_DEADLOCK FALSE
INVARIANTS
  TypeOK TriesBounded ToldOnce OneRunWaits BatchSafe
  SqliteSafe MigrationsSafe FileLockSafe
VIEW DatabaseView
