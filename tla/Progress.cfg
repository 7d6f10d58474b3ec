SPECIFICATION ProgressSpec
CONSTANTS
  a1 = a1
  b1 = b1
  k1 = k1
  u1 = u1
  Workers = {a1}
  MaxRows = 2
  InitialRows = 1
  BatchSize = 1
  MaxAttempts = 2
  Lease = 2
  BaseDelay = 1
  MaxDelay = 2
  Slowest = 0
  Tracks = TRUE
  Repeats = TRUE
  Interval = 1
  RepeatAfterGiveUp = TRUE
  ReplaceAfter = 0
  Schedules = FALSE
  Crashes = TRUE
  Prompt <- AllPrompt
  Horizon = 4
CHECK_DEADLOCK FALSE
PROPERTIES
  OutboxGoesOn TriesAgain NobodyWaits
