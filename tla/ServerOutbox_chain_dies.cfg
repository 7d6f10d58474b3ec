SPECIFICATION Spec
SYMMETRY WorkerSymmetry
CONSTANTS
  Workers = {w1, w2}
  MaxRows = 2
  InitialRows = 1
  BatchSize = 1
  MaxAttempts = 1
  Lease = 3
  BaseDelay = 1
  MaxDelay = 2
  Slowest = 1
  Tracks = TRUE
  Repeats = TRUE
  Interval = 1
  RepeatAfterGiveUp = TRUE
  ReplaceAfter = 0
  Schedules = TRUE
  Crashes = TRUE
  Prompt <- AllPrompt
  Horizon = 6
INVARIANTS ChainLives
