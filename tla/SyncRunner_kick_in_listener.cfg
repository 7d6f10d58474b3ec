SPECIFICATION Spec
CONSTANTS
  Runs = {r1, r2}
  ListenerCalls = {"kick"}
  Polls = TRUE
  MaxFailures = 2
  MaxTimers = 3
INVARIANTS StopLeavesNothing
