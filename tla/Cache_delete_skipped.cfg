SPECIFICATION CacheSpec
CONSTANTS
  Wraps = {w1, w2}
  Writers = {d1}
  MaxVersion = 4
  MaxRestarts = 0
CHECK_DEADLOCK FALSE
INVARIANTS NoStaleEver
