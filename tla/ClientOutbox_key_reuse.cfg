SPECIFICATION Spec
CONSTANTS
  Entities = {x}
  Tabs = {tabA}
  Nobody = Nobody
  MaxChanges = 3
  MaxEvents = 0
  UndoSteps = 3
CHECK_DEADLOCK FALSE
INVARIANTS OneCommandPerKey
