SPECIFICATION Spec
CONSTANTS
  Entities = {x}
  Tabs = {tabA, tabB}
  Nobody = Nobody
  MaxChanges = 2
  MaxEvents = 1
  UndoSteps = 3
CHECK_DEADLOCK FALSE
INVARIANTS NoLostEdit
