SPECIFICATION Spec
SYMMETRY TabSymmetry
CONSTANTS
  Entities = {x}
  Tabs = {tabA, tabB}
  Nobody = Nobody
  MaxChanges = 2
  MaxEvents = 1
  UndoSteps = 1
CHECK_DEADLOCK FALSE
INVARIANTS OneEntryPerEntity NoSilentLoss EntryHeldWhileSending
