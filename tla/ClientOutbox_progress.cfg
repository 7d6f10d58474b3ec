SPECIFICATION FairSpec
CONSTANTS
  Entities = {x, y}
  Tabs = {tabA}
  Nobody = Nobody
  MaxChanges = 2
  MaxEvents = 0
  UndoSteps = 1
CHECK_DEADLOCK FALSE
PROPERTIES SubmitReturns QueueDrains
