SPECIFICATION Spec
CONSTANTS
  Main = Main
  Children = {}
  IdeChildren = {}
  Timers = {}
  None = None
  Capacity = 1
  MaxQueue = 1
  MaxCommands = 1
  MaxRequests = 1
CHECK_DEADLOCK FALSE
INVARIANTS
  IdeTakesOver
