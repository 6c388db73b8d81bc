SPECIFICATION FairSpec
CONSTANTS
  Main = Main
  Children = {c}
  IdeChildren = {}
  Timers = {t1, t2}
  None = None
  Capacity = 1
  MaxQueue = 1
  MaxCommands = 1
  MaxRequests = 2
CHECK_DEADLOCK FALSE
INVARIANTS
  NoLostRepaint
  NoForgottenWork
  RunningTimersAreKnown
PROPERTIES
  RequestsServed
  QuitCompletes
