SPECIFICATION Spec
CONSTANTS
  Main = 1
  Children = {2, 3}
  None = 0
INVARIANTS
  TerminatedNotParked
