SPECIFICATION ISpec
CONSTANTS
  Threads = {w1, w2, st1, st2}
  Sections = {cs}
  Condvars = {cd}
  None = None
  MaxCount = 1
  Waiters = {w1, w2}
  Setters = {st1, st2}
  Section = cs
  Condition = cd
PROPERTIES
  EveryClientFinishes
  FreeSectionIsTaken
CHECK_DEADLOCK FALSE
