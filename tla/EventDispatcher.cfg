SPECIFICATION FairSpec
CONSTANTS
  r1 = r1
  r2 = r2
  w1 = w1
  w2 = w2
  Readers = {r1, r2}
  Children = {w1, w2}
  Windows <- ReaderWindows
  Deadlines <- ReaderDeadlines
  CatchAll = CatchAll
  Global = Global
  Nobody = Nobody
  Sources = {w1, Global}
  Capacity = 1
  MaxEvents = 2
INVARIANTS
  QueuesAreExact
  NoSleepingReader
PROPERTIES
  TimedCallReturns
