SPECIFICATION AreaFairSpec
CONSTANTS
  Threads = {t1, t2, t3}
  Reserved = 5
  Initial = 1
  Chunk = 2
  Sizes = {1, 3}
INVARIANTS
  Disjoint
  GrantsUsable
  NothingLeaked
PROPERTY EveryCallReturns
