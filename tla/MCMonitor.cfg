SPECIFICATION Spec
CONSTANTS
  Threads = {t1, t2, t3}
  Sections = {s1}
  Condvars = {c1}
  None = None
  MaxCount = 2
SYMMETRY Symmetric
INVARIANTS
  MutualExclusion
  DepthPreserved
  NoLostRelease
PROPERTY
  NotifyMissesNoWaiter
  LockSpec
CHECK_DEADLOCK FALSE
