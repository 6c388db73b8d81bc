SPECIFICATION FairSpec
CONSTANTS
  m1 = m1
  m2 = m2
  m3 = m3
  Mutators = {m1, m2, m3}
  Uses <- Programs
  None = None
  MaxMail = 1
  MaxDepth = 1
INVARIANTS
  CollectsAlone
  WindowsCoverFrames
PROPERTY CollectionHappens
CHECK_DEADLOCK FALSE
