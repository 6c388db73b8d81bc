SPECIFICATION FairSpec
CONSTANTS
  Main = 1
  Children = {2, 3}
  None = 0
INVARIANTS
  ResumeNotLost
  NoForgottenJoiner
  JoinableOnce
PROPERTIES
  JoinOfFinishedReturns
  TerminateWorks
