SPECIFICATION ExitSpec
CONSTANTS
  Names = {Nil, a}
  Nil = Nil
  Tags = {tag1, tag2}
  NoTarget = NoTarget
  Values = {v0, v1}
  NilValue = v0
  None = None
  MaxFrames = 4
PROPERTY PendingConditionStands
