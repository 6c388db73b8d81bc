SPECIFICATION Spec
CONSTANTS
  Mutators = {m1, m2}
  c1 = c1
  c2 = c2
  c3 = c3
  k1 = k1
  k2 = k2
  Cells = {c1, c2, c3}
  Cards = {k1, k2}
  CardOf <- TwoCards
  Objects = {o1}
  Imm = Imm
  Unborn = Unborn
  Dead = Dead
  MaxMoves = 1
  Rebound = {c1}
SYMMETRY Symmetric
INVARIANTS
  NoStaleCell
  PointersInDirtyCards
