SPECIFICATION Spec
CONSTANTS
  Bodies <- SmallBodies
  Args <- Reals
INVARIANT PromotionPreservesValue
