SPECIFICATION Spec
CONSTANTS
  Bodies <- SmallBodies
  Args <- Numbers
INVARIANT PromotionPreservesValue
