SPECIFICATION Spec
CONSTANTS
  s1 = s1
  w1 = w1
  w2 = w2
  Sources = {s1}
  Compiled = {s1}
  Sweepers = {w1, w2}
  MaxHolds = 1
  MaxFaults = 1
CHECK_DEADLOCK FALSE
SYMMETRY SweeperSymmetry
INVARIANTS
  PurgedIsGone
  
PROPERTIES
  HeldObjectsStay
  RemovalsAreLawful
