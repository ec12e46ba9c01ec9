SPECIFICATION Spec
CONSTANTS
  Sizes <- BoundarySizes
  Keys = {k1, k2}
  WordSize = 131072
  MaxFrames = 3
SYMMETRY KeySymmetry
INVARIANTS
  TypeOK
  Understood
  StaysInStep
CHECK_DEADLOCK FALSE
