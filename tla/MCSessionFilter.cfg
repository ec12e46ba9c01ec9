SPECIFICATION Spec
CONSTANTS
  Sid = {s1, s2}
  Req = {r1, r2, r3}
  Timeout = 1
  Period = 2
  MaxTime = 4
SYMMETRY Symmetry
INVARIANTS
  NoneOutlivesSweep
  QuietLogoutIsFinal
PROPERTY StoreSpec
CHECK_DEADLOCK FALSE
