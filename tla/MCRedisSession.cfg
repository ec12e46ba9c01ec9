SPECIFICATION Spec
CONSTANTS
  Req = {r1, r2, r3}
  Sid = {s1, s2}
INVARIANTS
  TypeOK
  LimitedOrPending
PROPERTY StoreSpec
CHECK_DEADLOCK FALSE
