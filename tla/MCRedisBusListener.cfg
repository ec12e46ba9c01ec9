SPECIFICATION RedisSpec
CONSTANTS
  Topic = {t1, t2}
  Id = {i1, i2, i3}
  MaxNotify = 2
  MaxFail = 1
  MayClear = FALSE
SYMMETRY Symmetry
INVARIANT SubscribersHaveListener
CHECK_DEADLOCK FALSE
