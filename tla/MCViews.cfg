SPECIFICATION ViewSpec
CONSTANT MaxIncludes = 5
INVARIANTS
  ViewTypeOK
  ReleasedLast
  OneTrueAnswer
PROPERTY IsAnswered
CHECK_DEADLOCK FALSE
