SPECIFICATION FairSpec
CONSTANTS
  N = 4
  M = 3
PROPERTY FilterMayAnswer
CHECK_DEADLOCK FALSE
