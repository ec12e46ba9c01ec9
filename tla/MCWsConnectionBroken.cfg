SPECIFICATION FairSpec
CONSTANTS
  MaxSend = 1
  MaxFrames = 2
PROPERTY BrokenIsDisposed
CHECK_DEADLOCK FALSE
