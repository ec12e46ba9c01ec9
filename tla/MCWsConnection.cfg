SPECIFICATION FairSpec
CONSTANTS
  MaxSend = 3
  MaxFrames = 3
INVARIANTS
  TypeOK
  OneOperation
  InSync
  NeverStalls
  NothingSkipped
  DeliveredIntact
  CloseOnce
PROPERTIES
  BrokenEndsFrames
  SentLeaves
  OutboxSpec
CHECK_DEADLOCK FALSE
