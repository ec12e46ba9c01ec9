SPECIFICATION FairSpec
CONSTANTS
  N = 4
  M = 3
INVARIANTS
  TypeOK
  OneRunAtATime
  AnsweredOnce
  SavedFirst
  MissedOnlyInPromises
PROPERTIES
  RequestIsAnswered
  AnswerIsWritten
CHECK_DEADLOCK FALSE
