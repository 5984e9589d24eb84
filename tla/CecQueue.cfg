CONSTANT MaxMessages = 5
SPECIFICATION FairSpec
INVARIANTS TypeOK ThreadsUsedRight ListIntact
PROPERTIES EveryMessageProcessed ImplementsQueue
CHECK_DEADLOCK FALSE
