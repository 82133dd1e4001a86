SPECIFICATION FairSpec
CONSTANTS
  Chunks = 5
  Pipeline = 2
  MaxFaults = 2
INVARIANTS WindowIsKept ReceiverLives GoodIsWhole
PROPERTY FetchEnds
CHECK_DEADLOCK FALSE
