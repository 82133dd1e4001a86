\* One worker that may leave, join, restart or do nothing; client and broker
\* restart.
SPECIFICATION FairSpec
CONSTANTS
  w1 = w1
  w2 = w2
  Workers <- OneWorker
  MaxPolls = 1
  MaxChanges = 2
  MaxCrashes = 2
\* The job is over, the client idle.
CHECK_DEADLOCK FALSE
PROPERTY FutureEnds
