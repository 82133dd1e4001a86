\* Two jobs, one pool thread: repeated POSTs, crash and graceful exit.
SPECIFICATION Spec
CONSTANTS
  j1 = j1
  j2 = j2
  Jobs <- TwoJobs
  Interactive = {}
  NoJob = NoJob
  PoolSize = 1
  MaxAsks = 0
  MaxMessages = 4
  MaxCrashes = 1
  MaxExits = 1
SYMMETRY Symmetry
INVARIANTS AtMostOnce ExitAbandonsNoJob StatusRepliesNeverGoBack SentIsStored
PROPERTY StartsInOrder
