\* Two jobs on one pool thread, the first of which asks for input twice; the
\* worker is killed once and told to exit once.
SPECIFICATION FairSpec
CONSTANTS
  j1 = j1
  j2 = j2
  Jobs <- TwoJobs
  Interactive <- JustJ1
  NoJob = NoJob
  PoolSize = 1
  MaxAsks = 2
  MaxMessages = 2
  MaxCrashes = 1
  MaxExits = 1
INVARIANT AnswerFitsRequest
PROPERTIES WaitingIsAnswerable EveryJobFinishes ImplementsJobService
