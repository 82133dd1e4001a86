\* Four messages about a job with an input request; four mmi calls of two threads;
\* two jobs of one thread, batches of one row, one restart or request that is not sent.
SPECIFICATION ClientSpec
CONSTANTS
  a = a
  nothing = nothing
  Messages <- SomeMessages
  NoRequest = nothing
  Callers = {"c1", "c2"}
  MaxCalls = 4
  MaxMessages = 4
  Submitters = {"t1"}
  BatchSize = 1
  RecoverLimit = 2
  MaxJobs = 2
  MaxOwed = 3
  MaxFaults = 1
\* All messages are in, all calls made, the shell has its result.
CHECK_DEADLOCK FALSE
INVARIANTS AskedOnce ReplyIsKept
PROPERTY WaitingEnds
