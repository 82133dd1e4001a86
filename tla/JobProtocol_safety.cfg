\* Two workers, one poll, one worker leaving or joining.
SPECIFICATION Spec
CONSTANTS
  w1 = w1
  w2 = w2
  Workers <- TwoWorkers
  MaxPolls = 1
  MaxChanges = 1
  MaxCrashes = 0
SYMMETRY Symmetry
\* The job is over, the client idle.
CHECK_DEADLOCK FALSE
INVARIANTS CompletedIsReal OnlyPostedWorkersArePolled
PROPERTY ResultsAreKept
