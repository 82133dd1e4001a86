\* One worker, one poll, nothing lost, workers that do their part: is every future released?
SPECIFICATION BusySpec
CONSTANTS
  w1 = w1
  w2 = w2
  Workers <- OneWorker
  MaxPolls = 1
  MaxChanges = 0
  MaxCrashes = 0
CHECK_DEADLOCK FALSE
PROPERTY EveryFutureEnds
