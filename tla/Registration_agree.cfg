SPECIFICATION FairSpec
CONSTANTS
  w1 = w1
  w2 = w2
  nornir = nornir
  Workers <- OneWorker
  Services = {nornir}
  ServiceOf <- AllOne
  Multiplier = 2
  MaxFaults = 3
  MaxPosts = 1
  MaxQuiet = 6
INVARIANTS TableIsConsistent AgreesAgain
PROPERTIES StaysRegistered OnlyLiveWorkersAreSent
