\* two jobs of all kinds, three hosts, one thing that fails
SPECIFICATION FairSpec
CONSTANTS
  a = a
  b = b
  c = c
  Hosts = {a, b, c}
  Jobs = {"j1", "j2"}
  Plans <- TwoJobs
  File = {b}
  Netbox = {a}
  Lab = {c}
  Timeouts = {"none", "zero", "some"}
  Nobody = Nobody
  MaxFaults = 1
INVARIANT JobsAreExact
PROPERTIES NoCloseInUse ComesToRest
