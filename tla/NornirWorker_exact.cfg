\* Two jobs at once, nothing fails: does each host get the commands of its job?
SPECIFICATION Spec
CONSTANTS
  a = a
  b = b
  c = c
  Hosts = {a, b, c}
  Jobs = {"j1", "j2"}
  Plans <- TwoJobs
  File = {b}
  Netbox = {a}
  Lab = {c}
  Timeouts = {"none", "zero", "some"}
  Nobody = Nobody
  MaxFaults = 0
INVARIANT EveryJobIsExact
