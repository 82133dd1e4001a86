\* sync: every task and all in a row, two failed requests or parsing, one change by others
\* allocation: two jobs that may run at once, one fault, one repeated call
\* map: pages of two rows, one failed request, one port that others delete
\* workflow: three steps, two workers
\* labs, networks: two jobs that may run at once, one fault
\* queries: two jobs, one fault
\* inventory: two workers that ask twice, one reply lost
\* gateway: a thread and a job that look for tasks, one request over HTTP, and a fault, a worker that comes or goes, an exit or three edits of tokens
SPECIFICATION TasksSpec
CONSTANTS
  None = None
  NoValue = None
  Cases <- MCCases
  Alike <- MCAlike
  MaxFaults = 2
  MaxEdits = 1
  Jobs = {1, 2}
  MaxAtOnce = 2
  MaxLost = 1
  Parents <- MCParents
  Subnets <- MCSubnets
  Peer <- MCPeer
  LinkEnds = {"a", "b", "c"}
  Requests <- MCRequests
  MaxRetries = 1
  MapCases <- MCMapCases
  Limit = 2
  PageThreads = 2
  w1 = w1
  w2 = w2
  Workflows <- ThreeSteps
  Answers <- SomeAnswers
  LabRequests <- MCLabRequests
  HostLabs <- MCHostLabs
  LabDevices = {"n1", "n2", "n3"}
  Pool <- MCPool
  Ports = {1, 2}
  MaxHosts = 3
  NetworkRequests <- MCNetworkRequests
  QueryJobs = {1, 2}
  Queries <- MCQueries
  NetBoxes <- MCNetBoxes
  ChunkSize = 3
  MaxWaits = 2
  Networks = {"n1", "n2"}
  Setups <- MCSetups
  MaxLoads = 2
  ServiceOf <- MCServiceOf
  TasksOf <- MCTasksOf
  TaskGuards <- MCTaskGuards
  McpInventory <- MCMcpInventory
  Tokens = {"k1", "k2"}
  Users = {"u1", "u2"}
  Secured = {"api", "mcp"}
  Arguments = {"x", "y"}
  Scenes <- MCScenes
INVARIANTS
  Converges
  AnswersAreTrue
  OneHolder
  AddressesFitLinks
  
  ConditionsAreMet
  LabsKeepTheirPlace
  OneProcess
  ToolsAreWhole
PROPERTIES
  OnlyPlanned
  ReportIsFaithful
