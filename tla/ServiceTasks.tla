---------------------------- MODULE ServiceTasks ----------------------------
(***************************************************************************)
(* The tasks of the service workers that share nothing with each other,    *)
(* side by side: a job that synchronises NetBox (SyncAll), jobs that       *)
(* allocate addresses there (NetboxAllocation), a map of NetBox            *)
(* (NetboxMaps), a workflow (Workflow), containerlab's labs                *)
(* (ContainerLab), simulated networks (FakeNos), the services that FastAPI *)
(* and FastMCP offer (Gateway), the way tasks get to NetBox and read from  *)
(* it (NetboxQueries), and the inventory that workers load at their start  *)
(* (WorkersInventory).  The first state says which part runs.              *)
(***************************************************************************)
EXTENDS SyncAll, ServiceParts

CONSTANTS
  MapCases, Limit, PageThreads,
  LabRequests, HostLabs, LabDevices, Pool, Ports, MaxHosts,
  QueryJobs, Queries, NetBoxes, ChunkSize, MaxWaits,
  Setups, MaxLoads

VARIABLES
  case, ports, map_step, offset, pages, rows, map, map_errors, map_edits,
  labs, files, lab_request, lab_step, inspected, topology, lab_overlapped,
  nbx, worker, query_jobs, query_edits,
  setup, inline, phase, loaded, loads

maps == <<case, ports, map_step, offset, pages, rows, map, map_errors, map_edits>>
lab == <<labs, files, lab_request, lab_step, inspected, topology, lab_overlapped>>
queries == <<nbx, worker, query_jobs, query_edits>>
inventory == <<setup, inline, phase, loaded, loads>>

Maps == INSTANCE NetboxMaps
  WITH step <- map_step, result <- map, errors <- map_errors, edits <- map_edits, faults <- lost, MaxFaults <- MaxLost
Labs == INSTANCE ContainerLab
  WITH LabJobs <- Jobs, request <- lab_request, step <- lab_step, seen <- inspected,
       overlapped <- lab_overlapped, faults <- lost, MaxFaults <- MaxLost
Querying == INSTANCE NetboxQueries WITH job <- query_jobs, edits <- query_edits, faults <- lost, MaxFaults <- MaxLost
Inventories == INSTANCE WorkersInventory WITH faults <- lost, MaxFaults <- MaxLost

(* A part that does not run has no state.                                   *)
NoSync ==
  /\ netbox = None /\ live = None /\ options = None /\ task = None /\ step = None /\ seen = None
  /\ plan = None /\ todo = None /\ report = {} /\ errors = None /\ outcome = None /\ written = {}
  /\ planned = {} /\ faults = None /\ edits = None
NoAllocation ==
  /\ children = None /\ allocated = None /\ parents = None /\ request = None /\ stage = None /\ left = None
  /\ timed_out = None /\ call = None /\ overlapped = None /\ retries = None
NoMap ==
  /\ case = None /\ ports = None /\ map_step = None /\ offset = None /\ pages = None /\ rows = None
  /\ map = None /\ map_errors = None /\ map_edits = None
NoFlow ==
  /\ workflow = None /\ remove_no_match = None /\ position = None /\ results = None /\ status = None
NoLab ==
  /\ labs = None /\ files = None /\ lab_request = None /\ lab_step = None /\ inspected = None
  /\ topology = None /\ lab_overlapped = None
NoNetwork ==
  /\ networks = None /\ spawned = None /\ living = None /\ network_request = None /\ network_plan = None
  /\ names = None /\ entry = None /\ network_outcome = None /\ exited = None /\ careless = None
NoGateway ==
  /\ kind = None /\ workers = None /\ exit_event = None /\ published = None /\ prompts = None /\ finder = None
  /\ http = None /\ tokens = None /\ granted = None /\ may = None
NoQuery == nbx = None /\ worker = None /\ query_jobs = None /\ query_edits = None
NoInventory == setup = None /\ inline = None /\ phase = None /\ loaded = None /\ loads = None
TasksInit ==
  /\ part \in {"sync", "allocation", "map", "workflow", "labs", "networks", "gateway", "queries", "inventory"}
  /\ IF part = "sync" THEN Init ELSE NoSync
  /\ IF part = "allocation" THEN Allocation!Init ELSE NoAllocation
  /\ IF part = "map" THEN Maps!Init ELSE NoMap
  /\ IF part = "workflow" THEN Flow!Init ELSE NoFlow
  /\ IF part = "labs" THEN Labs!Init ELSE NoLab
  /\ IF part = "networks" THEN FakeNetworks!Init ELSE NoNetwork
  /\ IF part = "gateway" THEN Gateways!Init ELSE NoGateway
  /\ IF part = "queries" THEN Querying!Init ELSE NoQuery
  /\ IF part = "inventory" THEN Inventories!Init ELSE NoInventory
  /\ lost = 0
TasksNext ==
  /\ UNCHANGED part
  /\ \/ part = "sync" /\ Next
        /\ UNCHANGED <<lost, allocation, maps, flow, lab, fakenos, gateway, queries, inventory>>
     \/ part = "allocation" /\ Allocation!Next
        /\ UNCHANGED <<vars, maps, flow, lab, fakenos, gateway, queries, inventory>>
     \/ part = "map" /\ Maps!Next
        /\ UNCHANGED <<vars, allocation, flow, lab, fakenos, gateway, queries, inventory>>
     \/ part = "workflow" /\ Flow!Next
        /\ UNCHANGED <<vars, lost, allocation, maps, lab, fakenos, gateway, queries, inventory>>
     \/ part = "labs" /\ Labs!Next
        /\ UNCHANGED <<vars, allocation, maps, flow, fakenos, gateway, queries, inventory>>
     \/ part = "networks" /\ FakeNetworks!Next
        /\ UNCHANGED <<vars, allocation, maps, flow, lab, gateway, queries, inventory>>
     \/ part = "gateway" /\ Gateways!Next
        /\ UNCHANGED <<vars, lost, allocation, maps, flow, lab, fakenos, queries, inventory>>
     \/ part = "queries" /\ Querying!Next
        /\ UNCHANGED <<vars, allocation, maps, flow, lab, fakenos, gateway, inventory>>
     \/ part = "inventory" /\ Inventories!Next
        /\ UNCHANGED <<vars, allocation, maps, flow, lab, fakenos, gateway, queries>>
TasksSpec ==
  TasksInit /\ [][TasksNext]_<<part, vars, lost, allocation, maps, flow, lab, fakenos, gateway, queries, inventory>>

(* What a task returns is true: the reports of the jobs that write NetBox  *)
(* and the reads with a cache (SyncAll), and the queries; a task that      *)
(* names a branch writes to that branch, and gets one; a worker gets its   *)
(* inventory; FastMCP delivers no result that its inventory blocks.        *)
AnswersAreTrue ==
  /\ part = "sync" => ReportIsTrue
  /\ part = "queries" => Querying!ReadsAreWhole /\ Querying!BranchesAreKept /\ Querying!BranchesAreMade
  /\ part = "inventory" => Inventories!WorkersGetTheirData
  /\ part = "gateway" => Gateways!NothingBlockedIsDelivered
(* create_ip: while jobs run one at a time, an interface never has two     *)
(* addresses, whatever call fails or is repeated; with subnets both ends   *)
(* of a link are in one subnet, and a subnet is of one link.               *)
AddressesFitLinks == part = "allocation" => Allocation!AddressesFitLinks
(* A workflow runs a step exactly when its condition holds of what the     *)
(* workers of the named steps returned, as the checks of the service count *)
(* it, and as documented but where a named step was skipped or matched no  *)
(* worker.                                                                 *)
ConditionsAreMet == part = "workflow" => Flow!ConditionsAreMet
(* A workflow reports every step it handled and every failure; only a step *)
(* without any answer costs the report.                                    *)
ReportIsFaithful == Flow!ReportIsFaithful
(* deploy_netbox takes no subnet of another lab and lets a lab that runs   *)
(* keep its subnet and its ports.                                          *)
LabsKeepTheirPlace == part = "labs" => Labs!LabsKeepTheirPlace
(* A simulated network has at most one process, the one in the table.      *)
OneProcess == part = "networks" => FakeNetworks!OneProcess
(* A service that a finder has done with can be called with all the tasks  *)
(* it shows and none that it hides, by FastAPI and FastMCP, and a token    *)
(* opens them exactly while it is given to someone.                        *)
ToolsAreWhole ==
  part = "gateway" =>
    Gateways!OnlyOffered /\ Gateways!FoundIsPublished /\ Gateways!TokensAsGranted
=============================================================================
