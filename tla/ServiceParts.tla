---------------------------- MODULE ServiceParts ----------------------------
(***************************************************************************)
(* Four of the parts of ServiceTasks: jobs that allocate addresses in      *)
(* NetBox (NetboxAllocation), a workflow (Workflow), simulated networks    *)
(* (FakeNos), and the services that FastAPI and FastMCP offer (Gateway).   *)
(***************************************************************************)
CONSTANTS
  NoValue,      \* the None of these parts
  Jobs, MaxAtOnce,
  MaxLost,     \* bound: calls that fail, in all parts but the first
  Requests, Parents, Subnets, Peer, LinkEnds, MaxRetries,
  Workflows, Answers,
  NetworkRequests, Networks,
  ServiceOf, TasksOf, TaskGuards, McpInventory, Secured, Tokens, Users, Arguments, Scenes

VARIABLES
  part,        \* which part runs, it never changes
  lost,
  children, allocated, parents, request, stage, left, timed_out, call, overlapped, retries,
  workflow, remove_no_match, position, results, status,
  networks, spawned, living, network_request, network_plan, names, entry, network_outcome, exited, careless,
  kind, workers, exit_event, published, prompts, finder, http, tokens, granted, may

allocation == <<children, allocated, parents, request, stage, left, timed_out, call, overlapped, retries>>
flow == <<workflow, remove_no_match, position, results, status>>
fakenos == <<networks, spawned, living, network_request, network_plan, names, entry, network_outcome, exited, careless>>
gateway == <<kind, workers, exit_event, published, prompts, finder, http, tokens, granted, may>>

Allocation == INSTANCE NetboxAllocation
  WITH None <- NoValue, ips <- allocated, Interfaces <- LinkEnds, step <- stage, faults <- lost, MaxFaults <- MaxLost
Flow == INSTANCE Workflow WITH step <- position
FakeNetworks == INSTANCE FakeNos
  WITH None <- NoValue, NetworkJobs <- Jobs, request <- network_request, plan <- network_plan, outcome <- network_outcome,
       faults <- lost, MaxFaults <- MaxLost
Gateways == INSTANCE Gateway WITH None <- NoValue

(* What the code expects of the prefixes, see NetboxAllocation.            *)
ASSUME PrefixAssumption ==
  Allocation!PrefixesAreWhole /\ Allocation!CablesHaveTwoEnds /\ Allocation!RequestsAreOfInterfaces
(* Who answers a workflow's jobs, see Workflow.                            *)
ASSUME AnswersAssumption == Flow!WorkersAnswer
(* What the tasks of FakeNOS are given, see FakeNos.                       *)
ASSUME NetworksAssumption == FakeNetworks!RequestsAreNamed
(* What the gateways are given, see Gateway.                               *)
ASSUME GatewayAssumption == Gateways!GatewayIsGiven
=============================================================================
