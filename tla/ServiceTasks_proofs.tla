------------------------- MODULE ServiceTasks_proofs -------------------------
(* Safety properties of ServiceTasks, for all networks, workflows,         *)
(* services, jobs, requests and faults, from the invariants of its parts.  *)
EXTENDS ServiceTasks, ServiceParts_proofs

all == <<part, vars, lost, allocation, maps, flow, lab, fakenos, gateway, queries, inventory>>

(* The part that runs starts with its Init and makes its steps, or rests.  *)
LEMMA PartsBegin ==
  ASSUME TasksInit
  PROVE  /\ part = "allocation" => Allocation!Init
         /\ part = "networks" => FakeNetworks!Init
         /\ part = "workflow" => Flow!Init
         /\ part = "gateway" => Gateways!Init
  BY DEF TasksInit

LEMMA PartsStep ==
  ASSUME [TasksNext]_all
  PROVE  /\ part' = part
         /\ part = "allocation" => Allocation!Next \/ UNCHANGED allocation
         /\ part = "networks" => FakeNetworks!Next \/ UNCHANGED fakenos
         /\ part = "workflow" => Flow!Next \/ UNCHANGED flow
         /\ part = "gateway" => Gateways!Next \/ UNCHANGED gateway
<1>1. CASE UNCHANGED all
  BY <1>1 DEF all
<1>2. CASE TasksNext
  BY <1>2 DEF TasksNext
<1> QED
  BY <1>1, <1>2

-----------------------------------------------------------------------------
(* create_ip: as long as jobs run one at a time, an interface has at most  *)
(* one address in a parent, and with subnets of their own both ends of a   *)
(* link have addresses of one; without a VRF a subnet is of one interface  *)
(* or link, also when jobs run at once (ip_tasks.py, prefix_tasks.py), for *)
(* all prefixes, cables, requests, lost answers and retries.               *)
THEOREM AddressesFitAlways == TasksSpec => []AddressesFitLinks
<1>1. TasksInit => AddressesInv
  BY PrefixAssumption, PartsBegin, AllocationBegins
<1>2. AddressesInv /\ [TasksNext]_all => AddressesInv'
  BY PrefixAssumption, PartsStep, AllocationStep
<1>3. AddressesInv => AddressesFitLinks
  BY AddressesFit DEF AddressesFitLinks
<1> QED
  BY <1>1, <1>2, <1>3, PTL DEF TasksSpec, all

(* FakeNOS: a simulated network has at most one process, which is the one  *)
(* in the table that stop and the end of the worker reach, unless a job    *)
(* that starts it is about to put it there, or it was started while it ran *)
(* or by two jobs at once (fakenos_worker.py), whatever jobs there are and *)
(* whatever they stop, raise at or see die.                                *)
THEOREM OneProcessAlways == TasksSpec => []OneProcess
<1>1. TasksInit => NetworksInv
  BY NetworksAssumption, PartsBegin, NetworksBegin
<1>2. NetworksInv /\ [TasksNext]_all => NetworksInv'
  BY NetworksAssumption, PartsStep, NetworksStep
<1>3. NetworksInv => OneProcess
  BY NetworksAssumption, OneInTheTable DEF OneProcess
<1> QED
  BY <1>1, <1>2, <1>3, PTL DEF TasksSpec, all

(* Workflows: a step with a condition is run exactly when the condition    *)
(* holds of what the steps it names returned (skip_step_check): as the     *)
(* checks count it, and as it is documented unless a named step was        *)
(* skipped and is asked to have passed or a worker had no match.           *)
THEOREM ConditionsAreMetAlways == TasksSpec => []ConditionsAreMet
<1>1. TasksInit => FlowInv
  BY PartsBegin, FlowBegins
<1>2. FlowInv /\ [TasksNext]_all => FlowInv'
  BY AnswersAssumption, PartsStep, FlowInvStep
<1>3. FlowInv => ConditionsAreMet
  BY AnswersAssumption, ConditionsHold DEF ConditionsAreMet
<1> QED
  BY <1>1, <1>2, <1>3, PTL DEF TasksSpec, all

(* Workflows: a report has every step that was handled and every failure,  *)
(* with remove_no_match or without it (remove_no_match_results), and only  *)
(* a step without an answer costs the report.                              *)
THEOREM ReportsAreFaithful == TasksSpec => ReportIsFaithful
<1>1. TasksInit => FlowInv
  BY PartsBegin, FlowBegins
<1>2. FlowInv /\ [TasksNext]_all => FlowInv'
  BY AnswersAssumption, PartsStep, FlowInvStep
<1>3. FlowInv /\ [TasksNext]_all => [Flow!Reported]_(Flow!vars)
  <2> SUFFICES ASSUME FlowInv, [TasksNext]_all, ~UNCHANGED Flow!vars
               PROVE  Flow!Reported
    OBVIOUS
  <2>1. ~UNCHANGED flow
    BY DEF flow, Flow!vars
  <2>2. part = "workflow" /\ Flow!Next
    BY <2>1 DEF TasksNext, all
  <2> QED
    BY <2>2, FlowReports
<1> QED
  BY <1>1, <1>2, <1>3, PTL DEF TasksSpec, all, ReportIsFaithful, Flow!ReportIsFaithful

(* FastAPI and FastMCP: whatever finders do at once, whoever registers and *)
(* leaves, whatever fails and whatever tokens are stored and deleted, only *)
(* tasks that a service shows are published and called, a service that a   *)
(* finder has done with is there as a whole, and a token opens the gateway *)
(* just while it is given to someone (fastapi_worker.py,                   *)
(* fastmcp_worker.py), for all services, tasks, policies and scenes.       *)
THEOREM ToolsAreWholeAlways == TasksSpec => []ToolsAreWhole
<1>1. TasksInit => GatewayInv
  BY GatewayAssumption, PartsBegin, GatewayBegins
<1>2. GatewayInv /\ [TasksNext]_all => GatewayInv'
  BY GatewayAssumption, PartsStep, GatewayStep
<1>3. GatewayInv => ToolsAreWhole
  BY GatewayAssumption, OnlyTheOffered, AllFoundIsPublished, TokensAreAsGranted DEF ToolsAreWhole
<1> QED
  BY <1>1, <1>2, <1>3, PTL DEF TasksSpec, all
=============================================================================
