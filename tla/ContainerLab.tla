---------------------------- MODULE ContainerLab ----------------------------
(***************************************************************************)
(* The containerlab worker (containerlab_worker.py) and the part of the    *)
(* Netbox worker's get_containerlab_inventory that gives nodes their ports *)
(* and addresses.  Each action is a containerlab command, a NetBox job or  *)
(* a write to the topologies directory; jobs run on threads of their own.  *)
(*                                                                         *)
(* A topology says the subnet of the lab and the port of each node, which  *)
(* stands for the seven ports a node gets, and whether its nodes, or its   *)
(* file in their place, tell the subnet: nodes that are down do not.       *)
(***************************************************************************)
EXTENDS Naturals, Sequences, FiniteSets, FiniteSetsExt, SequencesExt, Functions

CONSTANTS
  LabJobs,
  LabRequests,    \* what a job may be asked for
  HostLabs,       \* labs that may run before the first job, with their topologies
  LabDevices,     \* devices NetBox has, with a kind or a platform
  Pool,           \* the subnets 172.100.100.0/24 to 172.100.254.0/24, sorted
  Ports,          \* the range a caller gives, as a set of numbers
  MaxHosts,       \* nodes for which a subnet has addresses
  None,
  MaxAtOnce,      \* bound: jobs that run at the same time
  MaxFaults       \* bound: commands and requests that fail

VARIABLES
  labs,           \* those that run, with their topologies
  files,          \* the topology files of the worker, one per lab
  request,        \* of each job, it never changes
  step,           \* of each job: where it is, and "idle", "done", "failed" or "raised"
  seen,           \* of each job: the labs inspect told it of
  topology,       \* of each job: what it is about to write or to return
  overlapped,     \* history: jobs that have run beside another one
  faults

host == <<labs, files>>
vars == <<host, request, step, seen, topology, overlapped, faults>>

Without(f, x) == Restrict(f, DOMAIN f \ {x})
With(f, x, value) == [y \in DOMAIN f \cup {x} |-> IF y = x THEN value ELSE f[y]]

Init ==
  /\ labs \in HostLabs /\ files = labs
  /\ request \in [LabJobs -> LabRequests]
  /\ step = [j \in LabJobs |-> "idle"]
  /\ seen = [j \in LabJobs |-> <<>>]
  /\ topology = [j \in LabJobs |-> [subnet |-> None, ports |-> <<>>, tells |-> TRUE]]
  /\ overlapped = {} /\ faults = 0

Over == {"idle", "done", "failed", "raised"}
Running == {j \in LabJobs : step[j] \notin Over}
Step(j, next) == step' = [step EXCEPT ![j] = next]
Fault == faults < MaxFaults /\ faults' = faults + 1

(* deploy takes the topology from its caller, all others look first.       *)
Start(j) ==
  /\ step[j] = "idle" /\ Cardinality(Running) < MaxAtOnce
  /\ Step(j, IF request[j].task = "deploy" THEN "fetch" ELSE "inspect")
  /\ overlapped' = IF Running = {} THEN overlapped ELSE overlapped \cup Running \cup {j}
  /\ UNCHANGED <<host, request, seen, topology, faults>>

(* deploy: the file is fetched and moved to the folder of its lab, unless  *)
(* the caller's path is no URL and names a file that is there.             *)
Fetch(j) ==
  LET lab == request[j].lab
  IN  /\ step[j] = "fetch"
      /\ \/ /\ Step(j, "run") /\ UNCHANGED faults
            /\ files' = IF request[j].is_url THEN With(files, lab, request[j].topology) ELSE files
         \/ request[j].is_url /\ Fault /\ Step(j, "raised") /\ UNCHANGED files
      /\ UNCHANGED <<labs, request, seen, topology, overlapped>>

(***************************************************************************)
(* inspect, of one lab or of all.  A command that fails leaves no result,  *)
(* in which looking for the lab raises; deploy_netbox returns the failed   *)
(* result, and all the others find no lab.                                 *)
(***************************************************************************)
Named(j) == request[j].lab # None /\ request[j].task \notin {"deploy netbox", "running labs"}
Told(j) == IF Named(j) THEN Restrict(labs, DOMAIN labs \cap {request[j].lab}) ELSE labs

AfterInspect(j, found) ==
  CASE request[j].task = "running labs" -> "done"
    [] request[j].task = "deploy netbox" -> "choose"
    [] request[j].task \in {"destroy", "save", "restart"} /\ found # <<>> -> "run"
    [] request[j].task = "nornir inventory" /\ found # <<>> -> "hosts"
    [] OTHER -> "failed"
Inspect(j) ==
  /\ step[j] = "inspect"
  /\ \/ seen' = [seen EXCEPT ![j] = Told(j)] /\ Step(j, AfterInspect(j, Told(j))) /\ UNCHANGED faults
     \/ /\ Fault /\ UNCHANGED seen
        /\ Step(j, CASE Named(j) -> "raised"
                     [] request[j].task = "running labs" -> "done"
                     [] OTHER -> "failed")
  /\ UNCHANGED <<host, request, topology, overlapped>>

(***************************************************************************)
(* deploy_netbox.  One container after the other, in containerlab's order: *)
(* the lab's own subnet is taken again, a subnet of another lab given up;  *)
(* if none is left, the first of the pool that no lab has.  A lab that     *)
(* does not tell its subnet is passed over, with a warning.                *)
(***************************************************************************)
KeepsOwn(lab, table, chosen, l) ==                              \* mutant: looks only at its own
  IF l = lab THEN table[l].subnet ELSE chosen
Considers(lab, table, chosen, l) ==
  CASE ~table[l].tells -> chosen
    [] table[l].tells /\ l = lab -> table[l].subnet
    [] OTHER -> IF table[l].subnet = chosen THEN None ELSE chosen

Subnet(j, order) ==
  LET Next1(chosen, l) == Considers(request[j].lab, seen[j], chosen, l)
      chosen == FoldLeft(Next1, request[j].subnet, order)
      free == SelectSeq(Pool, LAMBDA s : \A l \in DOMAIN seen[j] : seen[j][l].tells => seen[j][l].subnet # s)
  IN  IF chosen # None THEN chosen ELSE IF free = <<>> THEN None ELSE Head(free)
Choose(j) ==
  /\ step[j] = "choose"
  /\ \E order \in SetToSeqs(DOMAIN seen[j]) :
       IF Subnet(j, order) = None THEN Step(j, "raised") /\ UNCHANGED topology
       ELSE Step(j, "inventory") /\ topology' = [topology EXCEPT ![j].subnet = Subnet(j, order)]
  /\ UNCHANGED <<host, request, seen, overlapped, faults>>

(* The ports a node of this name has now, in whatever lab; the last counts. *)
PortsMap(j, order) ==
  LET Add(map, l) == [n \in DOMAIN map \cup DOMAIN seen[j][l].ports |->
                        IF n \in DOMAIN seen[j][l].ports THEN seen[j][l].ports[n] ELSE map[n]]
  IN  FoldLeft(Add, <<>>, order)

(* get_containerlab_inventory: a node keeps its ports, a new one gets the  *)
(* next of the range, from its start.                                      *)
Allocate(nodes, map) ==
  LET Add(given, n) == IF n \in DOMAIN map THEN With(given, n, map[n])
                       ELSE LET fresh == Cardinality(DOMAIN given \ DOMAIN map)
                            IN  With(given, n, Min(Ports) + fresh)
  IN  FoldLeft(Add, <<>>, nodes)
RunsOut(nodes, map) ==
  Len(nodes) > MaxHosts \/ Cardinality(ToSet(nodes) \ DOMAIN map) > Cardinality(Ports)

Inventory(j) ==
  LET nodes == SetToSeq(request[j].devices \cap LabDevices)
  IN  /\ step[j] = "inventory"
      /\ \/ \E order \in SetToSeqs(DOMAIN seen[j]) :
              LET map == PortsMap(j, order)
              IN  IF nodes = <<>> \/ RunsOut(nodes, map)
                  THEN Step(j, "raised") /\ UNCHANGED <<topology, faults>>
                  ELSE /\ Step(j, IF request[j].dry_run THEN "done" ELSE "write")
                       /\ topology' = [topology EXCEPT ![j].ports = Allocate(nodes, map)]
                       /\ UNCHANGED faults
         \/ Fault /\ Step(j, "raised") /\ UNCHANGED topology
      /\ UNCHANGED <<host, request, seen, overlapped>>

Write(j) ==
  /\ step[j] = "write"
  /\ files' = With(files, request[j].lab, topology[j])
  /\ Step(j, "run")
  /\ UNCHANGED <<labs, request, seen, topology, overlapped, faults>>

(***************************************************************************)
(* The command at the end of a task.  containerlab refuses a lab that runs *)
(* unless it may reconfigure it, which destroys it first, and subnets and  *)
(* ports that others have.                                                 *)
(***************************************************************************)
Deployed(file, filter) ==
  IF filter = {} THEN file ELSE [file EXCEPT !.ports = Restrict(@, DOMAIN @ \cap filter)]
Refuses(others, lab, new) ==
  \/ lab \in DOMAIN others
  \/ \E l \in DOMAIN others : others[l].subnet = new.subnet \/ Range(others[l].ports) \cap Range(new.ports) # {}
  \/ ~IsInjective(new.ports)
Reply(ok, left) == [ok |-> ok, labs |-> left]
Containerlab(lab, others, filter) ==
  LET new == [Deployed(files[lab], filter) EXCEPT !.tells = TRUE]
  IN  CASE lab \notin DOMAIN files -> Reply(FALSE, labs)
        [] lab \in DOMAIN files /\ Refuses(others, lab, new) -> Reply(FALSE, others)
        [] OTHER -> Reply(TRUE, With(others, lab, new))
Deploy(lab, reconfigure, filter) ==
  Containerlab(lab, IF reconfigure THEN Without(labs, lab) ELSE labs, filter)
RestartLab(lab) == Containerlab(lab, Without(labs, lab), {})
DestroyLab(lab) == Reply(TRUE, Without(labs, lab))
Save == Reply(TRUE, labs)
Command(j) ==
  CASE request[j].task \in {"deploy", "deploy netbox"} ->
         Deploy(request[j].lab, request[j].reconfigure, request[j].node_filter)
    [] request[j].task = "restart" -> RestartLab(request[j].lab)
    [] request[j].task = "destroy" -> DestroyLab(request[j].lab)
    [] request[j].task = "save" -> Save

(* run_containerlab_command: what it does is done also if its time runs    *)
(* out, since the exception waits for the process; a return code that is   *)
(* not 0, or a deploy without output, makes the result failed.             *)
Run(j) ==
  /\ step[j] = "run"
  /\ \/ labs' = Command(j).labs /\ Step(j, IF Command(j).ok THEN "done" ELSE "failed") /\ UNCHANGED faults
     \/ labs' = Command(j).labs /\ Fault /\ Step(j, "raised")
     \/ UNCHANGED labs /\ Fault /\ Step(j, "failed")
  /\ UNCHANGED <<files, request, seen, topology, overlapped>>

(* get_nornir_inventory: a host for each node with its port; of nodes with *)
(* one name in several labs the last counts.                               *)
NornirHosts(j) ==
  /\ step[j] = "hosts"
  /\ \E order \in SetToSeqs(DOMAIN seen[j]) : topology' = [topology EXCEPT ![j].ports = PortsMap(j, order)]
  /\ Step(j, "done")
  /\ UNCHANGED <<host, request, seen, overlapped, faults>>

LabStep(j) ==
  \/ Start(j) \/ Fetch(j) \/ Inspect(j) \/ Choose(j) \/ Inventory(j) \/ Write(j) \/ Run(j) \/ NornirHosts(j)
Done == (\A j \in LabJobs : step[j] \in Over \ {"idle"}) /\ UNCHANGED vars
Next == (\E j \in LabJobs : LabStep(j)) \/ Done

Spec == Init /\ [][Next]_vars

-----------------------------------------------------------------------------
(* deploy_netbox, while no other job runs: the subnet it deploys with is   *)
(* of no other lab.  A lab that runs keeps its subnet, and if no other lab *)
(* has nodes of these names, its nodes keep their ports, and without a new *)
(* node containerlab has no reason to refuse what it has destroyed for it. *)
(* Labs that do not tell their subnet are apart: it is not kept, and may   *)
(* be chosen for another.                                                  *)
LabsKeepTheirPlace ==
  \A j \in LabJobs \ overlapped :
    step[j] = "run" /\ request[j].task = "deploy netbox" =>
      LET lab == request[j].lab
          new == files[lab]
          others == Without(labs, lab)
          kept == DOMAIN new.ports \cap DOMAIN labs[lab].ports
          telling == {l \in DOMAIN labs : labs[l].tells}
      IN  /\ \A l \in DOMAIN others \cap telling : others[l].subnet # new.subnet
          /\ lab \in telling => new.subnet = labs[lab].subnet
          /\ lab \in DOMAIN labs /\ (\A l \in DOMAIN others : kept \cap DOMAIN others[l].ports = {}) =>
               /\ \A n \in kept : new.ports[n] = labs[lab].ports[n]
               /\ kept = DOMAIN new.ports /\ telling = DOMAIN labs => ~Refuses(others, lab, new)
=============================================================================
