-------------------------- MODULE NetboxInterfaces --------------------------
(***************************************************************************)
(* The tasks that write interfaces (workers/netbox_worker/                 *)
(* interfaces_tasks.py), sync_device_interfaces first.                     *)
(* LAGs are created before the interfaces that name them, parents before   *)
(* children; names become ids, read again after every creation.  A name    *)
(* stands for its id.                                                      *)
(***************************************************************************)
EXTENDS NetboxSync

(* How NetBox takes bulk requests: all or nothing, an interface exists     *)
(* once, what is referred to must be there, parents stay while they have   *)
(* children, and MACs and addresses go with their interface.               *)
Refers(interface) == {interface.parent, interface.lag} \ {None}
ReferencesHold(table, keys) ==
  \A k \in keys : \A name \in Refers(table[k]) : <<k[1], name>> \in DOMAIN table
Detached(interface, device, gone) ==
  IF <<device, interface.lag>> \in gone THEN [interface EXCEPT !.lag = None] ELSE interface
Childless(table, gone) ==
  \A k \in DOMAIN table \ gone : <<k[1], table[k].parent>> \notin gone
WithoutInterfaces(nb, gone) ==
  [nb EXCEPT
     !.interfaces = [k \in DOMAIN @ \ gone |-> Detached(@[k], k[1], gone)],
     !.macs = RestrictValues(@, LAMBDA m : m.interface \notin gone),
     !.ips = RestrictValues(@, LAMBDA ip : ip.interface \notin gone)]

-----------------------------------------------------------------------------
(* The filters look at each side's own description.                        *)
Selected(table) ==
  Restrict(table, {k \in DOMAIN table :
                     k[2] \in options.filter_by_name /\ table[k].data \in options.filter_by_description})

(* A VLAN group that does not exist ends the task before it begins.        *)
SelectForInterfaces ==
  \/ Groups \subseteq netbox.groups /\ Selecting("interfaces")
  \/ /\ At("interfaces", "select") /\ options.tasks = <<"interfaces">>
     /\ ~(Groups \subseteq netbox.groups)
     /\ errors' = TRUE /\ step' = "returned"
     /\ UNCHANGED <<netbox, arguments, task, seen, plan, todo, report, outcome, written, planned, faults, edits>>

(* get_interfaces raises if NetBox has no interface of any of the devices. *)
NoInterfaces == Known # {} /\ On(netbox.interfaces, Known) = <<>>
ReadInterfaces ==
  /\ At("interfaces", "start")
  /\ \/ NoInterfaces /\ Raise /\ UNCHANGED faults
     \/ /\ ~NoInterfaces
        /\ seen' = On(netbox.interfaces, Known)
        /\ ValidateDevices("parse")
        /\ UNCHANGED <<netbox, arguments, task, plan, todo, report, outcome, written, planned, faults, edits>>

(* Interfaces that differ in their type only are neither updated nor in    *)
(* sync, unless types are to be updated.                                   *)
IgnoreType(p) ==
  LET fields(k) == IF options.update_type THEN p.update[k] ELSE p.update[k] \ {"type"}
  IN  [p EXCEPT !.update = [k \in {u \in DOMAIN @ : fields(u) # {}} |-> fields(k)]]
InterfacePlan(nb, devices) ==
  IgnoreType(make_diff(Selected(On(live.interfaces, devices)), Selected(On(nb, devices)), devices))
DiffInterfaces ==
  /\ At("interfaces", "parse")
  /\ \E devices \in ParsedDevices :
       /\ CountParsed(devices)
       /\ Plan(InterfacePlan(seen, devices), IF devices = {} THEN "returned" ELSE "review")
       /\ errors' = (errors \/ devices = {})
  /\ UNCHANGED seen

InterfacesNotRead ==
  /\ task = "interfaces"
  /\ ReadFails({"select", "start", "parse", "ids for mains", "ids for children"})

ReviewInterfaces == At("interfaces", "review") /\ review_sync_task_result("lags")

(* _build_interface_payload                                                *)
Resolve(device, name, ids) == IF <<device, name>> \in ids THEN name ELSE None
Payload(k, ids) ==
  [live.interfaces[k] EXCEPT !.parent = Resolve(k[1], @, ids), !.lag = Resolve(k[1], @, ids)]
CreateInterfaces(keys, ids, next) ==
  LET table == [k \in keys |-> Payload(k, ids)] @@ netbox.interfaces
  IN  BulkRequest(Entry("create", keys),
              /\ keys \cap DOMAIN netbox.interfaces = {} /\ ReferencesHold(table, keys),
              [netbox EXCEPT !.interfaces = table], next, "returned")
Lags(keys) == {k \in keys : live.interfaces[k].type = "lag"}
NoChildren(keys) == {}                                          \* mutant
Children(keys) == {k \in keys : live.interfaces[k].parent # None}

CreateLags ==
  At("interfaces", "lags") /\ CreateInterfaces(Lags(plan.create), {}, "ids for mains")

(* The ids are read again; a device that has no interface then is not in   *)
(* nb_intf_ids, and the task raises.                                       *)
ReadIds ==
  /\ \/ At("interfaces", "ids for mains") /\ step' = "mains"
     \/ At("interfaces", "ids for children") /\ step' = "children"
  /\ \A d \in plan.devices : \E k \in DOMAIN netbox.interfaces : k[1] = d
  /\ seen' = On(netbox.interfaces, Known)
  /\ UNCHANGED <<netbox, arguments, task, plan, todo, report, errors, outcome, written, planned, faults, edits>>
NoIds ==
  /\ At("interfaces", "ids for mains") \/ At("interfaces", "ids for children")
  /\ \E d \in plan.devices : \A k \in DOMAIN netbox.interfaces : k[1] # d
  /\ Raise /\ UNCHANGED faults

CreateMains ==
  /\ At("interfaces", "mains")
  /\ CreateInterfaces(plan.create \ (Lags(plan.create) \cup Children(plan.create)),
                      DOMAIN seen, "ids for children")
CreateChildren ==
  At("interfaces", "children") /\ CreateInterfaces(Children(plan.create), DOMAIN seen, "updates")

Updated(k) ==
  [f \in DOMAIN netbox.interfaces[k] |->
     IF f \in plan.update[k] THEN Payload(k, DOMAIN seen)[f] ELSE netbox.interfaces[k][f]]
UpdateInterfaces ==
  /\ At("interfaces", "updates") /\ DOMAIN plan.update \subseteq DOMAIN seen
  /\ LET there == DOMAIN plan.update \cap DOMAIN netbox.interfaces
         table == [k \in there |-> Updated(k)] @@ netbox.interfaces
     IN  BulkRequest(Entry("update", DOMAIN plan.update),
                 there = DOMAIN plan.update /\ ReferencesHold(table, there),
                 [netbox EXCEPT !.interfaces = table], "deletions", "returned")
Deletions == IF options.process_deletions THEN plan.delete ELSE {}
DeleteInterfaces ==
  /\ At("interfaces", "deletions") /\ Deletions \subseteq DOMAIN seen
  /\ BulkRequest(Entry("delete", Deletions),
             Deletions \subseteq DOMAIN netbox.interfaces /\ Childless(netbox.interfaces, Deletions),
             WithoutInterfaces(netbox, Deletions), "returned", "returned")

(* An interface that went since it was planned has no id: the task raises. *)
InterfaceGone ==
  /\ \/ At("interfaces", "updates") /\ ~(DOMAIN plan.update \subseteq DOMAIN seen)
     \/ At("interfaces", "deletions") /\ ~(Deletions \subseteq DOMAIN seen)
  /\ Raise /\ UNCHANGED faults

SyncDeviceInterfaces ==
  \/ SelectForInterfaces \/ ReadInterfaces \/ DiffInterfaces \/ InterfacesNotRead \/ ReviewInterfaces
  \/ CreateLags \/ ReadIds \/ NoIds \/ CreateMains \/ CreateChildren
  \/ UpdateInterfaces \/ DeleteInterfaces \/ InterfaceGone

-----------------------------------------------------------------------------
(***************************************************************************)
(* create_device_interfaces and update_interfaces_description: tasks that  *)
(* write what the caller says, device by device, interface by interface.   *)
(***************************************************************************)
(* create_device_interfaces reads what a device lacks and reports it as    *)
(* created, before the request that creates it and whatever comes of that. *)
StartCreation == At("create", "start") /\ NextStep(options.devices, "device")
Lacking(table, device) == {<<device, n>> : n \in options.names} \ DOMAIN table
ReadDevice ==
  /\ At("create", "device")
  /\ \E d \in todo \cap netbox.devices :
       LET new == Lacking(netbox.interfaces, d)
           writes == new # {} /\ ~options.dry_run
       IN  /\ plan' = [NoPlan EXCEPT !.create = new, !.devices = {d}]
           /\ planned' = planned \cup Entry("create", new)
           /\ report' = report \cup IF writes THEN Entry("create", new) ELSE {}
           /\ step' = IF writes THEN "post" ELSE "device"
           /\ todo' = todo \ {d}
  /\ UNCHANGED <<netbox, arguments, task, seen, errors, outcome, written, faults, edits>>
UnknownDevice == At("create", "device") /\ \E d \in todo \ netbox.devices : PassOver(d)
PostInterfaces ==
  /\ At("create", "post")
  /\ LET table == [k \in plan.create |-> options.payload] @@ netbox.interfaces
     IN  BulkRequest(Entry("create", plan.create), plan.create \cap DOMAIN netbox.interfaces = {},
                     [netbox EXCEPT !.interfaces = table], "device", "device")
EndCreation == At("create", "device") /\ NextStep({}, "returned")
CreateDeviceInterfaces ==
  \/ StartCreation \/ ReadDevice \/ UnknownDevice \/ PostInterfaces \/ EndCreation
  \/ task = "create" /\ ReadFails({"device"})

(* update_interfaces_description saves one interface after the other; what *)
(* is the same as what it has read is not sent, and the first request that *)
(* fails ends the task.                                                    *)
Stale(table) ==
  {k \in DOMAIN table : k[1] \in options.devices /\ k[2] \in options.names /\ table[k].data # options.payload.data}
ReadDescriptions ==
  /\ At("descriptions", "start")
  /\ todo' = IF options.dry_run THEN {} ELSE Stale(netbox.interfaces)
  /\ planned' = planned \cup Entry("update", Stale(netbox.interfaces))
  /\ step' = "save"
  /\ UNCHANGED <<netbox, arguments, task, seen, plan, report, errors, outcome, written, faults, edits>>
SaveDescription ==
  /\ At("descriptions", "save")
  /\ \E k \in todo :
       /\ BareRequest(Entry("update", {k}), k \in DOMAIN netbox.interfaces,
                      [netbox EXCEPT !.interfaces = [i \in {k} |-> [@[i] EXCEPT !.data = options.payload.data]] @@ @])
       /\ todo' = todo \ {k}
  /\ UNCHANGED <<arguments, task, step, seen, plan, errors, planned, edits>>
EndDescriptions == At("descriptions", "save") /\ NextStep({}, "returned")
(* NetBox does not answer the first read, which is an error, not a raise.  *)
NotRead ==
  /\ At("descriptions", "start") /\ faults < MaxFaults
  /\ errors' = TRUE /\ step' = "returned" /\ faults' = faults + 1
  /\ UNCHANGED <<netbox, arguments, task, seen, plan, todo, report, outcome, written, planned, edits>>
UpdateInterfacesDescription ==
  ReadDescriptions \/ SaveDescription \/ EndDescriptions \/ NotRead
=============================================================================
