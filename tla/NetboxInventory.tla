-------------------------- MODULE NetboxInventory --------------------------
(***************************************************************************)
(* sync_device_inventory (workers/netbox_worker/devices_tasks.py): the     *)
(* chassis serial of a device and the modules in its bays.  Bays and       *)
(* module types that are missing are created when the call says so.        *)
(***************************************************************************)
EXTENDS NetboxSync

(* The map and the transformer of the records are fetched first.           *)
SelectForInventory == Selecting("inventory")
ReadInventory ==
  /\ At("inventory", "start")
  /\ seen' = [bays |-> netbox.bays, modules |-> On(netbox.modules, Known),
              serials |-> netbox.serials, types |-> {}]
  /\ ValidateDevices("parse")
  /\ UNCHANGED <<netbox, arguments, task, plan, todo, report, outcome, written, planned, faults, edits>>
InventoryNotRead == task = "inventory" /\ ReadFails({"select", "start", "prepare"})

(* live.unclear are the slots whose record has no serial or no name, or    *)
(* matches several bays or types: an error each, and their modules stay.   *)
HasRecords(device) ==
  live.chassis[device] # {} \/ \E k \in DOMAIN live.modules \cup live.unclear : k[1] = device
Comparable(devices) ==
  {d \in devices : HasRecords(d) /\ Cardinality(live.chassis[d]) < 2}
Chassis(serials, devices) ==
  [k \in {<<d, "chassis">> : d \in {e \in devices : live.chassis[e] # {}}} |-> [serial |-> serials[k[1]]]]
Serials == [d \in DOMAIN live.chassis |-> IF live.chassis[d] = {} THEN None ELSE CHOOSE s \in live.chassis[d] : TRUE]

(* inventory_record_matches_filters: the live record decides for both      *)
(* sides when there is one.                                                *)
MatchesFilters(here, table) ==
  Restrict(table, {k \in DOMAIN table :
    (IF k \in DOMAIN here THEN here[k] ELSE table[k]).type \in options.filter_by_module})
Absent(p) == p.delete \ live.unclear
InventoryPlan(devices) ==
  LET here == On(live.modules, devices)
      there == On(seen.modules, devices)
      p == make_diff(MatchesFilters(here, here) @@ Chassis(Serials, devices),
                     MatchesFilters(here, there) @@ Chassis(seen.serials, devices), devices)
  IN  [p EXCEPT !.delete = Absent(p)]

DiffInventory ==
  /\ At("inventory", "parse")
  /\ \E devices \in ParsedDevices :
       LET compared == Comparable(devices)
       IN  /\ CountParsed(devices)
           /\ Plan(InventoryPlan(compared), IF compared = {} THEN "returned" ELSE "review")
           /\ errors' = \/ errors \/ compared # Known
                        \/ \E d \in devices : live.chassis[d] = {}
                        \/ \E k \in live.unclear : k[1] \in devices
  /\ UNCHANGED seen
ReviewInventory == At("inventory", "review") /\ review_sync_task_result("prepare")

-----------------------------------------------------------------------------
Modules(keys) == {k \in keys : k[2] # "chassis"}
Wanted(k) == live.modules[k].type
TypesNeeded ==
  {Wanted(k) : k \in Modules(plan.create) \cup {u \in DOMAIN plan.update : "type" \in plan.update[u]}}
BaysMissing == Modules(plan.create) \ seen.bays
PrepareInventory ==
  /\ At("inventory", "prepare") /\ step' = "chassis"
  /\ seen' = [seen EXCEPT !.types = netbox.types]
  /\ errors' = \/ errors
               \/ ~options.create_bays /\ BaysMissing # {}
               \/ ~options.create_types /\ ~(TypesNeeded \subseteq netbox.types)
  /\ todo' = DOMAIN plan.update \ Modules(DOMAIN plan.update)
  /\ UNCHANGED <<netbox, arguments, task, plan, report, outcome, written, planned, faults, edits>>

UpdateChassis ==
  /\ At("inventory", "chassis")
  /\ \E k \in todo :
       ObjectRequest(k, Entry("update", {k}), TRUE,
                     [netbox EXCEPT !.serials[k[1]] = plan.new[k].serial])
  /\ UNCHANGED seen
ToBays ==
  At("inventory", "chassis") /\ NextStep(IF options.create_bays THEN BaysMissing ELSE {}, "bays")

CreateBay ==
  /\ At("inventory", "bays")
  /\ \E k \in todo :
       /\ ObjectRequest(k, Entry("bay", {k}), k \notin netbox.bays, [netbox EXCEPT !.bays = @ \cup {k}])
       /\ seen' = [seen EXCEPT !.bays = @ \cup IF report' = report THEN {} ELSE {k}]
ToModules == At("inventory", "bays") /\ NextStep(Modules(plan.create), "modules")

(* get_or_create_module_type_id: the request is not in a try.              *)
NoType(k) == Wanted(k) \notin seen.types
CreateModuleType(k) ==
  /\ NoType(k) /\ options.create_types
  /\ LET done == {<<"inventory", "type", <<k[1], Wanted(k)>>>>}
         created == [netbox EXCEPT !.types = @ \cup {Wanted(k)}]
         known == [seen EXCEPT !.types = @ \cup {Wanted(k)}]
     IN  \/ /\ Wanted(k) \in netbox.types
            /\ seen' = known
            /\ UNCHANGED <<netbox, report, written, faults, outcome>>
         \/ /\ Wanted(k) \notin netbox.types
            /\ netbox' = created /\ written' = written \cup done
            /\ seen' = known /\ report' = report \cup done
            /\ UNCHANGED <<faults, outcome>>
         \/ /\ faults < MaxFaults /\ faults' = faults + 1 /\ outcome' = "raised"
            /\ \/ netbox' = created /\ written' = written \cup done
               \/ UNCHANGED <<netbox, written>>
            /\ UNCHANGED <<seen, report>>
  /\ UNCHANGED <<arguments, task, step, plan, todo, errors, planned, edits>>
TypeFor ==
  /\ \/ At("inventory", "modules") /\ \E k \in todo : k \in seen.bays /\ CreateModuleType(k)
     \/ At("inventory", "types") /\ \E k \in todo : CreateModuleType(k)

SkipModule ==
  /\ At("inventory", "modules")
  /\ \E k \in todo : (k \notin seen.bays \/ (NoType(k) /\ ~options.create_types)) /\ PassOver(k)
CreateModule ==
  /\ At("inventory", "modules")
  /\ \E k \in todo :
       /\ k \in seen.bays /\ ~NoType(k)
       /\ ObjectRequest(k, Entry("create", {k}),
            k \in netbox.bays /\ k \notin DOMAIN netbox.modules /\ Wanted(k) \in netbox.types,
            [netbox EXCEPT !.modules = (k :> plan.new[k]) @@ @])
  /\ UNCHANGED seen
ToTypes ==
  At("inventory", "modules")
  /\ NextStep({k \in Modules(DOMAIN plan.update) : "type" \in plan.update[k]}, "types")

(* A module whose type is not there is not updated at all.                 *)
TypeKnown ==
  /\ At("inventory", "types")
  /\ \E k \in todo :
       /\ ~NoType(k) \/ ~options.create_types
       /\ todo' = todo \ {k}
  /\ UNCHANGED <<netbox, arguments, task, step, seen, plan, report, errors, outcome, written, planned, faults, edits>>
ToUpdates == At("inventory", "types") /\ NextStep({}, "updates")
Updatable == {k \in Modules(DOMAIN plan.update) : "type" \in plan.update[k] => ~NoType(k)}
UpdateModules ==
  /\ At("inventory", "updates")
  /\ BulkRequest(Entry("update", Updatable),
       Updatable \subseteq DOMAIN netbox.modules,
       [netbox EXCEPT !.modules = [k \in DOMAIN @ |->
          [f \in DOMAIN @[k] |-> IF k \in Updatable /\ f \in plan.update[k] THEN plan.new[k][f] ELSE @[k][f]]]],
       "updated", "updated")
ToDeletions ==
  At("inventory", "updated") /\ NextStep(IF options.process_deletions THEN plan.delete ELSE {}, "deletions")
DeleteModule ==
  /\ At("inventory", "deletions")
  /\ \E k \in todo :
       ObjectRequest(k, Entry("delete", {k}), k \in DOMAIN netbox.modules,
                     [netbox EXCEPT !.modules = Without(@, {k})])
  /\ UNCHANGED seen
InventoryDone == At("inventory", "deletions") /\ NextStep({}, "returned")

SyncDeviceInventory ==
  \/ SelectForInventory \/ ReadInventory \/ InventoryNotRead \/ DiffInventory \/ ReviewInventory \/ PrepareInventory
  \/ UpdateChassis \/ ToBays \/ CreateBay \/ ToModules \/ TypeFor \/ SkipModule \/ CreateModule
  \/ ToTypes \/ TypeKnown \/ ToUpdates \/ UpdateModules \/ ToDeletions \/ DeleteModule \/ InventoryDone
=============================================================================
