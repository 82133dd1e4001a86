------------------------------ MODULE SyncAll ------------------------------
(***************************************************************************)
(* sync_all (workers/netbox_worker/devices_tasks.py) runs the tasks in     *)
(* order: errors are collected, a declined review ends the job.            *)
(* check_device_sync runs them dry and says which devices are in sync.     *)
(* One task on its own is a job too, and the VLANs, the creation of        *)
(* interfaces, the descriptions, designs, objects, subnets and reads only  *)
(* that.  Meanwhile others change NetBox.                                  *)
(***************************************************************************)
EXTENDS NetboxAddresses, NetboxInventory, NetboxPeerings, NetboxVlans, NetboxObjects, NetboxReads

Sequence == options.tasks
Following(t) == Sequence[1 + CHOOSE i \in DOMAIN Sequence : Sequence[i] = t]

(* The devices a dry run has a result of, of those of the call: addresses  *)
(* and sessions of all that NetBox has, also if they were not parsed.      *)
HasResult(d) ==
  CASE task = "mac" -> d \in Known /\ HasMacs(plan.devices)
    [] task = "ip" -> d \in Known
    [] task = "bgp" -> Known = options.devices
    [] OTHER -> d \in plan.devices
InSync(d) == \A e \in Entries(plan) : e[3][1] # d
Checked ==
  report \cup {<<"check", task, <<d, InSync(d)>>>> : d \in {e \in options.devices : HasResult(e)}}
WithOverall(checks) ==
  checks \cup {<<"check", "in_sync", <<d, \A t \in ToSet(Sequence) : <<"check", t, <<d, TRUE>>>> \in checks>>>> :
                 d \in options.devices}
IsLast == task = Last(Sequence) \/ options.devices = {}
NextTask ==
  /\ outcome = "running" /\ step = "returned"
  /\ report' = CASE ~options.check -> report
                 [] options.check /\ ~IsLast -> Checked
                 [] options.check /\ IsLast -> WithOverall(Checked)
  /\ IF IsLast
     THEN outcome' = "returned" /\ UNCHANGED <<task, step>>
     ELSE task' = Following(task) /\ step' = "start" /\ UNCHANGED outcome
  /\ seen' = <<>> /\ plan' = NoPlan /\ todo' = {}
  /\ UNCHANGED <<netbox, arguments, errors, written, planned, faults, edits>>
SelectForAll == (options.check \/ Len(Sequence) > 1) /\ SelectDevices
Declined ==
  /\ outcome = "running" /\ step = "skipped"
  /\ outcome' = "skipped"
  /\ UNCHANGED <<netbox, arguments, task, step, seen, plan, todo, report, errors, written, planned, faults, edits>>

(* What others do: take out or put in an interface or a session, take out  *)
(* a module, a VLAN, an object, a subnet or a record, change a record or   *)
(* rename a session.                                                       *)
Edits ==
  {WithoutInterfaces(netbox, {k}) : k \in {i \in DOMAIN netbox.interfaces : Childless(netbox.interfaces, {i})}}
  \cup {[netbox EXCEPT !.interfaces = (k :> Payload(k, {})) @@ @] :
          k \in DOMAIN live.interfaces \ DOMAIN netbox.interfaces}
  \cup {[netbox EXCEPT !.sessions = Without(@, {k})] : k \in DOMAIN netbox.sessions}
  \cup {[netbox EXCEPT !.sessions = (k :> live.sessions[k]) @@ @] :
          k \in DOMAIN live.sessions \ DOMAIN netbox.sessions}
  \cup {[netbox EXCEPT !.modules = Without(@, {k})] : k \in DOMAIN netbox.modules}
  \cup {[netbox EXCEPT !.vlans = Without(@, {id})] : id \in DOMAIN netbox.vlans}
  \cup {[netbox EXCEPT !.objects = Without(@, {id})] : id \in {i \in DOMAIN netbox.objects : Removable(i)}}
  \cup {[netbox EXCEPT !.subnets = Without(@, {id})] : id \in DOMAIN netbox.subnets}
  \cup {[netbox EXCEPT !.records = Without(@, {id})] : id \in DOMAIN netbox.records}
  \cup {[netbox EXCEPT !.records[id].version = @ + 1] : id \in DOMAIN netbox.records}
  \cup {[netbox EXCEPT !.records[id] = [@ EXCEPT !.name = "renamed", !.version = @ + 1]] :
          id \in IF task = "get bgp" THEN DOMAIN netbox.records ELSE {}}
Edit ==
  /\ outcome = "running" /\ edits < MaxEdits
  /\ edits' = edits + 1
  /\ netbox' \in Edits
  /\ UNCHANGED <<arguments, job, faults>>

SyncTask ==
  \/ SyncDeviceInventory \/ SyncDeviceInterfaces \/ SyncAddresses \/ SyncBgpPeerings
  \/ CreateBgpPeering \/ UpdateBgpPeering
  \/ SyncVlans \/ CreateDeviceInterfaces \/ UpdateInterfacesDescription
  \/ CreateDesign \/ Crud \/ ReadRecords \/ CreatePrefix
Done == outcome # "running" /\ UNCHANGED vars
Next == SyncTask \/ SelectForAll \/ NextTask \/ Declined \/ Edit \/ Done
Spec == Init /\ [][Next]_vars

-----------------------------------------------------------------------------
(***************************************************************************)
(* What the synchronisation of NetBox promises.                            *)
(***************************************************************************)
(* The plans of a dry run on what NetBox holds now.                        *)
Addresses == INSTANCE NetboxAddresses WITH seen <- netbox.interfaces
Inventory == INSTANCE NetboxInventory WITH seen <- [modules |-> netbox.modules, serials |-> netbox.serials]
AskedPeerings == UNION {Peerings(r) : r \in options.requests}
Peers ==
  INSTANCE NetboxPeerings WITH seen <-
    [sessions |-> AskedPeerings, addresses |-> AddressObjects(AskedPeerings),
     devices |-> AsksFor(AskedPeerings, AddressObjects(AskedPeerings)) \cap netbox.devices]
PeeringPlan ==
  LET all == AskedPeerings \cup IF options.create_reverse THEN Peers!Mirrors(AskedPeerings) ELSE {}
  IN  Peers!CreatePlan(Peers!Unnamed(all, NamesOn({s.device : s \in all})))
NextPlan(t) ==
  CASE t = "inventory" -> Inventory!InventoryPlan(Comparable(Known))
    [] t = "interfaces" -> InterfacePlan(netbox.interfaces, Known)
    [] t = "mac" -> Addresses!MacPlan(Known)
    [] t = "ip" -> Addresses!IpPlan(Known)
    [] t = "bgp" -> BgpPlan(On(netbox.sessions, Known), Known)
    [] t = "create bgp" -> PeeringPlan
    [] t = "update bgp" ->
         [NoPlan EXCEPT !.update = [k \in {EntryKey(r.name) : r \in {q \in options.requests :
            Named(q.name) # {} /\ \A s \in Named(q.name) : netbox.sessions[s].data # options.payload.data}} |-> {"data"}]]
    [] t = "vlans" -> VlanPlan(netbox.vlans, Known)
    [] t = "create" -> [NoPlan EXCEPT !.create = UNION {Lacking(netbox.interfaces, d) : d \in Known}]
    [] t = "descriptions" -> [NoPlan EXCEPT !.update = [k \in Stale(netbox.interfaces) |-> {"data"}]]
    [] t = "design" -> [NoPlan EXCEPT !.create = UNION {Missing(type) : type \in ToSet(options.create_order)}]
    [] t = "crud create" -> [NoPlan EXCEPT !.create = {o \in options.data : \A p \in Objects : ~SameObject(o, p)}]
    [] t = "crud update" ->
         [NoPlan EXCEPT !.update = [id \in {i \in DOMAIN netbox.objects \cap options.ids : ~IsAsked(i)} |-> {"data"}]]
    [] t \in Reads -> NoPlan
    [] t = "prefix" -> IF Filters = {} THEN NoPlan ELSE PrefixPlan
    [] t = "crud delete" -> [NoPlan EXCEPT !.delete = DOMAIN netbox.objects \cap options.ids]

(* With create_reverse a session is not created without its other end,     *)
(* unless that is said to exist because its name does.                     *)
IsThere(s) == \E k \in DOMAIN netbox.sessions : k = PeerKey(s) \/ netbox.sessions[k].name = NameOf(s)
BothEnds ==
  task = "create bgp" /\ step = "returned" /\ outcome = "running" /\ options.create_reverse =>
    \A s \in seen.sessions : IsThere(IF s.mirrors = None THEN Mirror(s) ELSE s.mirrors)

(* A job that wrote, had no error and met no fault and no change by others *)
(* leaves nothing to do: a dry run with the same arguments plans nothing   *)
(* (the order of LAGs, parents and children, the roles and objects of      *)
(* addresses, and make_diff itself decide it; make_diff does not see items *)
(* gone from a list).  BGP sessions that it creates have both ends.  A     *)
(* name that two sessions have may lead sync_bgp_peerings to the wrong one.*)
GoesByName == \E e \in planned : e[1] = "bgp" /\ e[2] = "ambiguous"
Converges ==
  outcome \in {"running", "returned"} /\ ~errors /\ faults = 0 /\ edits = 0
    /\ ~options.dry_run /\ options.process_deletions /\ ~GoesByName =>
    /\ outcome = "returned" => \A t \in ToSet(Sequence) : Entries(NextPlan(t)) = {}
    /\ BothEnds

(* What a read returns at its end, unless the cache was forced: what was   *)
(* the same all through the call is there as it is (a circuit may be       *)
(* missing), and nothing is there that was gone before.                    *)
ReadIsCurrent ==
  task \in Reads /\ step = "answered" /\ Call.cache # "force" /\ ~options.dry_run =>
    LET same == {r \in Asked : r \in Range(seen.before)}
        ids == DOMAIN seen.before \cup DOMAIN netbox.records
    IN  /\ \A r \in seen.result : r.id \in ids
        /\ \A r \in seen.result, s \in same : r.id = s.id /\ r.name = s.name => r = s
        /\ task # "get circuits" => \A s \in same : s \in seen.result

(* A device that a check calls in sync has nothing left to do in any of    *)
(* the tasks, also when some of them failed or some devices could not be   *)
(* parsed (those count as in sync for MACs and addresses).                 *)
CheckIsTrue ==
  edits = 0 => \A t \in SyncTasks, d \in options.devices :
    /\ <<"check", t, <<d, TRUE>>>> \in report =>
         (t \in {"mac", "ip"} /\ faults > 0) \/ \A e \in Entries(NextPlan(t)) : e[3][1] # d
    /\ <<"check", "in_sync", <<d, TRUE>>>> \in report =>
         \A u \in ToSet(Sequence) : <<"check", u, <<d, TRUE>>>> \in report

(* The report of a job: what it says was written was written, and when     *)
(* there was no error nothing that was written is missing from it, though  *)
(* requests fail or lose their answers and bays share names with modules   *)
(* (create_device_interfaces reports what it is about to create, so this   *)
(* holds of it only without errors; crud_update counts what was as asked). *)
(* What a read returns from the cache and NetBox is what NetBox has, and a *)
(* device that a check calls in sync is.                                   *)
ReportIsTrue ==
  LET said == {r \in report : r[1] \notin {"crud update", "check"}}
  IN  /\ {r \in said : r[1] # "create"} \subseteq Reported(written)
      /\ outcome = "returned" /\ ~errors =>
           said \subseteq Reported(written) /\ Reported(written) \subseteq report
      /\ ReadIsCurrent
      /\ CheckIsTrue

(* What a job deletes was planned to be deleted, a session at least by its *)
(* name, and is not on the device, with three exceptions: an interface or  *)
(* session whose description there is not one the filter selects; sessions *)
(* of a device that was not parsed, or that were left out of the plan; and *)
(* a session that has its name in common with one to be deleted.           *)
Deleted == {w[3] : w \in {v \in written' \ written : v[2] = "delete"}}
NamedAs(j, k) == seen[j].name = netbox.sessions[k].name
DeletesOnlyAbsent ==
  /\ task = "inventory" => Deleted \cap (DOMAIN live.modules \cup live.unclear) = {}
  /\ task = "interfaces" =>
       \A k \in Deleted \cap DOMAIN live.interfaces :
         live.interfaces[k].data \notin options.filter_by_description
  /\ task = "bgp" =>
       \A k \in Deleted :
         /\ \E j \in plan.delete : NamedAs(j, k)
         /\ k \in plan.delete =>
              \/ k \notin DOMAIN Comparables(plan.devices)
              \/ live.sessions[k].data \notin options.filter_by_description

(* What a job writes was in the plan that its dry run and its review show  *)
(* (bays, module types and the sessions it deletes, which go by name,      *)
(* apart), and a dry run writes nothing, but for addresses after an        *)
(* approval and designs, which have none.                                  *)
WritesOnlyPlanned ==
  /\ \A w \in written : w[2] \in {"create", "update", "delete"} =>
       w \in planned \/ (w[1] = "bgp" /\ w[2] = "delete")
  /\ \A w \in written : options.dry_run => w[1] = "design" \/ (w[1] = "ip" /\ options.with_approval)

(* A job writes only what it showed, and deletes only what the device does *)
(* not have, but for the exceptions DeletesOnlyAbsent names, whatever was  *)
(* not parsed or changes meanwhile.                                        *)
OnlyPlanned == [][WritesOnlyPlanned' /\ DeletesOnlyAbsent]_vars

(* An address that is not anycast is created only once, and not beside one *)
(* that is there.                                                          *)
CreatedHere(ip) ==
  ip.interface # None /\ <<"ip", "create", Key(ip.interface, ip.address)>> \in written
OneHolder ==
  edits = 0 => \A i, j \in DOMAIN netbox.ips :
    LET ip == netbox.ips[i]
    IN  i # j /\ CreatedHere(ip) /\ ip.role # "anycast"
          => netbox.ips[j].address # ip.address \/ (~options.ignore_vrf /\ netbox.ips[j].vrf # ip.vrf)
=============================================================================
