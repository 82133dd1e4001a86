--------------------------- MODULE NetboxAddresses ---------------------------
(***************************************************************************)
(* sync_mac_addresses (workers/netbox_worker/interfaces_tasks.py) and      *)
(* sync_device_ip (workers/netbox_worker/ip_tasks.py).  MACs and addresses *)
(* are objects of their own with ids; NetBox may hold several with the     *)
(* same value, and lists them by id.                                       *)
(***************************************************************************)
EXTENDS NetboxInterfaces

First(ids) == CHOOSE i \in ids : \A k \in ids : i <= k
Added(table, objects) ==
  LET new == SetToSeq(objects)
      last == Max(DOMAIN table \cup {0})
  IN  [i \in last + 1 .. last + Len(new) |-> new[i - last]] @@ table
Interfaces == On(netbox.interfaces, Known)

(* get_interfaces before MACs or addresses are compared.                   *)
NeedInterfaces(next) ==
  IF Interfaces = <<>>
  THEN Raise /\ UNCHANGED faults
  ELSE /\ seen' = Interfaces /\ step' = next
       /\ UNCHANGED <<netbox, arguments, task, plan, todo, report, errors, outcome, written, planned, faults, edits>>

SelectForMacs == Selecting("mac")
SelectForIps == Selecting("ip")
Validate ==
  /\ ValidateDevices("parse")
  /\ UNCHANGED <<netbox, arguments, task, seen, plan, todo, report, outcome, written, planned, faults, edits>>
ValidateForMacs == At("mac", "start") /\ Validate
ValidateForIps == At("ip", "start") /\ Validate

(* Without a MAC there is nothing to do; workers that failed are passed    *)
(* over.                                                                   *)
Parsed(devices, next) ==
  CountParsed(devices) /\ Plan([NoPlan EXCEPT !.devices = devices], next) /\ UNCHANGED <<seen, errors>>
HasMacs(devices) == \E m \in DOMAIN live.macs : live.macs[m][1] \in devices
ParseMacs ==
  /\ At("mac", "parse")
  /\ \E devices \in ParsedDevices : Parsed(devices, IF HasMacs(devices) THEN "interfaces" ELSE "returned")
ParseIps == At("ip", "parse") /\ \E devices \in ParsedDevices : Parsed(devices, "interfaces")
AddressesNotRead ==
  task \in {"mac", "ip"} /\ ReadFails({"select", "start", "parse", "interfaces", "macs", "ips", "prefixes"})

-----------------------------------------------------------------------------
(* A MAC that NetBox has on an interface of another name is a conflict; on *)
(* one of the same name it is in sync, whatever the device.                *)
MacObject(mac) ==
  LET ids == {i \in DOMAIN netbox.macs : netbox.macs[i].mac = mac}
      assigned == {i \in ids : netbox.macs[i].interface # None}
  IN  IF ids = {} THEN 0 ELSE First(IF assigned # {} THEN assigned ELSE ids)
MacAt(mac) == netbox.macs[MacObject(mac)].interface
LiveMacs(devices) ==
  {m \in DOMAIN live.macs : live.macs[m][1] \in devices /\ live.macs[m] \in DOMAIN seen}
UnknownMac(mac) == MacObject(mac) = 0
FreeMac(mac) == ~UnknownMac(mac) /\ MacAt(mac) = None
SameInterface(mac) == ~UnknownMac(mac) /\ MacAt(mac) # None /\ MacAt(mac)[2] = live.macs[mac][2]
OwnMac(mac) == <<live.macs[mac][1], mac>>
MacPlan(devices) ==
  LET macs == LiveMacs(devices)
      free == {m \in macs : FreeMac(m)}
  IN  [NoPlan EXCEPT
         !.create = {OwnMac(m) : m \in {n \in macs : UnknownMac(n)}},
         !.update = [k \in {OwnMac(m) : m \in free} |-> MacObject(k[2])],
         !.in_sync = {OwnMac(m) : m \in {n \in macs : SameInterface(n)}},
         !.devices = devices]
MacConflicts(devices) ==
  {m \in LiveMacs(devices) : ~UnknownMac(m) /\ ~FreeMac(m) /\ ~SameInterface(m)}

MacInterfaces == At("mac", "interfaces") /\ NeedInterfaces("macs")
PlanMacs ==
  /\ At("mac", "macs")
  /\ Plan(MacPlan(plan.devices), "review")
  /\ errors' = (errors \/ MacConflicts(plan.devices) # {})
  /\ UNCHANGED <<seen, faults>>
ReviewMacs == At("mac", "review") /\ review_sync_task_result("creates")

(* An object is assigned to an interface that is there.                    *)
Assignable(interfaces) == interfaces \subseteq DOMAIN netbox.interfaces
CreateMacs ==
  /\ At("mac", "creates")
  /\ LET macs == {k[2] : k \in plan.create}
     IN  BulkRequest(Entry("create", plan.create), Assignable({live.macs[m] : m \in macs}),
           [netbox EXCEPT !.macs = Added(@, {[mac |-> m, interface |-> live.macs[m]] : m \in macs})],
           "updates", "updates")
UpdateMacs ==
  /\ At("mac", "updates")
  /\ LET ids == {plan.update[k] : k \in DOMAIN plan.update}
     IN  BulkRequest(Entry("update", DOMAIN plan.update),
           ids \subseteq DOMAIN netbox.macs /\ Assignable({live.macs[k[2]] : k \in DOMAIN plan.update}),
           [netbox EXCEPT !.macs =
              [i \in DOMAIN @ |-> IF i \in ids THEN [@[i] EXCEPT !.interface = live.macs[netbox.macs[i].mac]] ELSE @[i]]],
           "returned", "returned")

-----------------------------------------------------------------------------
(* Addresses.  A live address is [at, address]; the one interface it is at *)
(* makes it a loopback address, the ranges of the call make it anycast.    *)
Loopback(name) == name \in options.loopbacks
resolve_ip_role(address, name) ==
  IF address \in options.anycast THEN "anycast" ELSE IF Loopback(name) THEN "loopback" ELSE None
Role(ip) == resolve_ip_role(ip.address, ip.at[2])
LiveIps(devices) == {ip \in live.ips : ip.at[1] \in devices /\ ip.at \in DOMAIN seen}

(* Which of NetBox's objects count; with VRFs ignored only the first does, *)
(* unless the address is anycast.                                          *)
SameAddress(ip) == {i \in DOMAIN netbox.ips : netbox.ips[i].address = ip.address}
Matching(ip) ==
  IF ~options.ignore_vrf THEN {i \in SameAddress(ip) : netbox.ips[i].vrf = ip.vrf}
  ELSE IF Role(ip) = "anycast" \/ SameAddress(ip) = {} THEN SameAddress(ip)
  ELSE {First(SameAddress(ip))}
OnInterface(ip) == {i \in Matching(ip) : netbox.ips[i].interface = ip.at}
Unassigned(ip) == {i \in Matching(ip) : netbox.ips[i].interface = None}
Elsewhere(ip) == Matching(ip) # {} /\ OnInterface(ip) = {} /\ Unassigned(ip) = {}

Holder(ip) == netbox.ips[First(Matching(ip))]
HolderRole(ip) ==
  IF Holder(ip).role = "anycast" THEN "anycast"
  ELSE LET role == resolve_ip_role(ip.address, Holder(ip).interface[2])
       IN  IF role = None THEN Holder(ip).role ELSE role
OwnRole(ip) == IF netbox.ips[First(OnInterface(ip))].role = "anycast" THEN "anycast" ELSE Role(ip)
Shared(ip) == Elsewhere(ip) /\ HolderRole(ip) = "anycast"
Conflict(ip) == Elsewhere(ip) /\ HolderRole(ip) # "anycast"
RoleDiffers(ip) == OwnRole(ip) # None /\ OwnRole(ip) # netbox.ips[First(OnInterface(ip))].role

(* The bulk lists: what to create, with its role, and what to change in    *)
(* which object.  A key is <<device, interface, address>>.                 *)
Key(at, address) == <<at[1], at[2], address>>
ToCreate(ips) == {ip \in ips : Matching(ip) = {} \/ Shared(ip)}
Created(ip) ==
  [interface |-> ip.at, address |-> ip.address, vrf |-> IF options.ignore_vrf THEN None ELSE ip.vrf,
   role |-> IF Shared(ip) THEN "anycast" ELSE Role(ip)]
Assigned(ip) ==
  {[key |-> Key(ip.at, ip.address), id |-> First(OnInterface(ip)), interface |-> ip.at, role |-> OwnRole(ip)] :
     x \in {y \in {ip} : OnInterface(ip) # {} /\ RoleDiffers(ip)}}
  \cup
  {[key |-> Key(ip.at, ip.address), id |-> First(Unassigned(ip)), interface |-> ip.at, role |-> Role(ip)] :
     x \in {y \in {ip} : OnInterface(ip) = {} /\ Unassigned(ip) # {}}}
HolderUpdate(ip) ==
  {[key |-> Key(Holder(ip).interface, ip.address), id |-> First(Matching(ip)),
    interface |-> Holder(ip).interface, role |-> HolderRole(ip)] :
     x \in {y \in {ip} : Elsewhere(ip) /\ Holder(ip).role # HolderRole(ip)}}
ToUpdate(ips) == UNION {Assigned(ip) \cup HolderUpdate(ip) : ip \in ips}

(* One address on two interfaces, not anycast: none of them is written.    *)
Keyed(ips) ==
  {<<ip.address, Key(ip.at, ip.address)>> : ip \in {c \in ToCreate(ips) : Created(c).role # "anycast"}}
  \cup {<<netbox.ips[u.id].address, u.key>> : u \in {c \in ToUpdate(ips) : c.role # "anycast"}}
NoDuplicates(ips) == {}                                         \* mutant
Duplicates(ips) == {x[2] : x \in {y \in Keyed(ips) : \E z \in Keyed(ips) : z[1] = y[1] /\ z # y}}
IpPlan(devices) ==
  LET ips == LiveIps(devices)
      updates == {u \in ToUpdate(ips) : u.key \notin Duplicates(ips)}
      creates == {ip \in ToCreate(ips) : Key(ip.at, ip.address) \notin Duplicates(ips)}
  IN  [NoPlan EXCEPT
         !.create = {Key(ip.at, ip.address) : ip \in creates},
         !.new = {Created(ip) : ip \in creates},
         !.update = [k \in {u.key : u \in updates} |-> CHOOSE u \in updates : u.key = k],
         !.in_sync = {Key(ip.at, ip.address) :
                        ip \in {i \in ips : OnInterface(i) # {} /\ ~RoleDiffers(i)}},
         !.devices = devices]

IpInterfaces == At("ip", "interfaces") /\ NeedInterfaces("ips")
PlanIps ==
  /\ At("ip", "ips")
  /\ Plan(IpPlan(plan.devices), IF LiveIps(plan.devices) = {} THEN "returned" ELSE "review")
  /\ errors' = (errors \/ \E ip \in LiveIps(plan.devices) :
                            Conflict(ip) \/ Key(ip.at, ip.address) \in Duplicates(LiveIps(plan.devices)))
  /\ UNCHANGED <<seen, faults>>
ReviewIps == At("ip", "review") /\ review_sync_task_result("updates")

UpdateIps ==
  /\ At("ip", "updates")
  /\ LET updates == {plan.update[k] : k \in DOMAIN plan.update}
         of(i) == CHOOSE u \in updates : u.id = i
     IN  BulkRequest(Entry("update", DOMAIN plan.update),
           /\ \A u \in updates : u.id \in DOMAIN netbox.ips
           /\ Assignable({u.interface : u \in updates}),
           [netbox EXCEPT !.ips =
              [i \in DOMAIN @ |-> IF \E u \in updates : u.id = i
                                  THEN [@[i] EXCEPT !.interface = of(i).interface, !.role = of(i).role]
                                  ELSE @[i]]],
           "creates", "creates")
CreateIps ==
  /\ At("ip", "creates")
  /\ BulkRequest(Entry("create", plan.create), Assignable({ip.interface : ip \in plan.new}),
       [netbox EXCEPT !.ips = Added(@, plan.new)], "prefixes", "prefixes")

(* The prefixes of all live addresses; they are not in the report.         *)
MissingPrefixes ==
  {p \in {[prefix |-> live.prefix_of[ip.address],
           vrf |-> IF options.ignore_vrf THEN None ELSE ip.vrf] : ip \in LiveIps(plan.devices)} :
     \A q \in netbox.prefixes : q.prefix # p.prefix \/ (~options.ignore_vrf /\ q.vrf # p.vrf)}
CreatePrefixes ==
  /\ At("ip", "prefixes")
  /\ IF options.create_prefixes /\ MissingPrefixes # {}
     THEN Request({}, TRUE, [netbox EXCEPT !.prefixes = @ \cup MissingPrefixes], "returned", "returned")
     ELSE Go("returned")
  /\ UNCHANGED <<arguments, task, seen, plan, todo, outcome, planned, edits>>

SyncMacAddresses ==
  SelectForMacs \/ ValidateForMacs \/ ParseMacs \/ MacInterfaces \/ PlanMacs \/ ReviewMacs \/ CreateMacs \/ UpdateMacs
SyncDeviceIp ==
  SelectForIps \/ ValidateForIps \/ ParseIps \/ IpInterfaces \/ PlanIps \/ ReviewIps \/ UpdateIps \/ CreateIps \/ CreatePrefixes
SyncAddresses ==
  AddressesNotRead \/ SyncMacAddresses \/ SyncDeviceIp
=============================================================================
