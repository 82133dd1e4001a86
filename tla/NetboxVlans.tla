---------------------------- MODULE NetboxVlans ----------------------------
(***************************************************************************)
(* sync_vlans (workers/netbox_worker/vlan_tasks.py).  A VLAN of a device   *)
(* belongs to a scope, a group or the site of the device; in a group the   *)
(* vid identifies it, in a site vid and name.  Nothing is deleted.  An     *)
(* object is <<scope, <<vid, name>>>>, the name of a group's being None.   *)
(* The table is a function of ids.                                         *)
(***************************************************************************)
EXTENDS NetboxSync

-----------------------------------------------------------------------------
(* match_vlan_map: the first rule that fits, then the default group, then  *)
(* the site.                                                               *)
Scope(v) ==
  LET fits == SelectSeq(options.vlan_map, LAMBDA r : v.vid \in r.vids /\ v.device \in r.devices)
  IN  IF fits # <<>> THEN Head(fits).group
      ELSE IF options.vlan_group # None THEN options.vlan_group ELSE netbox.sites[v.device]
VlanKey(scope, vid, name) == <<scope, <<vid, IF scope \in Groups THEN None ELSE name>>>>

SelectForVlans == Selecting("vlans")

(* Unknown devices are left out; a group that does not exist ends the task.*)
ReadScopes ==
  /\ At("vlans", "start")
  /\ errors' = (errors \/ Known # options.devices \/ ~(Groups \subseteq netbox.groups))
  /\ step' = IF Known = {} \/ ~(Groups \subseteq netbox.groups) THEN "returned" ELSE "parse"
  /\ UNCHANGED <<netbox, arguments, task, seen, plan, todo, report, outcome, written, planned, faults, edits>>

(* What the devices say, and where they do not agree.                      *)
Observed(devices) ==
  {[key |-> VlanKey(Scope(v), v.vid, v.name), name |-> v.name, data |-> v.data] :
     v \in {u \in live.vlans : u.device \in devices /\ u.vid \in options.filter_by_vlan_ids}}
Conflicting(observed) == {o.key : o \in {x \in observed : \E y \in observed : y.key = x.key /\ y # x}}
Desired(observed) ==
  [k \in {o.key : o \in observed} \ Conflicting(observed) |->
     LET o == CHOOSE x \in observed : x.key = k IN [name |-> o.name, data |-> o.data]]

(* find_vlan, first by vid and name, then by vid alone; an object serves   *)
(* one identity.                                                           *)
Candidates(vlans, key, conflicts) ==
  {id \in DOMAIN vlans :
     LET v == vlans[id]
     IN  v.scope = key[1] /\ v.vid = key[2][1] /\ VlanKey(v.scope, v.vid, v.name) \notin conflicts}
FindVlan(vlans, desired, conflicts, matched, turn) ==
  LET fits == {id \in Candidates(vlans, turn.key, conflicts) \ Range(matched) :
                 turn.exact => vlans[id].name = desired[turn.key].name}
  IN  IF turn.key \in DOMAIN matched \/ fits = {} THEN matched ELSE (turn.key :> Min(fits)) @@ matched
Match(vlans, desired, conflicts) ==
  LET keys == SetToSeq(DOMAIN desired)
      turns == [i \in 1..2 * Len(keys) |->
                  [exact |-> i <= Len(keys), key |-> keys[IF i <= Len(keys) THEN i ELSE i - Len(keys)]]]
  IN  FoldLeft(LAMBDA m, turn : FindVlan(vlans, desired, conflicts, m, turn), <<>>, turns)

VlanPlan(vlans, devices) ==
  LET observed == Observed(devices)
      desired == Desired(observed)
      matched == Match(vlans, desired, Conflicting(observed))
      old == [k \in DOMAIN matched |-> [name |-> vlans[matched[k]].name, data |-> vlans[matched[k]].data]]
  IN  [make_diff(desired, old, devices) EXCEPT !.delete = {}]

(* A device that was not parsed and a conflict are errors, the rest goes   *)
(* on.  NetBox is read after the devices.                                  *)
DiffVlans ==
  /\ At("vlans", "parse")
  /\ \E devices \in ParsedDevices :
       /\ CountParsed(devices)
       /\ errors' = (errors \/ devices # Known \/ Conflicting(Observed(devices)) # {})
       /\ seen' = Match(netbox.vlans, Desired(Observed(devices)), Conflicting(Observed(devices)))
       /\ Plan(VlanPlan(netbox.vlans, devices), IF devices = {} THEN "returned" ELSE "review")

VlansNotRead == task = "vlans" /\ ReadFails({"select", "start", "parse"})

(* Here a dry run comes before the review.                                 *)
Scopes == {k[1] : k \in plan.create \cup DOMAIN plan.update}
ReviewVlans ==
  /\ At("vlans", "review")
  /\ \E approved \in IF options.with_approval THEN BOOLEAN ELSE {TRUE} :
       Go(IF options.dry_run THEN "returned"
          ELSE IF ~approved THEN "skipped" ELSE IF Scopes = {} THEN "returned" ELSE "create")
  /\ todo' = Scopes
  /\ UNCHANGED <<arguments, task, seen, plan, outcome, planned, edits>>

-----------------------------------------------------------------------------
(* Scope by scope, first what is new, then what changes.  A group holds a  *)
(* vid and a name once.                                                    *)
CurrentScope == CHOOSE s \in todo : TRUE
UniqueInGroups(table) ==
  \A a, b \in DOMAIN table :
    a # b /\ table[a].scope = table[b].scope /\ table[a].scope \in netbox.groups
      => table[a].vid # table[b].vid /\ table[a].name # table[b].name
FreshVlan(table) == IF DOMAIN table = {} THEN 1 ELSE Max(DOMAIN table) + 1
NewVlan(k) == [scope |-> k[1], vid |-> k[2][1], name |-> plan.new[k].name, data |-> plan.new[k].data]
WithVlans(table, keys) ==
  LET new == SetToSeq(keys)
  IN  table @@ [id \in FreshVlan(table)..(FreshVlan(table) + Len(new) - 1) |-> NewVlan(new[id - FreshVlan(table) + 1])]
CreateVlans ==
  /\ At("vlans", "create")
  /\ LET keys == {k \in plan.create : k[1] = CurrentScope}
         table == WithVlans(netbox.vlans, keys)
     IN  IF keys = {} THEN UNCHANGED <<netbox, report, written, outcome, faults>>
         ELSE BareRequest(Entry("create", keys), UniqueInGroups(table), [netbox EXCEPT !.vlans = table])
  /\ step' = "update"
  /\ UNCHANGED <<arguments, task, seen, plan, todo, errors, planned, edits>>

UpdatedVlan(k) ==
  [f \in DOMAIN netbox.vlans[seen[k]] |->
     IF f \in plan.update[k] THEN plan.new[k][f] ELSE netbox.vlans[seen[k]][f]]
UpdateVlans ==
  /\ At("vlans", "update")
  /\ LET keys == {k \in DOMAIN plan.update : k[1] = CurrentScope}
         there == {k \in keys : seen[k] \in DOMAIN netbox.vlans}
         table == [id \in {seen[k] : k \in there} |-> UpdatedVlan(CHOOSE k \in there : seen[k] = id)]
                  @@ netbox.vlans
     IN  IF keys = {} THEN UNCHANGED <<netbox, report, written, outcome, faults>>
         ELSE BareRequest(Entry("update", keys), there = keys /\ UniqueInGroups(table),
                          [netbox EXCEPT !.vlans = table])
  /\ todo' = todo \ {CurrentScope}
  /\ step' = IF todo' = {} THEN "returned" ELSE "create"
  /\ UNCHANGED <<arguments, task, seen, plan, errors, planned, edits>>

SyncVlans ==
  SelectForVlans \/ ReadScopes \/ DiffVlans \/ VlansNotRead \/ ReviewVlans \/ CreateVlans \/ UpdateVlans

-----------------------------------------------------------------------------
(***************************************************************************)
(* create_prefix as a task of its own (workers/netbox_worker/              *)
(* prefix_tasks.py): find or make a subnet of a parent prefix, then bring  *)
(* its fields in line.  What is None is not asked for.  The subnets are a  *)
(* function of ids; a new one has nothing but its length.                  *)
(***************************************************************************)

Sought == options.prefix
Blank(length) == [length |-> length, description |-> None, vrf |-> None, site |-> None, tags |-> {}]

(* What is there already is found by VRF, site and description; without    *)
(* any of them a new subnet is made each time.                             *)
Filters == {f \in {"vrf", "site", "description"} : Sought[f] # None}
Existing ==
  {id \in DOMAIN netbox.subnets : Filters # {} /\ \A f \in Filters : netbox.subnets[id][f] = Sought[f]}
Refused ==
  \/ ~\E p \in netbox.parents : Sought.vrf \in {None, p.vrf}
  \/ Cardinality(Existing) > 1
  \/ \E id \in Existing : netbox.subnets[id].length # Sought.length
HasRoom == \E p \in netbox.parents : Cardinality(DOMAIN netbox.subnets) < p.room

(* Of the tags none is added when the subnet has one of them already.      *)
LacksTags(subnet) == Sought.tags # {} /\ Sought.tags \cap subnet.tags = {}
Differing(subnet) ==
  {f \in Filters : Sought[f] # subnet[f]} \cup IF LacksTags(subnet) THEN {"tags"} ELSE {}
InLine(subnet) ==
  [f \in DOMAIN subnet |->
     CASE f \notin Differing(subnet) -> subnet[f]
       [] f = "tags" -> subnet.tags \cup Sought.tags
       [] OTHER -> Sought[f]]
Update(subnet) == [k \in {x \in {"subnet"} : Differing(subnet) # {}} |-> Differing(subnet)]
PrefixPlan ==
  IF Existing = {} THEN [NoPlan EXCEPT !.create = {"subnet"}, !.update = Update(Blank(Sought.length))]
  ELSE [NoPlan EXCEPT !.update = Update(netbox.subnets[Min(Existing)])]

RefuseSubnet ==
  /\ At("prefix", "start")
  /\ Refused \/ (Existing = {} /\ options.dry_run /\ ~HasRoom)
  /\ Raise /\ UNCHANGED faults
FindSubnet ==
  /\ At("prefix", "start") /\ ~Refused
  /\ Existing = {} /\ options.dry_run => HasRoom
  /\ Plan(PrefixPlan, IF Existing # {} THEN "save" ELSE IF options.dry_run THEN "returned" ELSE "create")
  /\ seen' = [id \in Existing |-> netbox.subnets[id]]
  /\ UNCHANGED <<errors, faults>>
MakeSubnet ==
  /\ At("prefix", "create")
  /\ LET new == (1 + IF DOMAIN netbox.subnets = {} THEN 0 ELSE Max(DOMAIN netbox.subnets)) :> Blank(Sought.length)
     IN  /\ BareRequest(Entry("create", {"subnet"}), HasRoom, [netbox EXCEPT !.subnets = new @@ @])
         /\ seen' = new
  /\ step' = "save"
  /\ UNCHANGED <<arguments, task, plan, todo, errors, planned, edits>>

(* A site that is not there is noticed after the subnet was made.          *)
SiteIsMissing == "site" \in UNION {Differing(s) : s \in Range(seen)} /\ Sought.site \notin Range(netbox.sites)
NoSite == At("prefix", "save") /\ SiteIsMissing /\ Raise /\ UNCHANGED faults
SaveSubnet ==
  /\ At("prefix", "save") /\ ~SiteIsMissing
  /\ \E id \in DOMAIN seen :
       IF Differing(seen[id]) = {} \/ options.dry_run
       THEN UNCHANGED <<netbox, report, written, outcome, faults>>
       ELSE BareRequest(Entry("update", {"subnet"}), id \in DOMAIN netbox.subnets,
                        [netbox EXCEPT !.subnets = (id :> InLine(seen[id])) @@ @])
  /\ step' = "returned"
  /\ UNCHANGED <<arguments, task, seen, plan, todo, errors, planned, edits>>

CreatePrefix ==
  \/ RefuseSubnet \/ FindSubnet \/ MakeSubnet \/ NoSite \/ SaveSubnet
  \/ task = "prefix" /\ ReadFails({"start", "save"})
=============================================================================
