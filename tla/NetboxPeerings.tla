--------------------------- MODULE NetboxPeerings ---------------------------
(***************************************************************************)
(* sync_bgp_peerings with get_bgp_peerings, create_bgp_peering and         *)
(* update_bgp_peering (workers/netbox_worker/bgp_peerings_tasks.py).       *)
(* Sessions are compared by their identity (the addresses and AS numbers,  *)
(* here <<device, peer>>) and written by their name, which NetBox does not *)
(* keep unique.  Creation and update are jobs of their own too: sessions   *)
(* for addresses or interfaces, each with its mirror on the device of the  *)
(* other end, and updates of sessions by name.                             *)
(***************************************************************************)
EXTENDS NetboxSync

(* get_bgp_peerings: sessions by name, so one of several with the same     *)
(* name on a device; an unknown device is an error and ends the task.      *)
Same(table, j, k) == j[1] = k[1] /\ table[j].name = table[k].name
OnePerName(table) ==
  {Restrict(table, kept) : kept \in
     {K \in SUBSET DOMAIN table : \A k \in DOMAIN table : Cardinality({j \in K : Same(table, j, k)}) = 1}}
SelectForBgp == Selecting("bgp")
ReadSessions ==
  /\ At("bgp", "start")
  /\ seen' \in OnePerName(On(netbox.sessions, Known))
  /\ errors' = (errors \/ Known # options.devices)
  /\ step' = IF Known = options.devices THEN "parse" ELSE "returned"
  /\ UNCHANGED <<netbox, arguments, task, plan, todo, report, outcome, written, planned, faults, edits>>
SessionsNotRead == task = "bgp" /\ ReadFails({"select", "start", "parse", "resolve", "find", "update", "deletions"})

(* Live sessions whose local address is not found are left out silently,   *)
(* those whose name cannot be rendered with an error.                      *)
Comparables(devices) ==
  Without(On(live.sessions, devices), live.unaddressed \cup live.unnamed)
bgp_session_matches_filters(table) ==
  Restrict(table, {k \in DOMAIN table :
                     k[2] \in options.filter_by_remote_as /\ table[k].data \in options.filter_by_description})

(* Devices that were not parsed keep their side of NetBox in the diff.     *)
BgpPlan(nb, devices) ==
  make_diff(bgp_session_matches_filters(Comparables(devices)),
            bgp_session_matches_filters(nb), devices)
DiffSessions ==
  /\ At("bgp", "parse")
  /\ \E devices \in ParsedDevices :
       /\ CountParsed(devices)
       /\ Plan(BgpPlan(seen, devices), "review")
       /\ errors' = (errors \/ \E k \in live.unnamed : k[1] \in devices)
  /\ UNCHANGED seen
ReviewSessions == At("bgp", "review") /\ review_sync_task_result("creates")

(* Without anything to create or to update the tasks are not called.       *)
CallCreate ==
  /\ At("bgp", "creates")
  /\ Go(IF plan.create = {} THEN "updates" ELSE "resolve")
  /\ UNCHANGED <<arguments, task, seen, plan, todo, outcome, planned, edits>>
CallUpdate ==
  /\ At("bgp", "updates")
  /\ Go(IF plan.update = <<>> THEN "deletions" ELSE "find")
  /\ UNCHANGED <<arguments, task, seen, plan, todo, outcome, planned, edits>>

(* create_bgp_peering: a name that a device of these sessions already has  *)
(* is "exists", without an error; when those names cannot be read, none    *)
(* is.  An address or AS number that cannot be resolved is an error.       *)
TakenNames ==
  {netbox.sessions[k].name : k \in {j \in DOMAIN netbox.sessions : \E c \in plan.create : c[1] = j[1]}}
Fresh(taken) == {k \in plan.create : plan.new[k].name \notin taken}
ResolveSessions ==
  /\ At("bgp", "resolve") /\ step' = "create"
  /\ \/ /\ todo' = Fresh(TakenNames)
        /\ UNCHANGED <<errors, faults>>
     \/ /\ faults < MaxFaults /\ faults' = faults + 1
        /\ \/ todo' = plan.create /\ UNCHANGED errors
           \/ todo' \in SUBSET Fresh(TakenNames) \ {Fresh(TakenNames)} /\ errors' = TRUE
  /\ UNCHANGED <<netbox, arguments, task, seen, plan, report, outcome, written, planned, edits>>

(* NetBox has an identity once.                                            *)
CreateSessions ==
  /\ At("bgp", "create")
  /\ BulkRequest(Entry("create", todo), todo \cap DOMAIN netbox.sessions = {},
                 [netbox EXCEPT !.sessions = Restrict(plan.new, todo) @@ @], "updates", "updates")

(* update_bgp_peering finds the sessions by name, in the whole of NetBox,  *)
(* one for each name, and compares again.                                  *)
Named(name) == {k \in DOMAIN netbox.sessions : netbox.sessions[k].name = name}
OldName(k) == seen[k].name
Differs(k, target) ==
  \E f \in plan.update[k] : netbox.sessions[target][f] # plan.new[k][f]
Ambiguous(keys) == Entry("ambiguous", {k \in keys : Cardinality(Named(OldName(k))) > 1})
FindSessions ==
  /\ At("bgp", "find") \/ At("update bgp", "find")
  /\ step' = IF task = "update bgp" /\ options.dry_run THEN "returned" ELSE "update"
  /\ LET found == {k \in DOMAIN plan.update : Named(OldName(k)) # {}}
         pairs == {p \in found \X DOMAIN netbox.sessions : p[2] \in Named(OldName(p[1]))}
         names == {OldName(k) : k \in found}
     IN  /\ \E pick \in [names -> pairs] :
              /\ \A n \in names : OldName(pick[n][1]) = n
              /\ todo' = {p \in {pick[n] : n \in names} : Differs(p[1], p[2])}
         /\ errors' = (errors \/ found # DOMAIN plan.update)
         /\ planned' = planned \cup Ambiguous(found)
  /\ UNCHANGED <<netbox, arguments, task, seen, plan, report, outcome, written, faults, edits>>
AfterUpdate == IF task = "bgp" THEN "deletions" ELSE "returned"

(* resolve_bgp_session_payload_fields: a value whose object cannot be made *)
(* is an error and left out, but the session counts as updated.            *)
LeaveField ==
  /\ At("bgp", "update") \/ At("update bgp", "update")
  /\ faults < MaxFaults /\ faults' = faults + 1
  /\ \E p \in todo : "data" \in plan.update[p[1]] /\ plan' = [plan EXCEPT !.update[p[1]] = @ \ {"data"}]
  /\ errors' = TRUE
  /\ UNCHANGED <<netbox, arguments, task, step, seen, todo, report, outcome, written, planned, edits>>
UpdateSessions ==
  /\ At("bgp", "update") \/ At("update bgp", "update")
  /\ LET of(target) == CHOOSE p \in todo : p[2] = target
         targets == {p[2] : p \in todo}
         field(t, f) == IF t \in targets /\ f \in plan.update[of(t)[1]] THEN plan.new[of(t)[1]][f]
                        ELSE netbox.sessions[t][f]
     IN  BulkRequest(Entry("update", {p[1] : p \in todo}), targets \subseteq DOMAIN netbox.sessions,
           [netbox EXCEPT !.sessions = [t \in DOMAIN @ |-> [f \in DOMAIN @[t] |-> field(t, f)]]],
           AfterUpdate, AfterUpdate)

(* Deletions too go by name.                                               *)
SessionsToDelete == UNION {Named(OldName(k)) : k \in plan.delete}
ToSessionDeletions ==
  /\ At("bgp", "deletions") /\ step' = "deleting"
  /\ todo' = IF options.process_deletions THEN SessionsToDelete ELSE {}
  /\ planned' = planned \cup Ambiguous(plan.delete)
  /\ UNCHANGED <<netbox, arguments, task, seen, plan, report, errors, outcome, written, faults, edits>>
DeleteSession ==
  /\ At("bgp", "deleting")
  /\ \E k \in todo :
       ObjectRequest(k, Entry("delete", {k}), k \in DOMAIN netbox.sessions,
                     [netbox EXCEPT !.sessions = Without(@, {k})])
  /\ UNCHANGED seen
SessionsDone == At("bgp", "deleting") /\ NextStep({}, "returned")

SyncBgpPeerings ==
  \/ SelectForBgp \/ ReadSessions \/ SessionsNotRead \/ DiffSessions \/ ReviewSessions
  \/ CallCreate \/ ResolveSessions \/ CreateSessions \/ CallUpdate
  \/ FindSessions \/ LeaveField \/ UpdateSessions
  \/ ToSessionDeletions \/ DeleteSession \/ SessionsDone

-----------------------------------------------------------------------------
(* create_bgp_peering and update_bgp_peering as jobs of their own.         *)

(* CreateBgpPeeringInput, BgpSessionBulkCreateFields: what the input model *)
(* lets through.                                                           *)
Admissible(r, bulk) ==
  r.interfaces # {} \/ (r.local # None /\ (bulk => r.remote # None))
RequestsAreAdmissible ==
  \A r \in options.requests : Admissible(r, Cardinality(options.requests) > 1)

(* A session is given by its addresses, or by an interface, of which the   *)
(* first address counts and, on a point to point link, gives the peer.     *)
AddressesOf(device, interface) == {i \in DOMAIN netbox.ips : netbox.ips[i].interface = <<device, interface>>}
LocalOf(device, interface) == netbox.ips[Min(AddressesOf(device, interface))].address
get_p2p_peer_ip(address) == options.links[address]
RemoteOf(r, local) == IF r.remote # None THEN r.remote ELSE get_p2p_peer_ip(local)
PeeringOf(r, local, remote) ==
  [device |-> r.device, local |-> local, remote |-> remote, name |-> r.name,
   local_as |-> r.local_as, remote_as |-> r.remote_as, remote_device |-> None, mirrors |-> None]
Usable(r) ==
  {i \in r.interfaces : AddressesOf(r.device, i) # {} /\ RemoteOf(r, LocalOf(r.device, i)) # None}
Peerings(r) ==
  IF r.interfaces # {}
  THEN {PeeringOf(r, LocalOf(r.device, i), RemoteOf(r, LocalOf(r.device, i))) : i \in Usable(r)}
  ELSE IF r.remote = None THEN {} ELSE {PeeringOf(r, r.local, r.remote)}
Unusable(r) == IF r.interfaces # {} THEN Usable(r) # r.interfaces ELSE r.remote = None
ReadPeerings ==
  /\ At("create bgp", "start") /\ RequestsAreAdmissible
  /\ seen' = [sessions |-> UNION {Peerings(r) : r \in options.requests}, addresses |-> <<>>, devices |-> {}]
  /\ errors' = (errors \/ \E r \in options.requests : Unusable(r))
  /\ step' = "preseed"
  /\ UNCHANGED <<netbox, arguments, task, plan, todo, report, outcome, written, planned, faults, edits>>

(* preseed_bgp_lookup_cache: of several objects of an address the last one *)
(* counts; when NetBox does not answer nothing is known, without an error. *)
AddressObjects(sessions) ==
  LET asked == {s.local : s \in sessions} \cup {s.remote : s \in sessions}
      found == {i \in DOMAIN netbox.ips : netbox.ips[i].address \in asked}
  IN  [a \in {netbox.ips[i].address : i \in found} |->
         netbox.ips[Max({i \in found : netbox.ips[i].address = a})].interface]
AsksFor(sessions, addresses) ==
  {s.device : s \in sessions} \cup {at[1] : at \in Range(addresses) \ {None}}
Preseed ==
  /\ At("create bgp", "preseed") /\ step' = "mirror"
  /\ \/ /\ LET addresses == AddressObjects(seen.sessions)
           IN  seen' = [seen EXCEPT !.addresses = addresses,
                          !.devices = AsksFor(seen.sessions, addresses) \cap netbox.devices]
        /\ UNCHANGED faults
     \/ /\ faults < MaxFaults /\ faults' = faults + 1
        /\ UNCHANGED seen
  /\ UNCHANGED <<netbox, arguments, task, plan, todo, report, errors, outcome, written, planned, edits>>

(* _remote_device_from_ip; the mirror has no name of its own.              *)
RemoteDevice(s) ==
  IF s.remote \notin DOMAIN seen.addresses \/ seen.addresses[s.remote] = None THEN None
  ELSE seen.addresses[s.remote][1]
Mirror(s) ==
  [device |-> RemoteDevice(s), local |-> s.remote, remote |-> s.local, name |-> None,
   local_as |-> s.remote_as, remote_as |-> s.local_as, remote_device |-> s.device, mirrors |-> s]
Mirrors(sessions) == {Mirror(s) : s \in {t \in sessions : RemoteDevice(t) # None}}
MirrorPeerings ==
  /\ At("create bgp", "mirror") /\ step' = "names"
  /\ IF options.create_reverse
     THEN /\ seen' = [seen EXCEPT !.sessions = @ \cup Mirrors(@)]
          /\ errors' = (errors \/ \E s \in seen.sessions : RemoteDevice(s) = None)
     ELSE UNCHANGED <<seen, errors>>
  /\ UNCHANGED <<netbox, arguments, task, plan, todo, report, outcome, written, planned, faults, edits>>

-----------------------------------------------------------------------------
(* A name is rendered from the device, so it must be known.  Two sessions  *)
(* of a job may have the same name or the same identity.                   *)
PeerKey(s) == <<s.device, s.remote>>
CanBeNamed(s) == s.name # None \/ s.device \in seen.devices
NameOf(s) == IF s.name # None THEN s.name ELSE options.template[PeerKey(s)]
NamesOn(devices) == {netbox.sessions[k].name : k \in {j \in DOMAIN netbox.sessions : j[1] \in devices}}
Unnamed(sessions, taken) == {s \in sessions : CanBeNamed(s) /\ NameOf(s) \notin taken}
CreatePlan(sessions) ==
  [NoPlan EXCEPT !.create = {PeerKey(s) : s \in sessions},
     !.new = [k \in {PeerKey(s) : s \in sessions} |->
                LET s == CHOOSE t \in sessions : PeerKey(t) = k IN [name |-> NameOf(s), data |-> options.payload.data]]]
NameSessions ==
  /\ At("create bgp", "names")
  /\ \E answered \in BOOLEAN :
       /\ ~answered => faults < MaxFaults
       /\ faults' = IF answered THEN faults ELSE faults + 1
       /\ LET devices == {s.device : s \in seen.sessions} \cup ({s.remote_device : s \in seen.sessions} \ {None})
              new == Unnamed(seen.sessions, IF answered THEN NamesOn(devices) ELSE {})
          IN  /\ Plan(CreatePlan(new), IF options.dry_run THEN "returned" ELSE "resolve")
              /\ seen' = [seen EXCEPT !.sessions = new]
  /\ errors' = (errors \/ \E s \in seen.sessions : ~CanBeNamed(s))

(* resolve_asn_from_source: the AS number of a device comes from its data; *)
(* for the other end only the mirror knows the device.                     *)
FromSource(device) == IF device \in seen.devices THEN options.asn_of[device] ELSE None
LocalAs(s) == IF s.local_as = None /\ options.asn_source THEN FromSource(s.device) ELSE s.local_as
RemoteAs(s) ==
  IF s.remote_as # None \/ ~options.asn_source THEN s.remote_as
  ELSE IF s.remote_device = None THEN None ELSE FromSource(s.remote_device)
(* resolve_asn: without a registry (RIR) a number that is not there is an  *)
(* error, otherwise it is created.                                         *)
Asns(s) == {LocalAs(s), RemoteAs(s)}
HasAsns(s) == None \notin Asns(s) /\ (options.rir \/ Asns(s) \subseteq netbox.asns)
Resolvable(s) == HasAsns(s) /\ s.device \in seen.devices

(* A read that fails here ends the task, an object that cannot be created  *)
(* leaves out its sessions.                                                *)
ResolvePeerings ==
  /\ At("create bgp", "resolve") /\ step' = "create"
  /\ LET ready == {s \in seen.sessions : Resolvable(s)}
     IN  \E sessions \in IF faults < MaxFaults THEN SUBSET ready ELSE {ready} :
           /\ todo' = sessions
           /\ faults' = IF sessions = ready THEN faults ELSE faults + 1
           /\ errors' = (errors \/ sessions # seen.sessions)
           /\ netbox' = [netbox EXCEPT !.asns = @ \cup UNION {Asns(s) : s \in sessions}]
  /\ UNCHANGED <<arguments, task, seen, plan, report, outcome, written, planned, edits>>
PostPeerings ==
  /\ At("create bgp", "create")
  /\ LET keys == {PeerKey(s) : s \in todo}
     IN  BulkRequest(Entry("create", keys),
           Cardinality(keys) = Cardinality(todo) /\ keys \cap DOMAIN netbox.sessions = {},
           [netbox EXCEPT !.sessions = Restrict(plan.new, keys) @@ @], "returned", "returned")
PeeringsNotRead == task = "create bgp" /\ ReadFails({"start", "resolve"})

CreateBgpPeering ==
  ReadPeerings \/ Preseed \/ MirrorPeerings \/ NameSessions \/ ResolvePeerings \/ PostPeerings \/ PeeringsNotRead

-----------------------------------------------------------------------------
(* update_bgp_peering: each entry names a session and what it should have. *)
(* FindSessions, LeaveField and UpdateSessions do the rest.                *)
EntryKey(name) == <<"session", name>>
UpdatePlan(entries) ==
  [NoPlan EXCEPT !.update = [k \in {EntryKey(e.name) : e \in entries} |-> {"data"}],
     !.new = [k \in {EntryKey(e.name) : e \in entries} |-> [data |-> options.payload.data]]]
StartUpdates ==
  /\ At("update bgp", "start")
  /\ Plan(UpdatePlan(options.requests), "find")
  /\ seen' = [k \in {EntryKey(e.name) : e \in options.requests} |-> [name |-> k[2]]]
  /\ UNCHANGED <<errors, faults>>
UpdateBgpPeering ==
  StartUpdates \/ (task = "update bgp" /\ ReadFails({"start", "find", "update"}))
=============================================================================
