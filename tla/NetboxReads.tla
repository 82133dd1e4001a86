---------------------------- MODULE NetboxReads ----------------------------
(***************************************************************************)
(* The reads with a cache (workers/netbox_worker): get_devices, get_circuits*)
(* and get_bgp_peerings.  A job here is a row of calls on one worker; seen *)
(* is what they leave in the cache, and the call that runs.  A record is   *)
(* a device, circuit or session; its version stands for last_updated and   *)
(* all its data, "on" for the devices it is on.                            *)
(***************************************************************************)
EXTENDS NetboxSync

Reads == {"get devices", "get circuits", "get bgp"}
Call == options.calls[seen.call]
Asked == {r \in Range(netbox.records) : r.on \cap Call.devices # {}}
ByName(records) == [n \in {r.name : r \in records} |-> CHOOSE r \in records : r.name = n]
Began == [call |-> 1, cache |-> <<>>, result |-> {}, before |-> netbox.records, cached |-> <<>>, fetch |-> {}]

StartReads ==
  /\ task \in Reads /\ At(task, "start")
  /\ seen' = Began /\ step' = "call"
  /\ UNCHANGED <<netbox, arguments, task, plan, todo, report, errors, outcome, written, planned, faults, edits>>

(* One step of a call.                                                     *)
ReadStep(new, left, next) ==
  /\ seen' = new /\ todo' = left /\ step' = next
  /\ UNCHANGED <<netbox, arguments, task, plan, report, outcome, written, planned, faults, edits>>
NextCall ==
  /\ task \in Reads /\ At(task, "answered")
  /\ IF seen.call < Len(options.calls)
     THEN ReadStep([seen EXCEPT !.call = @ + 1, !.result = {}, !.before = netbox.records], {}, "call")
     ELSE ReadStep(seen, {}, "returned")
  /\ UNCHANGED errors

(* An entry expires, or cache_clear removes it; an expired one that is     *)
(* asked for raises, which is a read that fails.                           *)
Expire ==
  /\ task \in Reads /\ At(task, "call")
  /\ \E k \in DOMAIN seen.cache : ReadStep([seen EXCEPT !.cache = Without(@, {k})], todo, step)
  /\ UNCHANGED errors

-----------------------------------------------------------------------------
(* get_devices and get_circuits: with True and "force" NetBox is asked what *)
(* there is and when it changed, then for all that the cache does not have. *)
(* A device that has changed is among it; a circuit that has is not, and is *)
(* left out.                                                               *)
UsesCache == Call.cache \in {"true", "force"}
UpToDate(records) ==
  IF Call.cache = "force" THEN records
  ELSE {r \in records : r \in Range(netbox.records)}
Cached == UpToDate({seen.cache[n] : n \in {r.name : r \in Asked} \cap DOMAIN seen.cache})
Unknown(records) ==
  IF task = "get circuits" THEN {r.name : r \in records} \ DOMAIN seen.cache
  ELSE {r.name : r \in records} \ {r.name : r \in Cached}
LookInCache ==
  /\ task \in {"get devices", "get circuits"} /\ At(task, "call")
  /\ CASE options.dry_run -> ReadStep(seen, {}, "answered")
       [] UsesCache /\ ~options.dry_run -> ReadStep([seen EXCEPT !.result = Cached], Unknown(Asked), "fetch")
       [] OTHER -> ReadStep(seen, {r.name : r \in Asked}, "fetch")
  /\ UNCHANGED errors
KeptInCache(records) == IF Call.cache = "false" THEN seen.cache ELSE ByName(records) @@ seen.cache
Fetch ==
  /\ task \in {"get devices", "get circuits"} /\ At(task, "fetch")
  /\ LET fetched == {r \in Range(netbox.records) : r.name \in todo}
     IN  ReadStep([seen EXCEPT !.result = @ \cup fetched, !.cache = KeptInCache(fetched)], {}, "answered")
  /\ UNCHANGED errors

-----------------------------------------------------------------------------
(* get_bgp_peerings, device by device: with True it asks which sessions    *)
(* there are, takes those that are gone out of what was cached and fetches *)
(* those that are new or have changed.  A session that was renamed keeps   *)
(* its entry under the old name.                                           *)
OnDevice(d) == {r \in Range(netbox.records) : d \in r.on}
Answered(device, sessions) ==
  [seen EXCEPT !.result = @ \cup Range(sessions),
     !.cache = IF Call.cache = "false" THEN @ ELSE (device :> sessions) @@ @]
StartSessions ==
  /\ At("get bgp", "call")
  /\ ReadStep(seen, Call.devices \cap netbox.devices, "device")
  /\ errors' = (errors \/ ~(Call.devices \subseteq netbox.devices))
QuerySessions ==
  /\ At("get bgp", "device")
  /\ \E d \in todo :
       /\ Call.cache \in {"false", "refresh"} \/ d \notin DOMAIN seen.cache
       /\ ReadStep(Answered(d, ByName(OnDevice(d))), todo \ {d}, "device")
  /\ UNCHANGED errors
ForceSessions ==
  /\ At("get bgp", "device") /\ Call.cache = "force"
  /\ \E d \in todo \cap DOMAIN seen.cache : ReadStep(Answered(d, seen.cache[d]), todo \ {d}, "device")
  /\ UNCHANGED errors
CompareSessions ==
  /\ At("get bgp", "device") /\ Call.cache = "true"
  /\ \E d \in todo \cap DOMAIN seen.cache :
       LET cached == seen.cache[d]
           there == {r.id : r \in OnDevice(d)}
           kept == {n \in DOMAIN cached : cached[n].id \in there}
           stale == {cached[n].id : n \in {m \in kept : cached[m] \notin UpToDate({cached[m]})}}
           new == there \ {cached[n].id : n \in DOMAIN cached}
       IN  ReadStep([seen EXCEPT !.cached = d :> Restrict(cached, kept), !.fetch = stale \cup new], todo, "fetch")
  /\ UNCHANGED errors
FetchSessions ==
  /\ At("get bgp", "fetch")
  /\ \E d \in DOMAIN seen.cached :
       LET fetched == {r \in Range(netbox.records) : r.id \in seen.fetch}
       IN  ReadStep(Answered(d, ByName(fetched) @@ seen.cached[d]), todo \ {d}, "device")
  /\ UNCHANGED errors
EndSessions ==
  /\ At("get bgp", "device") /\ todo = {}
  /\ ReadStep(seen, {}, "answered") /\ UNCHANGED errors

ReadRecords ==
  \/ StartReads \/ NextCall \/ Expire
  \/ LookInCache \/ Fetch
  \/ StartSessions \/ QuerySessions \/ ForceSessions \/ CompareSessions \/ FetchSessions \/ EndSessions
  \/ task \in Reads /\ ReadFails({"call", "device", "fetch"})
=============================================================================
