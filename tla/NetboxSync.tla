----------------------------- MODULE NetboxSync -----------------------------
(***************************************************************************)
(* What the tasks have in common by which the Netbox worker brings NetBox  *)
(* in line with the live network (workers/netbox_worker): read NetBox,     *)
(* have the nornir service parse the devices, compute what to create,      *)
(* update and delete, show it, and write it with one request after the     *)
(* other, any of which may fail while other people change NetBox.  The     *)
(* modules that extend this one are the tasks, SyncAll runs them in order. *)
(* An object is <<device, name>>.                                          *)
(***************************************************************************)
EXTENDS Naturals, FiniteSets, FiniteSetsExt, SequencesExt, Functions, TLC

CONSTANTS
  Cases,       \* what NetBox holds, what is live and the arguments of the job
  Alike,       \* pairs of VLANs that DeepDiff takes for a change of one another
  None,
  MaxFaults,   \* bound: requests and parsings that fail
  MaxEdits     \* bound: changes by others

VARIABLES
  netbox,      \* the tables of NetBox
  live,        \* what the devices report
  options,
  task, step,  \* the running task and how far it is
  seen,        \* what the task has read of NetBox
  plan,        \* full_diff, or the bulk lists of the task
  todo,        \* what is left in a step that writes object by object
  report,      \* device_results of all tasks: what the job says it wrote
  errors,      \* ret.errors is not empty
  outcome,     \* of the job: "running", "returned", "skipped" or "raised"
  written,     \* what the job did write
  planned,     \* all that was in a plan, and names in it that NetBox has twice
  faults, edits

arguments == <<live, options>>
job == <<task, step, seen, plan, todo, report, errors, outcome, written, planned>>
vars == <<netbox, arguments, job, faults, edits>>

NoPlan ==
  [create |-> {}, update |-> <<>>, delete |-> {}, in_sync |-> {}, new |-> <<>>, devices |-> {}]
Entry(action, keys) == {<<task, action, k>> : k \in keys}
Entries(p) ==
  Entry("create", p.create) \cup Entry("update", DOMAIN p.update) \cup Entry("delete", p.delete)
On(table, devices) == Restrict(table, {k \in DOMAIN table : k[1] \in devices})
Without(table, keys) == Restrict(table, DOMAIN table \ keys)

SyncTasks == {"inventory", "interfaces", "mac", "ip", "bgp", "vlans"}

Init ==
  /\ \E c \in Cases : netbox = c.netbox /\ live = c.live /\ options = c.options
  /\ task = Head(options.tasks) /\ step = IF task \in SyncTasks THEN "select" ELSE "start"
  /\ seen = <<>> /\ plan = NoPlan /\ todo = {}
  /\ report = {} /\ written = {} /\ planned = {}
  /\ errors = FALSE /\ outcome = "running"
  /\ faults = 0 /\ edits = 0

-----------------------------------------------------------------------------
(***************************************************************************)
(* make_diff.  Fields are compared one by one; of a list it sees items     *)
(* that were added, but neither those that went nor one that DeepDiff      *)
(* takes for a changed item.                                               *)
(***************************************************************************)
ListGrew(new, old) ==
  \E v \in new \ old : \A u \in old \ new : <<u, v>> \notin Alike
Changed(new, old) ==
  {f \in DOMAIN new : IF f = "tagged_vlans" THEN ListGrew(new[f], old[f]) ELSE new[f] # old[f]}
make_diff(new, old, devices) ==
  LET common == DOMAIN new \cap DOMAIN old
      update == {k \in common : Changed(new[k], old[k]) # {}}
  IN  [create |-> DOMAIN new \ DOMAIN old, delete |-> DOMAIN old \ DOMAIN new,
       update |-> [k \in update |-> Changed(new[k], old[k])],
       in_sync |-> common \ update, new |-> new, devices |-> devices]

(***************************************************************************)
(* The steps every task has.                                               *)
(***************************************************************************)
At(t, s) == outcome = "running" /\ task = t /\ step = s
Go(next) == step' = next /\ UNCHANGED <<netbox, report, errors, written, faults>>
Plan(p, next) ==
  /\ plan' = p /\ planned' = planned \cup Entries(p)
  /\ step' = next
  /\ UNCHANGED <<netbox, arguments, task, todo, report, outcome, written, edits>>
Known == options.devices \cap netbox.devices

(* get_nornir_hosts: the hosts that the filters of the call select, of the *)
(* nornir workers that answer; those that do not are not missed.           *)
SelectedHosts == IF faults < MaxFaults THEN SUBSET options.hosts ELSE {options.hosts}
SelectDevices ==
  /\ outcome = "running" /\ step = "select"
  /\ \E hosts \in SelectedHosts :
       /\ options' = [options EXCEPT !.devices = @ \cup hosts]
       /\ faults' = IF hosts = options.hosts THEN faults ELSE faults + 1
  /\ errors' = (errors \/ options'.devices = {})
  /\ step' = IF options'.devices = {} THEN "returned" ELSE "start"
  /\ UNCHANGED <<netbox, live, task, seen, plan, todo, report, outcome, written, planned, edits>>
Selecting(t) == task = t /\ options.tasks = <<t>> /\ SelectDevices
Groups == {r.group : r \in ToSet(options.vlan_map)} \cup ({options.vlan_group} \ {None})

(* Unknown devices are an error and left out; without any the task fails.  *)
ValidateDevices(next) ==
  /\ errors' = (errors \/ Known # options.devices)
  /\ step' = IF Known = {} THEN "returned" ELSE next
Raise ==
  /\ outcome' = "raised"
  /\ UNCHANGED <<netbox, arguments, task, step, seen, plan, todo, report, errors, written, planned, edits>>

(* NetBox does not answer a read, or the nornir job comes to nothing.      *)
ReadFails(steps) ==
  /\ outcome = "running" /\ step \in steps /\ faults < MaxFaults
  /\ Raise /\ faults' = faults + 1

(* The nornir job has results of some devices, all of them when all is well. *)
ParsedDevices == IF faults < MaxFaults THEN SUBSET Known ELSE {Known}
CountParsed(devices) == faults' = IF devices = Known THEN faults ELSE faults + 1

(* review_sync_task_result: the client that posted the job is asked; the   *)
(* plan is what it is shown.                                               *)
AlwaysWrites == FALSE                                           \* mutant
KeepsDryRun == options.dry_run /\ ~(task = "ip" /\ options.with_approval)
review_sync_task_result(next) ==
  /\ \E approved \in IF options.with_approval THEN BOOLEAN ELSE {TRUE} :
       Go(CASE ~approved -> "skipped"
            [] approved /\ KeepsDryRun -> "returned"
            [] OTHER -> next)
  /\ UNCHANGED <<arguments, task, seen, plan, todo, outcome, planned, edits>>

(* One request that writes: accepted and answered, refused, or carried out *)
(* with its answer lost.  An exception is taken as one error.              *)
(* A bay is reported under its slot, as a module is.                       *)
Reported(done) == {IF d[2] = "bay" THEN <<d[1], "create", d[3]>> ELSE d : d \in done}
ReportsAhead(done, accepted, new, next, otherwise) ==           \* mutant
  /\ report' = report \cup Reported(done)
  /\ \/ /\ accepted
        /\ netbox' = new /\ written' = written \cup done /\ step' = next
        /\ UNCHANGED <<errors, faults>>
     \/ /\ ~accepted \/ faults < MaxFaults
        /\ faults' = IF accepted THEN faults + 1 ELSE faults
        /\ errors' = TRUE /\ step' = otherwise
        /\ UNCHANGED <<netbox, written>>
Request(done, accepted, new, next, otherwise) ==
  \/ /\ accepted
     /\ netbox' = new /\ written' = written \cup done
     /\ report' = report \cup Reported(done)
     /\ step' = next
     /\ UNCHANGED <<errors, faults>>
  \/ /\ ~accepted \/ faults < MaxFaults
     /\ faults' = IF accepted THEN faults + 1 ELSE faults
     /\ errors' = TRUE /\ step' = otherwise
     /\ UNCHANGED <<netbox, report, written>>
  \/ /\ accepted /\ faults < MaxFaults
     /\ faults' = faults + 1
     /\ netbox' = new /\ written' = written \cup done
     /\ errors' = TRUE /\ step' = otherwise
     /\ UNCHANGED report
BulkRequest(done, accepted, new, next, otherwise) ==
  /\ IF done = {} THEN Go(next) ELSE Request(done, accepted, new, next, otherwise)
  /\ UNCHANGED <<arguments, task, seen, plan, todo, outcome, planned, edits>>

(* A request that no one guards: it fails, or its answer is lost, and the  *)
(* task raises.                                                            *)
BareRequest(done, accepted, new) ==
  \/ /\ accepted
     /\ netbox' = new /\ written' = written \cup done /\ report' = report \cup done
     /\ UNCHANGED <<outcome, faults>>
  \/ /\ ~accepted \/ faults < MaxFaults
     /\ faults' = IF accepted THEN faults + 1 ELSE faults
     /\ outcome' = "raised"
     /\ UNCHANGED <<netbox, report, written>>
  \/ /\ accepted /\ faults < MaxFaults
     /\ faults' = faults + 1 /\ outcome' = "raised"
     /\ netbox' = new /\ written' = written \cup done
     /\ UNCHANGED report

(* A step that writes object by object goes on after an error.             *)
ObjectRequest(object, done, accepted, new) ==
  /\ Request(done, accepted, new, step, step)
  /\ todo' = todo \ {object}
  /\ UNCHANGED <<arguments, task, plan, outcome, planned, edits>>
PassOver(object) ==
  /\ todo' = todo \ {object} /\ errors' = TRUE
  /\ UNCHANGED <<netbox, arguments, task, step, seen, plan, report, outcome, written, planned, faults, edits>>
NextStep(objects, next) ==
  /\ todo = {} /\ todo' = objects /\ step' = next
  /\ UNCHANGED <<netbox, arguments, task, seen, plan, report, errors, outcome, written, planned, faults, edits>>
=============================================================================
