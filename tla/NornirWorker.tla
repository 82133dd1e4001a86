---------------------------- MODULE NornirWorker ----------------------------
(***************************************************************************)
(* A Nornir worker: the threads that run its jobs, the inventory and the   *)
(* host objects they share, the connections that hosts keep open between   *)
(* jobs, and the watchdog that closes what is idle                         *)
(* (workers/nornir_worker/).                                               *)
(*                                                                         *)
(* A host object is a pair of a name and a number, since a host that is    *)
(* created again is another object.  What a job renders for a host is left *)
(* in the object (host.data["__task__"]), and the nornir library remembers *)
(* which hosts failed and leaves them out of further runs.  A job's name   *)
(* stands for what it sends.                                               *)
(***************************************************************************)
EXTENDS Naturals, Sequences, FiniteSets, Functions, TLC

CONSTANTS
  Hosts, Jobs,
  Plans,             \* what the jobs are: the task, its hosts, the calls it makes, dry run or not
  File, Netbox, Lab, \* hosts each source of the inventory has
  Timeouts,          \* values of connections_idle_timeout: "none", "zero", "some"
  Nobody,
  MaxFaults          \* bound: hosts that fail, templates or sources that cannot be read

Calls == {"cli", "cfg", "file_copy", "snmp", "task"}
InventoryTasks == {"refresh", "load lab", "create", "delete", "from netbox"}
Plugin(call) == IF call = "snmp" THEN "puresnmp" ELSE IF call = "task" THEN "ncclient" ELSE "netmiko"
Renders(call) == call \in {"cli", "cfg"}
IsNoted(plugin) == plugin # "ncclient"
Watchdog == "watchdog"

Plan == [task : STRING, hosts : SUBSET Hosts, calls : Seq(Calls), dry : BOOLEAN, replace : BOOLEAN]
ASSUME SourcesAssumption ==
  /\ File \cup Netbox \cup Lab \subseteq Hosts
  /\ Nobody \notin Jobs /\ Watchdog \notin Jobs \cup {Nobody}
ASSUME PlansAssumption ==
  /\ Plans \subseteq [Jobs -> Plan]
  /\ \A p \in Plans, j \in Jobs :
       /\ p[j].task \in Calls => p[j].calls = <<p[j].task>>
       /\ p[j].task \notin InventoryTasks => p[j].calls # <<>>

VARIABLES
  idle_timeout,  \* of the worker, it never changes
  (* Nornir *)
  inventory,     \* of each host: the number of its object in self.nr, 0: not there
  born,          \* of each host: the number of its latest object
  nr,            \* the number of the Nornir instance
  failed,        \* of each instance: its data.failed_hosts
  slot,          \* of each object: its data["__task__"], if any
  open,          \* connections that are open: pairs of an object and a plugin
  (* the worker *)
  lock,          \* connections_lock: who holds it
  noted,         \* connections_data: pairs of host and plugin, "fresh" or "old"
  known,         \* nornir_worker_inventory: its hosts
  closing,       \* of each job and the watchdog: what connections_clean is to close
  patrol,        \* where the watchdog is
  (* the jobs *)
  plan,          \* what they are, it never changes
  step, calls,   \* of each: where it is, the calls still to come, the current one first
  mine,          \* of each: the objects its filter found
  instance,      \* of each: the instance it got them from
  todo,          \* of each: objects still to come in the loop it is in
  wrong,         \* of each: hosts that failed
  outcome,       \* of each: "", "good", "bad", "no match", "raised"
  (* history and bounds *)
  matched, sent, \* of each job: hosts its filter found first; what hosts were sent
  met,           \* jobs that ran next to one that can get in their way
  overlapped,    \* jobs have run at the same time
  ever_failed, faults

vars == <<idle_timeout, inventory, born, nr, failed, slot, open, lock, noted, known, closing, patrol,
          plan, step, calls, mine, instance, todo, wrong, outcome,
          matched, sent, met, overlapped, ever_failed, faults>>
hosts == <<inventory, born, nr>>
progress == <<calls, mine, instance, todo, wrong, outcome>>
history == <<matched, sent, met, overlapped, ever_failed>>
fixed == <<idle_timeout, plan>>

HostOf(object) == object[1]
Object(h) == <<h, inventory[h]>>
Present == {h \in Hosts : inventory[h] # 0}
Running == {j \in Jobs : step[j] \notin {"idle", "done"}}
Without(f, keys) == [k \in DOMAIN f \ keys |-> f[k]]
With(f, key, value) == [k \in DOMAIN f \cup {key} |-> IF k = key THEN value ELSE f[k]]
IsInventoryJob(j) == plan[j].task \in InventoryTasks

Init ==
  /\ idle_timeout \in Timeouts
  /\ plan \in Plans
  /\ known = File \cup Netbox \cup Lab
  /\ inventory = [h \in Hosts |-> IF h \in known THEN 1 ELSE 0]
  /\ born = [h \in Hosts |-> 1]
  /\ nr = 1 /\ failed = <<{}>>
  /\ slot = <<>> /\ open = {} /\ noted = <<>>
  /\ lock = Nobody /\ patrol = "clean"
  /\ closing = [a \in Jobs \cup {Watchdog} |-> {}]
  /\ step = [j \in Jobs |-> "idle"]
  /\ calls = [j \in Jobs |-> <<>>]
  /\ mine = [j \in Jobs |-> {}]
  /\ instance = [j \in Jobs |-> 0]
  /\ todo = [j \in Jobs |-> {}]
  /\ wrong = [j \in Jobs |-> {}]
  /\ outcome = [j \in Jobs |-> ""]
  /\ matched = [j \in Jobs |-> {}] /\ sent = [j \in Jobs |-> {}]
  /\ met = {} /\ overlapped = FALSE /\ ever_failed = {} /\ faults = 0

-----------------------------------------------------------------------------
Step(j, next) == step' = [step EXCEPT ![j] = next]
Ends(j, result) ==
  /\ Step(j, "done")
  /\ outcome' = [outcome EXCEPT ![j] = result]
Fault == faults < MaxFaults /\ faults' = faults + 1

(* Two jobs get in each other's way if they want the same host, or if one  *)
(* changes the inventory while the other filters it more than once.        *)
Wanted(j) == IF plan[j].task = "parse_textfsm" THEN Hosts ELSE plan[j].hosts
Meets(j, k) ==
  IF IsInventoryJob(j) \/ IsInventoryJob(k)
  THEN plan[j].task \notin Calls /\ plan[k].task \notin Calls
  ELSE Wanted(j) \cap Wanted(k) # {}
FirstStep(task) ==
  CASE task = "refresh" -> "load"
    [] task = "load lab" -> "lab"
    [] task \in {"create", "delete"} -> "change"
    [] task = "from netbox" -> "pull"
    [] task \in Calls -> "filter"
    [] OTHER -> "check"
Start(j) ==
  /\ step[j] = "idle"
  /\ Step(j, FirstStep(plan[j].task))
  /\ calls' = [calls EXCEPT ![j] = plan[j].calls]
  /\ met' = met \cup UNION {{j, k} : k \in {k \in Running : Meets(j, k)}}
  /\ overlapped' = (overlapped \/ Running # {})
  /\ UNCHANGED <<fixed, hosts, failed, slot, open, lock, noted, known, closing, patrol,
                 mine, instance, todo, wrong, outcome, matched, sent, ever_failed, faults>>

(* filter_hosts_and_validate: failed hosts get another chance.             *)
KeepsFailed == UNCHANGED failed                                 \* mutant
ResetFailed == failed' = [failed EXCEPT ![nr] = {}]
Matching(names) == {h \in names : inventory[h] # 0}

(* parse_textfsm, parse_ttp and test look whether there is a host at all   *)
(* and then make one or several calls of cli and the like; parse_textfsm   *)
(* has lost the filter by then.                                            *)
Check(j) ==
  /\ step[j] = "check"
  /\ ResetFailed
  /\ matched' = [matched EXCEPT ![j] = Matching(plan[j].hosts)]
  /\ IF Matching(plan[j].hosts) = {}
     THEN Ends(j, "no match")
     ELSE Step(j, "filter") /\ UNCHANGED outcome
  /\ UNCHANGED <<fixed, hosts, slot, open, lock, noted, known, closing, patrol,
                 calls, mine, instance, todo, wrong, sent, met, overlapped, ever_failed, faults>>

(* cli, cfg, file_copy, the SNMP tasks, and task - on which network,       *)
(* netconf and parse_napalm rest - begin alike.  A call that finds no host *)
(* is an empty result to those that make several.                          *)
AfterFilter(call) == IF Renders(call) THEN "render" ELSE "lock"
Filter(j) ==
  LET found == Matching(Wanted(j))
  IN  /\ step[j] = "filter"
      /\ ResetFailed
      /\ mine' = [mine EXCEPT ![j] = {Object(h) : h \in found}]
      /\ todo' = [todo EXCEPT ![j] = {Object(h) : h \in found}]
      /\ instance' = [instance EXCEPT ![j] = nr]
      /\ matched' = IF plan[j].task \in Calls THEN [matched EXCEPT ![j] = found] ELSE matched
      /\ IF found = {}
         THEN IF plan[j].task \in Calls THEN Ends(j, "no match") ELSE Step(j, "called") /\ UNCHANGED outcome
         ELSE Step(j, AfterFilter(Head(calls[j]))) /\ UNCHANGED outcome
      /\ UNCHANGED <<fixed, hosts, slot, open, lock, noted, known, closing, patrol,
                     calls, wrong, sent, met, overlapped, ever_failed, faults>>

(* A template is rendered for one host after the other, and may call other *)
(* services meanwhile.  If that fails, what was rendered stays behind.     *)
RenderHost(j) ==
  \E o \in todo[j] :
    /\ step[j] = "render"
    /\ slot' = With(slot, o, [key |-> Head(calls[j]), text |-> j])
    /\ todo' = [todo EXCEPT ![j] = @ \ {o}]
    /\ Step(j, IF todo[j] = {o} THEN "lock" ELSE "render")
    /\ UNCHANGED <<fixed, hosts, failed, open, lock, noted, known, closing, patrol,
                   calls, mine, instance, wrong, outcome, history, faults>>
RenderFails(j) ==
  /\ step[j] \in {"check", "render"} /\ Fault
  /\ Ends(j, "raised")
  /\ UNCHANGED <<fixed, hosts, failed, slot, open, lock, noted, known, closing, patrol,
                 calls, mine, instance, todo, wrong, history>>

-----------------------------------------------------------------------------
(* The run of the library, under connections_lock unless it is a dry run:  *)
(* hosts that are among the failed when it starts are left out.            *)
IsDry(j) == plan[j].dry /\ Head(calls[j]) \notin {"task", "snmp"}
RunStarts(j) ==
  /\ step[j] = "lock"
  /\ IF IsDry(j) THEN UNCHANGED lock ELSE lock = Nobody /\ lock' = j
  /\ Step(j, "run")
  /\ todo' = [todo EXCEPT ![j] = {o \in mine[j] : HostOf(o) \notin failed[instance[j]]}]
  /\ UNCHANGED <<fixed, hosts, failed, slot, open, noted, known, closing, patrol,
                 calls, mine, instance, wrong, outcome, history, faults>>

(* What a host is sent is what its object holds at that moment; without    *)
(* any, nothing.                                                           *)
TextFor(j, o) ==
  IF ~Renders(Head(calls[j])) THEN j
  ELSE IF o \in DOMAIN slot /\ slot[o].key = Head(calls[j]) THEN slot[o].text ELSE Nobody
Connection(j, o) == <<o, Plugin(Head(calls[j]))>>
RunHost(j) ==
  \E o \in todo[j] :
    /\ step[j] = "run"
    /\ todo' = [todo EXCEPT ![j] = @ \ {o}]
    /\ \/ /\ sent' = [sent EXCEPT ![j] = @ \cup {<<HostOf(o), TextFor(j, o)>>}]
          /\ open' = IF IsDry(j) THEN open ELSE open \cup {Connection(j, o)}
          /\ UNCHANGED <<wrong, faults>>
       \/ /\ Fault /\ ~IsDry(j)
          /\ wrong' = [wrong EXCEPT ![j] = @ \cup {HostOf(o)}]
          /\ open' \in {open, open \ {Connection(j, o)}, open \cup {Connection(j, o)}}
          /\ UNCHANGED sent
    /\ UNCHANGED <<fixed, hosts, failed, slot, lock, noted, known, closing, patrol,
                   step, calls, mine, instance, outcome, matched, met, overlapped, ever_failed>>
RunEnds(j) ==
  /\ step[j] = "run" /\ todo[j] = {}
  /\ lock' = IF IsDry(j) THEN lock ELSE Nobody
  /\ failed' = [failed EXCEPT ![instance[j]] = @ \cup wrong[j]]
  /\ ever_failed' = ever_failed \cup wrong[j]
  /\ Step(j, "tidy")
  /\ UNCHANGED <<fixed, hosts, slot, open, noted, known, closing, patrol, progress,
                 matched, sent, met, overlapped, faults>>

(* What was rendered is removed from the objects, whoever rendered it.     *)
Tidy(j) ==
  /\ step[j] = "tidy"
  /\ slot' = IF Renders(Head(calls[j])) THEN Without(slot, mine[j]) ELSE slot
  /\ Step(j, IF Head(calls[j]) = "task" THEN "clean" ELSE "note")
  /\ UNCHANGED <<fixed, hosts, failed, open, lock, noted, known, closing, patrol, progress, history, faults>>

(* connections_update, without the lock, and by the name of the host.      *)
ConnectionsUpdate(j) ==
  noted' = [c \in {HostOf(o) : o \in mine[j]} \X {Plugin(Head(calls[j]))} |-> "fresh"] @@ noted
Note(j) ==
  /\ step[j] = "note"
  /\ ConnectionsUpdate(j)
  /\ Step(j, "clean")
  /\ UNCHANGED <<fixed, hosts, failed, slot, open, lock, known, closing, patrol, progress, history, faults>>

-----------------------------------------------------------------------------
(* connections_clean, by a job that has made a call and by the watchdog:   *)
(* it gives up if the lock is taken, chooses what to close, closes it and  *)
(* forgets it.  It leaves open what belongs to a host that has failed,     *)
(* since the library leaves that out.                                      *)
Aged ==
  CASE idle_timeout = "none" -> {}
    [] idle_timeout = "zero" -> DOMAIN noted
    [] idle_timeout = "some" -> {c \in DOMAIN noted : noted[c] = "old"}
AgedUnlocked(a) == closing' = [closing EXCEPT ![a] = Aged] /\ UNCHANGED lock       \* mutant
Acquire(a) ==
  /\ closing' = [closing EXCEPT ![a] = Aged]
  /\ lock' = a
CloseAged(a) ==
  LET aged == closing[a]
      reached == {h \in Present : h \notin failed[nr]}
      closed == {c \in open : /\ c[1][2] = inventory[c[1][1]] /\ c[1][1] \in reached
                              /\ IF idle_timeout = "zero"
                                 THEN \E p \in aged : p[1] = c[1][1]
                                 ELSE <<c[1][1], c[2]>> \in aged}
  IN  /\ open' = open \ closed
      /\ noted' = IF idle_timeout = "zero" THEN <<>> ELSE Without(noted, aged)
      /\ lock' = Nobody
      /\ closing' = [closing EXCEPT ![a] = {}]
(* Another thread adds a host to the dictionary that is being looped over. *)
Stumbles(a) == idle_timeout = "some" /\ \E j \in Jobs \ {a} : step[j] = "note"

Clean(j) ==
  /\ step[j] = "clean"
  /\ \/ /\ lock = Nobody /\ Aged # {}
        /\ Acquire(j) /\ Step(j, "close")
     \/ /\ lock # Nobody \/ Aged = {} \/ Stumbles(j)
        /\ Step(j, "called") /\ UNCHANGED <<closing, lock>>
  /\ UNCHANGED <<fixed, hosts, failed, slot, open, noted, known, patrol, progress, history, faults>>
Close(j) ==
  /\ step[j] = "close"
  /\ CloseAged(j) /\ Step(j, "called")
  /\ UNCHANGED <<fixed, hosts, failed, slot, known, patrol, progress, history, faults>>

(* The next call, or the end of the job.                                   *)
Called(j) ==
  /\ step[j] = "called"
  /\ calls' = [calls EXCEPT ![j] = Tail(@)]
  /\ IF Len(calls[j]) = 1
     THEN Ends(j, IF wrong[j] = {} THEN "good" ELSE "bad")
     ELSE Step(j, "filter") /\ UNCHANGED outcome
  /\ UNCHANGED <<fixed, hosts, failed, slot, open, lock, noted, known, closing, patrol,
                 mine, instance, todo, wrong, history, faults>>

-----------------------------------------------------------------------------
(* The watchdog's two tasks, in a loop.                                    *)
WatchdogClean ==
  /\ patrol = "clean"
  /\ \/ /\ lock = Nobody /\ Aged # {}
        /\ Acquire(Watchdog) /\ patrol' = "close"
     \/ /\ lock # Nobody \/ Aged = {} \/ Stumbles(Watchdog)
        /\ patrol' = "keepalive" /\ UNCHANGED <<closing, lock>>
  /\ UNCHANGED <<fixed, hosts, failed, slot, open, noted, known, step, progress, history, faults>>
WatchdogClose ==
  /\ patrol = "close"
  /\ CloseAged(Watchdog) /\ patrol' = "keepalive"
  /\ UNCHANGED <<fixed, hosts, failed, slot, known, step, progress, history, faults>>

(* connections_keepalive forgets what is not open and hosts that are gone, *)
(* but a host that is gone ends the loop: what comes after it has to wait  *)
(* for the next round.                                                     *)
NotOpen == {c \in DOMAIN noted : <<Object(c[1]), c[2]>> \notin open}
GoneHosts == {c[1] : c \in DOMAIN noted} \ Present
ConnectionsOf(names) == {c \in DOMAIN noted : c[1] \in names}
ForgetsAll == noted' = <<>>                                     \* mutant
Forget ==
  \/ GoneHosts = {} /\ noted' = Without(noted, NotOpen)
  \/ Stumbles(Watchdog) /\ \E before \in SUBSET Present :
       noted' = Without(noted, NotOpen \cap ConnectionsOf(before))
  \/ \E h \in GoneHosts, before \in SUBSET Present :
         noted' = Without(noted, ConnectionsOf({h}) \cup (NotOpen \cap ConnectionsOf(before)))
Keepalive ==
  /\ patrol = "keepalive"
  /\ patrol' = "clean"
  /\ IF lock = Nobody /\ idle_timeout # "zero" THEN Forget ELSE UNCHANGED noted
  /\ UNCHANGED <<fixed, hosts, failed, slot, open, lock, known, closing, step, progress, history, faults>>

TimePasses ==
  /\ idle_timeout = "some" /\ \E c \in DOMAIN noted : noted[c] = "fresh"
  /\ noted' = [c \in DOMAIN noted |-> "old"]
  /\ UNCHANGED <<fixed, hosts, failed, slot, open, lock, known, closing, patrol, step, progress, history, faults>>

-----------------------------------------------------------------------------
(* refresh_nornir reads the inventory and adds what other services have;   *)
(* it goes on without NetBox's hosts if NetBox has none.                   *)
LoadInventory(j) ==
  /\ step[j] = "load"
  /\ known' = File /\ Step(j, "netbox")
  /\ UNCHANGED <<fixed, hosts, failed, slot, open, lock, noted, closing, patrol, progress, history, faults>>
LoadNetbox(j) ==
  /\ step[j] = "netbox"
  /\ \/ /\ known' = known \cup Netbox /\ Step(j, "lab")
        /\ UNCHANGED <<outcome, faults>>
     \/ /\ Fault /\ UNCHANGED known
        /\ \/ Step(j, "lab") /\ UNCHANGED outcome
           \/ Ends(j, "raised")
  /\ UNCHANGED <<fixed, hosts, failed, slot, open, lock, noted, closing, patrol,
                 calls, mine, instance, todo, wrong, history>>
LoadLab(j) ==
  /\ step[j] = "lab"
  /\ \/ /\ known' = known \cup Lab /\ Step(j, "init")
        /\ UNCHANGED <<outcome, faults>>
     \/ /\ Fault /\ Ends(j, "raised") /\ UNCHANGED known
  /\ UNCHANGED <<fixed, hosts, failed, slot, open, lock, noted, closing, patrol,
                 calls, mine, instance, todo, wrong, history>>

(* init_nornir closes the connections, of hosts that have not failed, and  *)
(* starts again with new objects.                                          *)
InitNornir(j) ==
  /\ step[j] = "init" /\ lock = Nobody
  /\ open' = {c \in open : ~(c[1][1] \in Present \ failed[nr] /\ c[1][2] = inventory[c[1][1]])}
  /\ born' = [h \in Hosts |-> IF h \in known THEN born[h] + 1 ELSE born[h]]
  /\ inventory' = [h \in Hosts |-> IF h \in known THEN born'[h] ELSE 0]
  /\ nr' = nr + 1 /\ failed' = Append(failed, {})
  /\ Ends(j, "good")
  /\ UNCHANGED <<fixed, slot, lock, noted, known, closing, patrol,
                 calls, mine, instance, todo, wrong, history, faults>>

(* runtime_inventory changes the inventory in place, without the lock and  *)
(* without closing anything.                                               *)
CreateHosts(names) ==
  /\ born' = [h \in Hosts |-> IF h \in names THEN born[h] + 1 ELSE born[h]]
  /\ inventory' = [h \in Hosts |-> IF h \in names THEN born'[h] ELSE inventory[h]]
DeleteHosts(names) == inventory' = [h \in Hosts |-> IF h \in names THEN 0 ELSE inventory[h]]
RuntimeInventory(j) ==
  /\ step[j] = "change"
  /\ IF plan[j].task = "create" THEN CreateHosts(plan[j].hosts) ELSE DeleteHosts(plan[j].hosts) /\ UNCHANGED born
  /\ Ends(j, "good")
  /\ UNCHANGED <<fixed, nr, failed, slot, open, lock, noted, known, closing, patrol,
                 calls, mine, instance, todo, wrong, history, faults>>

(* create_host_from_netbox asks NetBox for the hosts, deletes all others   *)
(* if it is to replace them, and creates one after the other.              *)
PullHosts(j) ==
  /\ step[j] = "pull"
  /\ \/ /\ plan[j].hosts \cap Netbox # {}
        /\ todo' = [todo EXCEPT ![j] = plan[j].hosts \cap Netbox]
        /\ \/ plan[j].dry /\ Ends(j, "good")
           \/ ~plan[j].dry /\ Step(j, "replace") /\ UNCHANGED outcome
        /\ UNCHANGED faults
     \/ plan[j].hosts \cap Netbox = {} /\ Ends(j, "bad") /\ UNCHANGED <<todo, faults>>
     \/ Fault /\ Ends(j, "bad") /\ UNCHANGED todo
  /\ UNCHANGED <<fixed, hosts, failed, slot, open, lock, noted, known, closing, patrol,
                 calls, mine, instance, wrong, history>>
ReplaceHosts(j) ==
  /\ step[j] = "replace"
  /\ IF plan[j].replace
     THEN DeleteHosts(Hosts)
     ELSE UNCHANGED inventory
  /\ Step(j, "create")
  /\ UNCHANGED <<fixed, born, nr, failed, slot, open, lock, noted, known, closing, patrol, progress,
                 history, faults>>
CreateHost(j) ==
  \E h \in todo[j] :
    /\ step[j] = "create"
    /\ CreateHosts({h})
    /\ todo' = [todo EXCEPT ![j] = @ \ {h}]
    /\ IF todo[j] = {h} THEN Ends(j, "good") ELSE UNCHANGED <<step, outcome>>
    /\ UNCHANGED <<fixed, nr, failed, slot, open, lock, noted, known, closing, patrol,
                   calls, mine, instance, wrong, history, faults>>

-----------------------------------------------------------------------------
JobStep(j) ==
  \/ Check(j) \/ Filter(j) \/ RenderHost(j) \/ RunStarts(j) \/ RunHost(j) \/ RunEnds(j)
  \/ Tidy(j) \/ Note(j) \/ Clean(j) \/ Close(j) \/ Called(j)
  \/ LoadInventory(j) \/ LoadNetbox(j) \/ LoadLab(j) \/ InitNornir(j)
  \/ RuntimeInventory(j) \/ PullHosts(j) \/ ReplaceHosts(j) \/ CreateHost(j)
WatchdogStep == WatchdogClean \/ WatchdogClose \/ Keepalive
Next ==
  \/ \E j \in Jobs : JobStep(j) \/ Start(j) \/ RenderFails(j)
  \/ WatchdogStep \/ TimePasses
Spec == Init /\ [][Next]_vars

(* Threads run on - a job that waits for the lock gets it, as Python's     *)
(* locks do not starve and the watchdog sleeps between its rounds - and    *)
(* time passes.                                                            *)
FairSpec ==
  /\ Spec
  /\ \A j \in Jobs : SF_vars(JobStep(j))
  /\ WF_vars(WatchdogStep) /\ WF_vars(TimePasses)

-----------------------------------------------------------------------------
(***************************************************************************)
(* What a Nornir worker promises.                                          *)
(***************************************************************************)
Sends(j) == ~IsInventoryJob(j) /\ plan[j].task # "parse_textfsm"
Exact(j) == sent[j] = {<<h, j>> : h \in matched[j]}

(* A job that reports no failure has sent to each host that its filter     *)
(* found, and to no other, what it rendered for it, whatever became of the *)
(* jobs before it, of connections and inventory, unless another job was at *)
(* the same hosts.                                                         *)
JobsAreExact == \A j \in Jobs \ met : Sends(j) /\ outcome[j] = "good" => Exact(j)

(* The same for all jobs: docs/workers/nornir/                             *)
(* services_nornir_service_tasks_cfg.md:75 says that the commands go to    *)
(* all hosts of the filter.                                                *)
EveryJobIsExact == \A j \in Jobs : Sends(j) /\ outcome[j] = "good" => Exact(j)

(* While a run uses a host, nobody else closes the host's connections: not *)
(* the watchdog, not the end of another job, not a refresh.                *)
NoCloseInUse ==
  [][\A j \in Jobs : step[j] = "run" /\ ~IsDry(j) /\ todo[j] = todo'[j] =>
       \A c \in open \ open' : c[1] \notin mine[j]]_vars

(* Jobs end, and then idle connections are closed at last, but for those   *)
(* of a host that has failed and those the watchdog is never told of; with *)
(* a timeout of zero, only if jobs run one at a time.                      *)
Idle(c) == c[1][2] = inventory[c[1][1]] /\ IsNoted(c[2]) /\ c[1][1] \notin ever_failed
ClosesIdle == idle_timeout = "some" \/ (idle_timeout = "zero" /\ ~overlapped)
ComesToRest == <>[](Running = {} /\ (ClosesIdle => \A c \in open : ~Idle(c)))
=============================================================================
