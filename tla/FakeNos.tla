------------------------------ MODULE FakeNos ------------------------------
(***************************************************************************)
(* The FakeNOS worker (fakenos_worker.py): each network is a process of    *)
(* its own, kept in a table without a lock while jobs start, stop, restart *)
(* and inspect networks on threads of their own.                           *)
(***************************************************************************)
EXTENDS Naturals, Sequences, FiniteSets, SequencesExt, Functions

CONSTANTS
  NetworkJobs,
  NetworkRequests,   \* what a job may be asked for: the task and a network, or None for all
  Networks,
  None,
  MaxAtOnce,         \* bound: jobs that run at the same time
  MaxFaults          \* bound: files not fetched, processes that end, answers too late

(* The arguments of the tasks: what starts a network needs its name.       *)
RequestsAreNamed ==
  /\ IsFiniteSet(Networks) /\ None \notin Networks
  /\ \A r \in NetworkRequests :
       /\ r.task \in {"start", "stop", "restart", "inspect", "inventory", "list"}
       /\ r.network \in Networks \/ (r.network = None /\ r.task \notin {"start", "restart"})

VARIABLES
  networks,          \* the table: the process of each network
  spawned,           \* the network of each process that was ever started
  living,            \* the processes that live
  request,           \* of each job, it never changes
  plan,              \* of each job: the parts of its task that are to come
  names,             \* of each job: the networks that stop or inspect still has to see
  entry,             \* of each job: the network and process in its hands
  outcome,           \* of each job: "idle", "running", "done" or "raised"
  exited,            \* the worker has ended
  careless,          \* history: networks started while they ran, or with two jobs at once
  faults

table == <<networks, spawned, living>>
vars == <<table, request, plan, names, entry, outcome, exited, careless, faults>>

Plan(task) ==
  CASE task = "start" -> <<"fetch", "spawn", "enter", "names", "look">>
    [] task = "stop" -> <<"names", "take">>
    [] task = "restart" -> <<"lookup", "names", "take", "spawn", "enter", "names", "look", "names", "look">>
    [] task = "inspect" -> <<"names", "look">>
    [] task = "inventory" -> <<"names", "look">>
    [] task = "list" -> <<"names">>

(* The constructor has started the networks that have auto_start set.      *)
Init ==
  /\ \E auto \in SUBSET Networks :
       /\ spawned = SetToSeq(auto) /\ living = DOMAIN spawned
       /\ networks = [n \in auto |-> CHOOSE p \in DOMAIN spawned : spawned[p] = n]
  /\ request \in [NetworkJobs -> NetworkRequests]
  /\ plan = [j \in NetworkJobs |-> <<>>]
  /\ names = [j \in NetworkJobs |-> {}]
  /\ entry = [j \in NetworkJobs |-> None]
  /\ outcome = [j \in NetworkJobs |-> "idle"]
  /\ exited = FALSE /\ careless = {} /\ faults = 0

Of(j) == IF request[j].network = None THEN Networks ELSE {request[j].network}
Running == {j \in NetworkJobs : outcome[j] = "running"}
Fault == faults < MaxFaults /\ faults' = faults + 1
At(j, part) == outcome[j] = "running" /\ plan[j] # <<>> /\ Head(plan[j]) = part

(* The next part of the task, in place of the present one; a task without  *)
(* parts is done.                                                          *)
Go(j, parts) ==
  /\ plan' = [plan EXCEPT ![j] = parts \o Tail(@)]
  /\ outcome' = [outcome EXCEPT ![j] = IF parts = <<>> /\ Len(plan[j]) = 1 THEN "done" ELSE @]
Raise(j) ==
  /\ plan' = [plan EXCEPT ![j] = <<>>] /\ outcome' = [outcome EXCEPT ![j] = "raised"]
  /\ names' = [names EXCEPT ![j] = {}] /\ entry' = [entry EXCEPT ![j] = None]
Keeps == UNCHANGED <<request, exited, careless>>

Start(j) ==
  LET others == {k \in Running : Of(k) \cap Of(j) # {}}
      twice == IF request[j].task = "start" THEN Of(j) \cap DOMAIN networks ELSE {}
  IN  /\ outcome[j] = "idle" /\ Cardinality(Running) < MaxAtOnce /\ ~exited
      /\ outcome' = [outcome EXCEPT ![j] = "running"]
      /\ plan' = [plan EXCEPT ![j] = Plan(request[j].task)]
      /\ careless' = careless \cup twice \cup UNION {Of(k) \cap Of(j) : k \in others}
      /\ UNCHANGED <<table, request, names, entry, exited, faults>>

-----------------------------------------------------------------------------
(* start: the inventory is a URL that is fetched, or given as it is.       *)
Fetch(j) ==
  /\ At(j, "fetch")
  /\ \/ Go(j, <<>>) /\ UNCHANGED <<names, entry, faults>>
     \/ Fault /\ Raise(j)
  /\ Keeps /\ UNCHANGED table
Spawn(j) ==
  /\ At(j, "spawn")
  /\ spawned' = Append(spawned, request[j].network)
  /\ living' = living \cup {Len(spawned')}
  /\ entry' = [entry EXCEPT ![j] = <<request[j].network, Len(spawned')>>]
  /\ Go(j, <<>>) /\ Keeps /\ UNCHANGED <<networks, names, faults>>
(* The entry replaces what the table has for the network.                  *)
Enter(j) ==
  LET n == request[j].network
  IN  /\ At(j, "enter")
      /\ networks' = [m \in DOMAIN networks \cup {n} |-> IF m = n THEN entry[j][2] ELSE networks[m]]
      /\ entry' = [entry EXCEPT ![j] = None]
      /\ Go(j, <<>>) /\ Keeps /\ UNCHANGED <<spawned, living, names, faults>>

(* restart takes the inventory from the table: no entry, no restart.       *)
Lookup(j) ==
  /\ At(j, "lookup")
  /\ IF request[j].network \in DOMAIN networks THEN Go(j, <<>>) /\ UNCHANGED <<names, entry>> ELSE Raise(j)
  /\ Keeps /\ UNCHANGED <<table, faults>>

(* The networks that stop and inspect are for: one, or all in the table.   *)
Names(j) ==
  /\ At(j, "names")
  /\ names' = [names EXCEPT ![j] = IF request[j].network = None THEN DOMAIN networks ELSE {request[j].network}]
  /\ Go(j, <<>>) /\ Keeps /\ UNCHANGED <<table, entry, faults>>

-----------------------------------------------------------------------------
(* stop, for one name after the other: the entry is read, its process told *)
(* to end, waited for and killed, and then the name is removed.            *)
Take(j) ==
  /\ At(j, "take")
  /\ \/ names[j] = {} /\ Go(j, <<>>) /\ UNCHANGED <<names, entry>>
     \/ \E n \in names[j] :
          /\ names' = [names EXCEPT ![j] = @ \ {n}]
          /\ IF n \in DOMAIN networks
             THEN Go(j, <<"kill", "pop", "take">>) /\ entry' = [entry EXCEPT ![j] = <<n, networks[n]>>]
             ELSE Go(j, <<"take">>) /\ UNCHANGED entry
  /\ Keeps /\ UNCHANGED <<table, faults>>
Joined(p) == {living \ {p}, living}                             \* mutant: one second, no kill
Killed(p) == {living \ {p}}
Kill(j) ==
  /\ At(j, "kill")
  /\ living' \in Killed(entry[j][2])
  /\ Go(j, <<>>) /\ Keeps /\ UNCHANGED <<networks, spawned, names, entry, faults>>
Pop(j) ==
  /\ At(j, "pop")
  /\ networks' = Restrict(networks, DOMAIN networks \ {entry[j][1]})
  /\ entry' = [entry EXCEPT ![j] = None]
  /\ Go(j, <<>>) /\ Keeps /\ UNCHANGED <<spawned, living, names, faults>>

(* inspect_networks: a network that has gone raises, and so does one whose *)
(* process does not answer in time.                                        *)
Responds(n) == n \in DOMAIN networks /\ networks[n] \in living
Look(j) ==
  /\ At(j, "look")
  /\ \/ names[j] = {} /\ Go(j, <<>>) /\ UNCHANGED <<names, entry, faults>>
     \/ \E n \in names[j] :
          \/ /\ Responds(n)
             /\ names' = [names EXCEPT ![j] = @ \ {n}] /\ Go(j, <<"look">>)
             /\ UNCHANGED <<entry, faults>>
          \/ ~Responds(n) /\ Raise(j) /\ UNCHANGED faults
          \/ Fault /\ Raise(j)
  /\ Keeps /\ UNCHANGED table

(* A process ends by itself, for instance when its inventory is no good.   *)
Dies ==
  /\ Fault /\ \E p \in living : living' = living \ {p}
  /\ UNCHANGED <<networks, spawned, request, plan, names, entry, outcome, exited, careless>>

(* worker_exit stops all networks, after the last job.                     *)
WorkerExit ==
  /\ ~exited /\ Running = {}
  /\ exited' = TRUE /\ living' = living \ Range(networks) /\ networks' = <<>>
  /\ UNCHANGED <<spawned, request, plan, names, entry, outcome, careless, faults>>

JobStep(j) ==
  \/ Start(j) \/ Fetch(j) \/ Spawn(j) \/ Enter(j) \/ Lookup(j) \/ Names(j)
  \/ Take(j) \/ Kill(j) \/ Pop(j) \/ Look(j)
Done == exited /\ UNCHANGED vars
Next == (\E j \in NetworkJobs : JobStep(j)) \/ Dies \/ WorkerExit \/ Done

Spec == Init /\ [][Next]_vars

-----------------------------------------------------------------------------
(* A network has at most one process, which is the one in the table, so    *)
(* that stop and the end of the worker reach it, whatever was restarted,   *)
(* failed or died: unless it was started while it ran or by two jobs at    *)
(* once, and apart from a job that works on it.                            *)
OneProcess ==
  \A p \in living :
    LET n == spawned[p]
    IN  \/ n \in careless
        \/ n \in DOMAIN networks /\ networks[n] = p
        \/ \E j \in Running : n \in Of(j) /\ request[j].task \in {"start", "restart"}
=============================================================================
