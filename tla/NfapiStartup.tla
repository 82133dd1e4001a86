---------------------------- MODULE NfapiStartup ----------------------------
(***************************************************************************)
(* How one NorFab object starts the broker and the worker processes, in    *)
(* the order that depends_on asks for, and how destroy stops them          *)
(* (core/nfapi.py): start's loop over the workers, the wait for their      *)
(* init_done events, the hooks, CTRL-C at any point and processes that     *)
(* die.  Everything runs in the main thread; the processes run beside it.  *)
(***************************************************************************)
EXTENDS Naturals, Sequences, FiniteSets, SequencesExt

CONSTANTS
  Names,         \* names of workers
  BuiltIn,       \* the file sharing worker that comes with the broker
  Topology,      \* the workers of the inventory, in its order
  Dependencies,  \* the depends_on of all workers: the graphs considered
  Startable,     \* names that have an inventory and a plugin: the sets considered
  NameLists,     \* the lists of names a caller may ask for
  Nothing, Everything, \* False and True, for the workers to run
  MaxStarts,     \* bound: calls of start
  MaxDeaths      \* bound: worker processes that die

ASSUME StartupAssumption ==
  /\ BuiltIn \in Names /\ Topology \in Seq(Names \ {BuiltIn})
  /\ Dependencies \subseteq [Names -> SUBSET Names]
  /\ Startable \subseteq SUBSET Names
  /\ NameLists \subseteq Seq(Names) \ {<<>>}
  /\ {Nothing, Everything} \cap NameLists = {}
  /\ MaxStarts \in Nat /\ MaxDeaths \in Nat

VARIABLES
  depends_on, startable,    \* what the inventory says, it never changes
  run,                      \* what the NorFab object was made to run: broker and workers
  (* the main thread *)
  main,                     \* where it is
  run_workers,              \* the list start works on
  with_data,                \* whether the list came from the inventory
  workers_to_start,
  next,                     \* position of start's inner loop
  workers_processes,        \* the keys of the dictionary, in order
  exiting,
  caller,                   \* who called destroy: start, the user or the signal handler
  (* the processes *)
  broker,                   \* the one the object knows
  replaced_broker,          \* the one before it
  process,                  \* of each worker
  init_done, workers_exit, broker_exit,
  (* history and bounds *)
  aborted,                  \* an exception ended destroy
  starts, deaths

inventory == <<depends_on, startable, run>>
lists  == <<run_workers, with_data, workers_to_start, next>>
exits  == <<exiting, caller, workers_exit, broker_exit>>
brokers == <<broker, replaced_broker>>
counts == <<aborted, starts, deaths>>
vars == <<inventory, main, lists, workers_processes, exits, brokers, process, init_done, counts>>

Started == ToSet(workers_processes)

Init ==
  /\ depends_on \in Dependencies /\ startable \in Startable
  /\ run \in [broker : BOOLEAN, workers : {Nothing, Everything}]
  /\ main = "idle" /\ run_workers = <<>> /\ with_data = FALSE
  /\ workers_to_start = {} /\ next = 1 /\ workers_processes = <<>>
  /\ exiting = FALSE /\ caller = "nobody"
  /\ broker = "none" /\ replaced_broker = "none" /\ process = [w \in Names |-> "none"]
  /\ init_done = [w \in Names |-> FALSE] /\ workers_exit = FALSE /\ broker_exit = FALSE
  /\ aborted = FALSE /\ starts = 0 /\ deaths = 0

-----------------------------------------------------------------------------
(***************************************************************************)
(* start: the broker, the loop, the wait for init_done, the hooks.         *)
(***************************************************************************)

(* What start is not told to run is what the object was made to run.  The  *)
(* built-in worker is in the inventory once there is a broker.             *)
OwnIfUnset(asked) == [broker  |-> asked.broker \/ run.broker,
                      workers |-> IF asked.workers = Nothing THEN run.workers ELSE asked.workers]
WorkersOf(asked) ==
  CASE asked.workers = Nothing -> <<>>
    [] asked.workers = Everything ->
         IF asked.broker \/ broker # "none" THEN <<BuiltIn>> \o Topology ELSE Topology
    [] OTHER -> asked.workers

(* Names come without the data of the inventory, depends_on included.  A   *)
(* second broker takes the place of the first, which runs on.              *)
Start(asked) ==
  LET wanted == OwnIfUnset(asked)
      names == WorkersOf(wanted)
  IN  /\ main = "idle" /\ ~exiting
      /\ starts < MaxStarts
      /\ starts' = starts + 1
      /\ run_workers' = names /\ with_data' = (wanted.workers = Everything)
      /\ workers_to_start' = ToSet(names)
      /\ next' = 1
      /\ IF wanted.broker
         THEN main' = "broker" /\ broker' = "initializing" /\ replaced_broker' = broker
         ELSE main' = (IF names = <<>> THEN "idle" ELSE "round") /\ UNCHANGED brokers
      /\ UNCHANGED <<inventory, workers_processes, exits, process, init_done, aborted, deaths>>

BrokerIsUp ==
  /\ main = "broker" /\ broker = "up"
  /\ main' = IF run_workers = <<>> THEN "idle" ELSE "round"
  /\ UNCHANGED <<inventory, lists, workers_processes, exits, brokers, process, init_done, counts>>

(* SystemExit: nobody calls destroy any more.                              *)
BrokerTimeout ==
  /\ main = "broker" /\ broker # "up"
  /\ main' = "ended"
  /\ UNCHANGED <<inventory, lists, workers_processes, exits, brokers, process, init_done, counts>>

(* One worker of the list after the other; the loop's condition is looked  *)
(* at between two rounds only.                                             *)
Goes(w) == next' = next + 1 /\ UNCHANGED <<run_workers, with_data>>
Current == run_workers[next]
InRound == main = "round" /\ next <= Len(run_workers)

Needs(w) == IF with_data THEN depends_on[w] ELSE {}
DeadNeed(w) == \E d \in Needs(w) \cap Started : process[d] = "exited"
NeedsMet(w) == \A d \in Needs(w) : d \in Started /\ init_done[d]

SkipWorker ==
  /\ InRound
  /\ \/ Current \notin workers_to_start
     \/ Current \in Started
     \/ Current \in startable /\ ~DeadNeed(Current) /\ ~NeedsMet(Current)
  /\ Goes(Current)
  /\ UNCHANGED <<inventory, main, workers_to_start, workers_processes, exits, brokers, process,
                 init_done, counts>>

(* KeyError, FileNotFoundError, a dead dependency, no plugin.              *)
Kept(w) == workers_to_start                      \* mutant: a failed worker stays
Discarded(w) == workers_to_start \ {w}

DiscardWorker ==
  /\ InRound
  /\ Current \in workers_to_start /\ Current \notin Started
  /\ Current \notin startable \/ DeadNeed(Current)
  /\ workers_to_start' = Discarded(Current)
  /\ Goes(Current)
  /\ UNCHANGED <<inventory, main, workers_processes, exits, brokers, process, init_done, counts>>

(* The entry in workers_processes comes first, then the process starts.    *)
AddWorker ==
  /\ InRound
  /\ Current \in workers_to_start \ Started
  /\ Current \in startable /\ ~DeadNeed(Current) /\ NeedsMet(Current)
  /\ workers_processes' = Append(workers_processes, Current)
  /\ process' = [process EXCEPT ![Current] = "created"]
  /\ init_done' = [init_done EXCEPT ![Current] = FALSE]
  /\ main' = "spawn"
  /\ UNCHANGED <<inventory, lists, exits, brokers, counts>>

SpawnWorker ==
  /\ main = "spawn"
  /\ process' = [process EXCEPT ![Current] = "initializing"]
  /\ main' = "round"
  /\ Goes(Current)
  /\ UNCHANGED <<inventory, workers_to_start, workers_processes, exits, brokers, init_done, counts>>

EndRound ==
  /\ main = "round" /\ next > Len(run_workers)
  /\ IF workers_to_start = Started
     THEN main' = "wait" /\ UNCHANGED lists
     ELSE next' = 1 /\ UNCHANGED <<main, run_workers, with_data, workers_to_start>>
  /\ UNCHANGED <<inventory, workers_processes, exits, brokers, process, init_done, counts>>

AllInitialized ==
  /\ main = "wait"
  /\ \A w \in Started : init_done[w]
  /\ main' = "hooks"
  /\ UNCHANGED <<inventory, lists, workers_processes, exits, brokers, process, init_done, counts>>

StartupHooks ==
  /\ main = "hooks"
  /\ main' = "idle"
  /\ UNCHANGED <<inventory, lists, workers_processes, exits, brokers, process, init_done, counts>>

-----------------------------------------------------------------------------
(***************************************************************************)
(* destroy, called by start, by the user or in the handler of CTRL-C.      *)
(* Its exit hooks come first, at every call; the rest is done once.        *)
(***************************************************************************)
EventUnset == workers_exit                       \* mutant: joins without telling
EventSet == TRUE

Destroy(who) ==
  /\ exiting' = TRUE /\ workers_exit' = EventSet
  /\ caller' = who
  /\ main' = "destroy"
  /\ UNCHANGED <<inventory, lists, workers_processes, broker_exit, brokers, process, init_done>>

InitTimeout ==
  /\ main = "wait"
  /\ ~exiting
  /\ \E w \in Started : ~init_done[w]
  /\ Destroy("start")
  /\ UNCHANGED counts

(* destroy was called before: only its exit hooks run again.               *)
TimeoutAgain ==
  /\ main = "wait" /\ exiting
  /\ \E w \in Started : ~init_done[w]
  /\ main' = "hooks"
  /\ UNCHANGED <<inventory, lists, workers_processes, exits, brokers, process, init_done, counts>>

UserDestroys ==
  /\ main = "idle" /\ ~exiting /\ starts > 0
  /\ Destroy("user")
  /\ UNCHANGED counts

CtrlC ==
  /\ main \in {"idle", "broker", "round", "wait", "hooks"} /\ ~exiting
  /\ Destroy("signal")
  /\ UNCHANGED counts

(* The last entry is popped first, and a process that was not started      *)
(* cannot be joined: the AssertionError leaves the handler and destroy and *)
(* is taken by start, which discards the worker and goes on.               *)
CtrlCAtSpawn ==
  /\ main = "spawn" /\ ~exiting
  /\ exiting' = TRUE /\ workers_exit' = TRUE /\ aborted' = TRUE
  /\ workers_processes' = Front(workers_processes)
  /\ process' = [process EXCEPT ![Current] = "none"]
  /\ workers_to_start' = workers_to_start \ {Current}
  /\ main' = "round"
  /\ Goes(Current)
  /\ UNCHANGED <<inventory, caller, broker_exit, brokers, init_done, starts, deaths>>

Joinable(p) == p = "exited"

JoinWorker ==
  /\ main = "destroy" /\ workers_processes # <<>>
  /\ Joinable(process[Last(workers_processes)])
  /\ workers_processes' = Front(workers_processes)
  /\ UNCHANGED <<inventory, main, lists, exits, brokers, process, init_done, counts>>

StopBroker ==
  /\ main = "destroy" /\ workers_processes = <<>> /\ ~broker_exit
  /\ broker_exit' = TRUE
  /\ UNCHANGED <<inventory, main, lists, workers_processes, exiting, caller, workers_exit, brokers,
                 process, init_done, counts>>

(* Only the last broker is joined.  Then start goes on to its hooks, the   *)
(* handler ends with a KeyboardInterrupt.                                  *)
JoinBroker ==
  /\ main = "destroy" /\ broker_exit
  /\ broker \in {"none", "exited"}
  /\ main' = IF caller = "start" THEN "hooks" ELSE "ended"
  /\ UNCHANGED <<inventory, lists, workers_processes, exits, brokers, process, init_done, counts>>

(* run ends when exiting is set, and the program with it.                  *)
RunEnds ==
  /\ main = "idle" /\ exiting
  /\ main' = "ended"
  /\ UNCHANGED <<inventory, lists, workers_processes, exits, brokers, process, init_done, counts>>

-----------------------------------------------------------------------------
(***************************************************************************)
(* The processes.  Each initializes and then runs until its exit event.    *)
(***************************************************************************)
Beside == <<inventory, main, lists, workers_processes, exits>>

(* A broker cannot bind its endpoint while the one before it is there.     *)
BrokerInitialized ==
  /\ broker = "initializing"
  /\ broker' = IF replaced_broker = "up" THEN "exited" ELSE "up"
  /\ UNCHANGED <<Beside, replaced_broker, process, init_done, counts>>

BrokerExits ==
  /\ broker_exit
  /\ \/ broker = "up" /\ broker' = "exited" /\ UNCHANGED replaced_broker
     \/ replaced_broker = "up" /\ replaced_broker' = "exited" /\ UNCHANGED broker
  /\ UNCHANGED <<Beside, process, init_done, counts>>

WorkerInitialized(w) ==
  /\ process[w] = "initializing"
  /\ process' = [process EXCEPT ![w] = "up"]
  /\ init_done' = [init_done EXCEPT ![w] = TRUE]
  /\ UNCHANGED <<Beside, brokers, counts>>

WorkerExits(w) ==
  /\ process[w] = "up" /\ workers_exit
  /\ process' = [process EXCEPT ![w] = "exited"]
  /\ UNCHANGED <<Beside, brokers, init_done, counts>>

WorkerDies(w) ==
  /\ process[w] \in {"initializing", "up"}
  /\ deaths < MaxDeaths
  /\ deaths' = deaths + 1
  /\ process' = [process EXCEPT ![w] = "exited"]
  /\ UNCHANGED <<Beside, brokers, init_done, aborted, starts>>

-----------------------------------------------------------------------------
StartLoop == SkipWorker \/ DiscardWorker \/ AddWorker \/ SpawnWorker \/ EndRound
MainStep ==
  \/ BrokerIsUp \/ BrokerTimeout \/ StartLoop \/ AllInitialized \/ StartupHooks
  \/ InitTimeout \/ TimeoutAgain
  \/ JoinWorker \/ StopBroker \/ JoinBroker \/ RunEnds
ProcessStep ==
  \/ BrokerInitialized \/ BrokerExits
  \/ \E w \in Names : WorkerInitialized(w) \/ WorkerExits(w)
Next ==
  \/ \E asked \in [broker : BOOLEAN, workers : {Nothing, Everything} \cup NameLists] :
       Start(asked)
  \/ MainStep \/ ProcessStep
  \/ UserDestroys \/ CtrlC \/ CtrlCAtSpawn
  \/ \E w \in Names : WorkerDies(w)
  \/ main = "ended" /\ UNCHANGED vars

Spec == Init /\ [][Next]_vars

(* The main thread runs on, and every process comes to the end of its      *)
(* __init__, or dies, and looks at its exit event.                         *)
FairSpec ==
  /\ Spec
  /\ WF_vars(MainStep)
  /\ WF_vars(BrokerInitialized) /\ WF_vars(BrokerExits)
  /\ \A w \in Names : WF_vars(WorkerInitialized(w)) /\ WF_vars(WorkerExits(w))

-----------------------------------------------------------------------------
(***************************************************************************)
(* What should hold of start and destroy.                                  *)
(***************************************************************************)
(* start comes to an end, unless a worker it waits for has no way to       *)
(* start: it depends on one that has no process, or whose process died or  *)
(* does not finish __init__ - the init timeout is not yet running then -   *)
(* or a worker of an earlier start is not in the list of this one.         *)
Stranded ==
  \/ \E w \in workers_to_start \ Started : \E d \in Needs(w) : d \notin Started
  \/ Started \ workers_to_start # {}
StartEnds == main \in {"broker", "round", "spawn", "wait", "hooks"} ~>
               \/ main \in {"idle", "ended"}
               \/ main = "round" /\ Stranded

Stopped(p) == p \in {"none", "exited"}
OwnStopped == Stopped(broker) /\ \A w \in Names : Stopped(process[w])
DestroyLeavesNothing ==
  (main = "hooks" /\ caller = "start") \/ (main = "ended" /\ caller # "nobody") => OwnStopped

(* When destroy returns, all it had to stop has stopped: no worker and no  *)
(* broker runs on, not even one that was being started or initialized when *)
(* CTRL-C or the timeout struck.  A broker that a second start replaced is *)
(* told to exit but not waited for.  And destroy does return: once NorFab  *)
(* is exiting, everything stops, the replaced broker too, but for the      *)
(* CTRL-C between an entry in workers_processes and the start of its       *)
(* process.                                                                *)
DestroyStopsEverything ==
  /\ []DestroyLeavesNothing
  /\ exiting /\ ~aborted ~> OwnStopped /\ Stopped(replaced_broker)
=============================================================================
