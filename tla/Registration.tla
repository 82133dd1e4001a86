---------------------------- MODULE Registration ----------------------------
(***************************************************************************)
(* Which workers the broker believes in, and which workers believe they    *)
(* are registered: the broker's table with its keepalive threads           *)
(* (core/broker.py, core/keepalives.py) and each worker's connection with  *)
(* its recv, keepalive and handler threads (core/worker.py).               *)
(*                                                                         *)
(* Time passes in keepalive intervals.  A holdtime is the number of        *)
(* intervals left, 0 when it has expired.  Unless there is a fault, what   *)
(* is due in an interval is sent, received and acted upon within it.       *)
(***************************************************************************)
EXTENDS Naturals, Sequences, FiniteSets

CONSTANTS
  Workers,
  Services, ServiceOf,  \* the services, and the one each worker registers to
  Multiplier,           \* holdtime in keepalive intervals
  MaxFaults,            \* bound: lost messages, delays, kills and broker stops
  MaxPosts,             \* bound: jobs dispatched
  MaxQuiet              \* bound: where the count of quiet intervals stops

ASSUME RegistrationAssumption ==
  /\ ServiceOf \in [Workers -> Services]
  /\ Multiplier \in Nat \ {0}
  /\ MaxFaults \in Nat /\ MaxPosts \in Nat /\ MaxQuiet \in Nat

VARIABLES
  (* broker *)
  broker_up,
  ready,          \* addresses in broker.workers
  members,        \* how often each worker is in the list of its service
  keepalivers,    \* workers whose keepalive thread runs at the broker
  broker_hold, broker_due,
  (* workers *)
  connection,     \* "up", or a step of reconnect_to_broker, or "down"
  worker_hold, worker_due,
  post_queue,     \* POSTs waiting for the handler thread
  handler,        \* "alive", or "dead" after an exception
  (* the sockets *)
  to_broker, to_worker,
  (* bounds and time *)
  faults, posts,
  quiet           \* intervals since the last fault

table   == <<ready, members, keepalivers, broker_hold>>
worker  == <<connection, worker_hold, post_queue, handler>>
due     == <<broker_due, worker_due>>
sockets == <<to_broker, to_worker>>
bounds  == <<faults, posts, quiet>>
vars == <<broker_up, table, worker, due, sockets, bounds>>

Steps == {"leaving", "closed", "opened"}
Connected == {"up", "leaving", "opened"}

Nobody == [w \in Workers |-> FALSE]
Zero == [w \in Workers |-> 0]
Silence == [w \in Workers |-> <<>>]

Init ==
  /\ broker_up = TRUE
  /\ ready = {} /\ members = Zero /\ keepalivers = {} /\ broker_hold = Zero
  /\ broker_due = Nobody /\ worker_due = Nobody
  /\ connection = [w \in Workers |-> "down"] /\ worker_hold = Zero
  /\ post_queue = Zero /\ handler = [w \in Workers |-> "alive"]
  /\ to_broker = Silence /\ to_worker = Silence
  /\ faults = 0 /\ posts = 0 /\ quiet = 0

(* A socket that is closed, or not yet made, takes no messages.            *)
ToBroker(w, m) ==
  to_broker' = IF connection[w] \in Connected
               THEN [to_broker EXCEPT ![w] = Append(@, m)] ELSE to_broker
Delivered(queues, ws, m) ==
  [w \in Workers |-> IF w \in ws /\ connection[w] \in Connected
                     THEN Append(queues[w], m) ELSE queues[w]]

-----------------------------------------------------------------------------
(***************************************************************************)
(* Broker.  Every round of mediate ends with purge_workers: the table a    *)
(* round leaves behind is Purged(what process_worker made of it).          *)
(***************************************************************************)
ThreadGoesOn(threads, gone) == threads           \* mutant: destroy without stop
Stopped(threads, gone) == threads \ gone

Purge(r, m, k, h) ==
  LET gone == {w \in r : h[w] = 0}
  IN  /\ ready' = r \ gone
      /\ members' = [w \in Workers |-> IF w \in gone THEN m[w] - 1 ELSE m[w]]
      /\ keepalivers' = Stopped(k, gone)
      /\ broker_hold' = h

TakeFromWorker(w, command) ==
  /\ broker_up
  /\ to_broker[w] # <<>> /\ Head(to_broker[w]) = command
  /\ to_broker' = [to_broker EXCEPT ![w] = Tail(@)]
  /\ UNCHANGED <<broker_up, worker, worker_due, to_worker, bounds>>

TakesEvery(w) == TRUE                            \* mutant: READY without its guard
IsNew(w) == w \notin ready

ProcessReady(w) ==
  /\ TakeFromWorker(w, "READY")
  /\ IF IsNew(w)
     THEN /\ Purge(ready \cup {w}, [members EXCEPT ![w] = @ + 1], keepalivers \cup {w},
                   [broker_hold EXCEPT ![w] = Multiplier])
          /\ broker_due' = [broker_due EXCEPT ![w] = FALSE]
     ELSE Purge(ready, members, keepalivers, broker_hold) /\ UNCHANGED broker_due

ProcessKeepalive(w) ==
  /\ TakeFromWorker(w, "KEEPALIVE")
  /\ Purge(ready, members, keepalivers,
           IF w \in ready THEN [broker_hold EXCEPT ![w] = Multiplier] ELSE broker_hold)
  /\ UNCHANGED broker_due

ProcessDisconnect(w) ==
  /\ TakeFromWorker(w, "DISCONNECT")
  /\ IF w \in ready
     THEN Purge(ready \ {w}, [members EXCEPT ![w] = @ - 1], Stopped(keepalivers, {w}),
                broker_hold)
     ELSE Purge(ready, members, keepalivers, broker_hold)
  /\ UNCHANGED broker_due

(* Passed on to the client, see JobProtocol, if the worker is ready.       *)
ProcessResponse(w) ==
  /\ TakeFromWorker(w, "RESPONSE")
  /\ Purge(ready, members, keepalivers, broker_hold)
  /\ UNCHANGED broker_due

PurgeWorkers ==
  /\ broker_up
  /\ \E w \in ready : broker_hold[w] = 0
  /\ Purge(ready, members, keepalivers, broker_hold)
  /\ UNCHANGED <<broker_up, worker, due, sockets, bounds>>

SendKeepaliveToWorker(w) ==
  /\ broker_up /\ w \in keepalivers /\ broker_due[w]
  /\ broker_due' = [broker_due EXCEPT ![w] = FALSE]
  /\ to_worker' = Delivered(to_worker, {w}, "KEEPALIVE")
  /\ UNCHANGED <<broker_up, table, worker, worker_due, to_broker, bounds>>

(* dispatch purges before it filters.  The target is all or any of the     *)
(* service's list, or names, looked up in the table of all services.       *)
Expired == {w \in ready : broker_hold[w] = 0}
Unpurged == ready                                \* mutant: filter before the purge
Present == ready \ Expired
Listed(service) == {w \in Present : ServiceOf[w] = service}

SendPost(ws) ==
  /\ broker_up
  /\ posts < MaxPosts
  /\ posts' = posts + 1
  /\ to_worker' = Delivered(to_worker, ws, "POST")
  /\ Purge(ready, members, keepalivers, broker_hold)
  /\ UNCHANGED <<broker_up, worker, due, to_broker, faults, quiet>>

DispatchToAll(service) == SendPost(Listed(service))
DispatchToAny(service) == \E w \in Listed(service) : SendPost({w})
DispatchByName(service, names) == Listed(service) # {} /\ SendPost(names \cap Present)

-----------------------------------------------------------------------------
(***************************************************************************)
(* Worker.  recv takes one message at a time and reconnects when the       *)
(* holdtime is over.  NFP puts the service in front of the DISCONNECT of a *)
(* broker, where recv looks for the command: it is an invalid message.     *)
(***************************************************************************)
Recv(w) ==
  /\ connection[w] = "up"
  /\ to_worker[w] # <<>>
  /\ to_worker' = [to_worker EXCEPT ![w] = Tail(@)]
  /\ LET command == Head(to_worker[w])
     IN  /\ worker_hold' = IF command = "KEEPALIVE"
                           THEN [worker_hold EXCEPT ![w] = Multiplier] ELSE worker_hold
         /\ post_queue' = IF command = "POST"
                          THEN [post_queue EXCEPT ![w] = @ + 1] ELSE post_queue
  /\ UNCHANGED <<broker_up, table, connection, handler, due, to_broker, bounds>>

(* reconnect_to_broker, in the recv thread, step by step.                  *)
SendDisconnect(w) ==
  /\ connection[w] = "up" /\ worker_hold[w] = 0
  /\ connection' = [connection EXCEPT ![w] = "leaving"]
  /\ ToBroker(w, "DISCONNECT")
  /\ UNCHANGED <<broker_up, table, worker_hold, post_queue, handler, due, to_worker, bounds>>

(* linger is 0: what was not received is lost from some message on.        *)
CloseSocket(w) ==
  /\ connection[w] = "leaving"
  /\ connection' = [connection EXCEPT ![w] = "closed"]
  /\ \E n \in IF broker_up THEN 0..Len(to_broker[w]) ELSE {0} :
       to_broker' = [to_broker EXCEPT ![w] = SubSeq(@, 1, n)]
  /\ to_worker' = [to_worker EXCEPT ![w] = <<>>]
  /\ UNCHANGED <<broker_up, table, worker_hold, post_queue, handler, due, bounds>>

OpenSocket(w) ==
  /\ connection[w] = "closed"
  /\ connection' = [connection EXCEPT ![w] = "opened"]
  /\ UNCHANGED <<broker_up, table, worker_hold, post_queue, handler, due, sockets, bounds>>

HoldStays(w) == worker_hold                      \* mutant: no keepaliver.restart
HoldRestarts(w) == [worker_hold EXCEPT ![w] = Multiplier]

SendReady(w) ==
  /\ connection[w] = "opened"
  /\ connection' = [connection EXCEPT ![w] = "up"]
  /\ ToBroker(w, "READY")
  /\ worker_hold' = HoldRestarts(w)
  /\ worker_due' = [worker_due EXCEPT ![w] = FALSE]
  /\ UNCHANGED <<broker_up, table, post_queue, handler, broker_due, to_worker, bounds>>

(* The keepalive thread catches what a closed socket throws, and uses the  *)
(* new socket only after restart.                                          *)
SendKeepaliveToBroker(w) ==
  /\ connection[w] # "down" /\ worker_due[w]
  /\ worker_due' = [worker_due EXCEPT ![w] = FALSE]
  /\ IF connection[w] = "opened" THEN UNCHANGED to_broker ELSE ToBroker(w, "KEEPALIVE")
  /\ UNCHANGED <<broker_up, table, worker, broker_due, to_worker, bounds>>

(* A handler thread acknowledges a POST with whatever socket there is.     *)
SendResponse(w) ==
  /\ connection[w] # "down" /\ handler[w] = "alive"
  /\ post_queue[w] > 0
  /\ post_queue' = [post_queue EXCEPT ![w] = @ - 1]
  /\ ToBroker(w, "RESPONSE")
  /\ handler' = IF connection[w] = "closed"
                THEN [handler EXCEPT ![w] = "dead"] ELSE handler
  /\ UNCHANGED <<broker_up, table, connection, worker_hold, due, to_worker, bounds>>

StartWorker(w) ==
  /\ connection[w] = "down"
  /\ connection' = [connection EXCEPT ![w] = "opened"]
  /\ handler' = [handler EXCEPT ![w] = "alive"]
  /\ quiet' = 0
  /\ UNCHANGED <<broker_up, table, worker_hold, post_queue, due, sockets, faults, posts>>

-----------------------------------------------------------------------------
(***************************************************************************)
(* Faults and time.                                                        *)
(***************************************************************************)
Fault ==
  /\ faults < MaxFaults
  /\ faults' = faults + 1
  /\ quiet' = 0
  /\ UNCHANGED posts

LoseMessages(w) ==
  /\ Fault
  /\ \/ to_broker[w] # <<>> /\ to_broker' = [to_broker EXCEPT ![w] = <<>>] /\ UNCHANGED to_worker
     \/ to_worker[w] # <<>> /\ to_worker' = [to_worker EXCEPT ![w] = <<>>] /\ UNCHANGED to_broker
  /\ UNCHANGED <<broker_up, table, worker, due>>

(* Killed, or destroyed: destroy says nothing to the broker either.        *)
StopWorker(w) ==
  /\ Fault
  /\ connection[w] # "down"
  /\ connection' = [connection EXCEPT ![w] = "down"]
  /\ worker_hold' = [worker_hold EXCEPT ![w] = 0]
  /\ worker_due' = [worker_due EXCEPT ![w] = FALSE]
  /\ post_queue' = [post_queue EXCEPT ![w] = 0]
  /\ to_worker' = [to_worker EXCEPT ![w] = <<>>]
  /\ UNCHANGED <<broker_up, table, handler, broker_due, to_broker>>

(* A killed broker says nothing, a destroyed one sends DISCONNECT to all.  *)
StopBroker ==
  /\ Fault
  /\ broker_up
  /\ broker_up' = FALSE
  /\ ready' = {} /\ members' = Zero /\ keepalivers' = {} /\ broker_hold' = Zero
  /\ broker_due' = Nobody
  /\ to_worker' \in {to_worker, Delivered(to_worker, ready, "DISCONNECT")}
  /\ to_broker' \in {to_broker, Silence}
  /\ UNCHANGED <<worker, worker_due>>

StartBroker ==
  /\ ~broker_up
  /\ broker_up' = TRUE
  /\ quiet' = 0
  /\ UNCHANGED <<table, worker, due, sockets, faults, posts>>

(* Nobody is behind.                                                       *)
BrokerIsPrompt ==
  /\ to_broker = Silence
  /\ Expired = {}
  /\ \A w \in keepalivers : ~broker_due[w]
WorkerIsPrompt(w) ==
  /\ to_worker[w] = <<>>
  /\ connection[w] = "up" /\ worker_hold[w] > 0
  /\ ~worker_due[w]
IsPrompt ==
  /\ broker_up => BrokerIsPrompt
  /\ \A w \in Workers : connection[w] # "down" => WorkerIsPrompt(w)

Less(n) == IF n > 0 THEN n - 1 ELSE 0
PassTime ==
  /\ broker_hold' = [w \in Workers |-> Less(broker_hold[w])]
  /\ worker_hold' = [w \in Workers |-> Less(worker_hold[w])]
  /\ broker_due' = [w \in Workers |-> w \in keepalivers]
  /\ worker_due' = [w \in Workers |-> connection[w] # "down"]
  /\ UNCHANGED <<broker_up, ready, members, keepalivers, connection, post_queue, handler,
                 sockets>>

Tick ==
  /\ IsPrompt
  /\ PassTime
  /\ quiet' = IF broker_up /\ quiet < MaxQuiet THEN quiet + 1 ELSE quiet
  /\ UNCHANGED <<faults, posts>>

Delay == ~IsPrompt /\ PassTime /\ Fault

-----------------------------------------------------------------------------
Next ==
  \/ PurgeWorkers \/ StopBroker \/ StartBroker \/ Tick \/ Delay
  \/ \E service \in Services :
       \/ DispatchToAll(service) \/ DispatchToAny(service)
       \/ \E names \in SUBSET Workers : DispatchByName(service, names)
  \/ \E w \in Workers :
       \/ ProcessReady(w) \/ ProcessKeepalive(w) \/ ProcessDisconnect(w) \/ ProcessResponse(w)
       \/ SendKeepaliveToWorker(w)
       \/ Recv(w) \/ SendDisconnect(w) \/ CloseSocket(w) \/ OpenSocket(w) \/ SendReady(w)
       \/ SendKeepaliveToBroker(w) \/ SendResponse(w)
       \/ StartWorker(w) \/ StopWorker(w) \/ LoseMessages(w)

Spec == Init /\ [][Next]_vars

(* The threads of broker and workers run, their sockets deliver, a stopped *)
(* broker is started again and time goes by.  Nobody starts a worker.      *)
BrokerStep(w) ==
  ProcessReady(w) \/ ProcessKeepalive(w) \/ ProcessDisconnect(w) \/ ProcessResponse(w)
ReconnectStep(w) == SendDisconnect(w) \/ CloseSocket(w) \/ OpenSocket(w) \/ SendReady(w)

Fairness ==
  /\ WF_vars(Tick) /\ WF_vars(PurgeWorkers) /\ WF_vars(StartBroker)
  /\ \A w \in Workers :
       /\ WF_vars(BrokerStep(w)) /\ WF_vars(SendKeepaliveToWorker(w))
       /\ WF_vars(Recv(w)) /\ WF_vars(ReconnectStep(w)) /\ WF_vars(SendKeepaliveToBroker(w))

FairSpec == Spec /\ Fairness
=============================================================================
