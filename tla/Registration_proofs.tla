------------------------- MODULE Registration_proofs -------------------------
(* Proofs of what RegistrationProps says of the broker's table, for every  *)
(* set of workers and services and all bounds.                             *)
EXTENDS RegistrationProps, TLAPS

(* The table with the list of every service and the keepalive threads; the *)
(* type of the list, that nobody is in it twice, needs the whole of it.    *)
IInv == TypeOK /\ TableIsConsistent

Consistent(r, m) == \A w \in Workers : m[w] = IF w \in r THEN 1 ELSE 0
Holds == [Workers -> 0..Multiplier]

-----------------------------------------------------------------------------
(* purge_workers leaves a consistent table behind, of unexpired workers.   *)
LEMMA PurgeTable ==
  ASSUME NEW r \in SUBSET Workers, NEW m \in [Workers -> Nat], NEW h \in Holds,
         Consistent(r, m), Purge(r, m, r, h)
  PROVE  /\ ready' \in SUBSET Workers /\ ready' \subseteq r /\ keepalivers' = ready'
         /\ members' \in [Workers -> 0..1] /\ broker_hold' = h
         /\ \A w \in Workers : members'[w] = IF w \in ready' THEN 1 ELSE 0
         /\ \A w \in ready' : broker_hold'[w] > 0
<1> DEFINE gone == {w \in r : h[w] = 0}
<1>1. /\ ready' = r \ gone /\ keepalivers' = r \ gone /\ broker_hold' = h
      /\ members' = [w \in Workers |-> IF w \in gone THEN m[w] - 1 ELSE m[w]]
  BY DEF Purge, Stopped
<1>2. \A w \in Workers : members'[w] = IF w \in ready' THEN 1 ELSE 0
  BY <1>1 DEF Consistent
<1>3. members' \in [Workers -> 0..1]
  <2>1. members' = [w \in Workers |-> members'[w]]
    BY <1>1
  <2> QED
    BY <1>2, <2>1
<1>4. \A w \in ready' : broker_hold'[w] > 0
  BY <1>1, RegistrationAssumption DEF Holds
<1> QED
  BY <1>1, <1>2, <1>3, <1>4

(* What the broker does to its table is a purge of a consistent table, and *)
(* the holdtimes it leaves are holdtimes.                                  *)
TableStep ==
  /\ ready' \in SUBSET Workers /\ keepalivers' = ready'
  /\ members' \in [Workers -> 0..1] /\ broker_hold' \in Holds
  /\ \A w \in Workers : members'[w] = IF w \in ready' THEN 1 ELSE 0

(* A step of mediate that took a message of a worker.                      *)
LEMMA FromWorkerTable ==
  ASSUME IInv, NEW w \in Workers,
         ProcessReady(w) \/ ProcessKeepalive(w) \/ ProcessDisconnect(w) \/ ProcessResponse(w)
  PROVE  TableStep
<1>t. /\ ready \in SUBSET Workers /\ members \in [Workers -> 0..1] /\ broker_hold \in Holds
      /\ Consistent(ready, members) /\ keepalivers = ready
  BY DEF IInv, TypeOK, BrokerOK, TableIsConsistent, Consistent, Holds
<1>k. [broker_hold EXCEPT ![w] = Multiplier] \in Holds
  BY <1>t, RegistrationAssumption DEF Holds
<1>1. ASSUME NEW r \in SUBSET Workers, NEW m \in [Workers -> Nat], NEW h \in Holds,
             Consistent(r, m), Purge(r, m, r, h)
      PROVE  TableStep
  BY <1>1, PurgeTable DEF TableStep
<1>2. CASE Purge(ready, members, keepalivers, broker_hold)
  <2>1. members \in [Workers -> Nat]
    BY <1>t
  <2> QED
    BY <1>t, <1>1, <1>2, <2>1
<1>3. CASE ProcessReady(w)
  <2>1. CASE w \in ready
    BY <1>2, <1>3, <2>1 DEF ProcessReady, IsNew
  <2>2. CASE w \notin ready
    <3> DEFINE m == [members EXCEPT ![w] = @ + 1]
    <3>1. Consistent(ready \cup {w}, m) /\ m \in [Workers -> Nat]
      BY <1>t, <2>2 DEF Consistent
    <3>2. Purge(ready \cup {w}, m, keepalivers \cup {w}, [broker_hold EXCEPT ![w] = Multiplier])
      BY <1>3, <2>2 DEF ProcessReady, IsNew
    <3> HIDE DEF m
    <3> QED
      BY <1>t, <1>k, <1>1, <3>1, <3>2
  <2> QED
    BY <2>1, <2>2
<1>4. CASE ProcessKeepalive(w)
  <2>1. CASE w \in ready
    <3>1. Purge(ready, members, keepalivers, [broker_hold EXCEPT ![w] = Multiplier])
      BY <1>4, <2>1 DEF ProcessKeepalive
    <3>2. members \in [Workers -> Nat]
      BY <1>t
    <3> QED
      BY <1>t, <1>k, <1>1, <3>1, <3>2
  <2>2. CASE w \notin ready
    BY <1>2, <1>4, <2>2 DEF ProcessKeepalive
  <2> QED
    BY <2>1, <2>2
<1>5. CASE ProcessDisconnect(w)
  <2>1. CASE w \in ready
    <3> DEFINE m == [members EXCEPT ![w] = @ - 1]
    <3>1. Consistent(ready \ {w}, m)
      BY <1>t, <2>1 DEF Consistent
    <3>2. m \in [Workers -> Nat]
      BY <1>t, <2>1 DEF Consistent
    <3>3. Purge(ready \ {w}, m, ready \ {w}, broker_hold)
      BY <1>t, <1>5, <2>1 DEF ProcessDisconnect, Stopped
    <3> HIDE DEF m
    <3> QED
      BY <1>t, <1>1, <3>1, <3>2, <3>3
  <2>2. CASE w \notin ready
    BY <1>2, <1>5, <2>2 DEF ProcessDisconnect
  <2> QED
    BY <2>1, <2>2
<1>6. CASE ProcessResponse(w)
  BY <1>2, <1>6 DEF ProcessResponse
<1> QED
  BY <1>3, <1>4, <1>5, <1>6

(* A step that only purges.                                                *)
LEMMA OnlyPurges ==
  ASSUME IInv, Purge(ready, members, keepalivers, broker_hold)
  PROVE  TableStep /\ (\A w \in ready' : broker_hold'[w] > 0) /\ ready' = Present
<1>1. /\ ready \in SUBSET Workers /\ members \in [Workers -> Nat] /\ broker_hold \in Holds
      /\ Consistent(ready, members) /\ keepalivers = ready
  BY DEF IInv, TypeOK, BrokerOK, TableIsConsistent, Consistent, Holds
<1>2. TableStep /\ (\A w \in ready' : broker_hold'[w] > 0)
  BY <1>1, PurgeTable DEF TableStep
<1>3. ready' = Present
  BY DEF Purge, Present, Expired
<1> QED
  BY <1>2, <1>3

-----------------------------------------------------------------------------
(* Which steps send a POST, and to whom.                                   *)
SendsPost == \E ws \in SUBSET Present : SendPost(ws)

(* Every dispatching step sends to workers that dispatch's purge left.     *)
LEMMA DispatchSends ==
  ASSUME NEW service \in Services,
         \/ DispatchToAll(service) \/ DispatchToAny(service)
         \/ \E names \in SUBSET Workers : DispatchByName(service, names)
  PROVE  SendsPost
<1>1. CASE DispatchToAll(service)
  BY <1>1 DEF DispatchToAll, Listed, SendsPost
<1>2. CASE DispatchToAny(service)
  <2>1. PICK w \in Listed(service) : SendPost({w})
    BY <1>2 DEF DispatchToAny
  <2>2. {w} \in SUBSET Present
    BY <2>1 DEF Listed
  <2> QED
    BY <2>1, <2>2 DEF SendsPost
<1>3. ASSUME NEW names \in SUBSET Workers, DispatchByName(service, names) PROVE SendsPost
  <2>1. SendPost(names \cap Present) /\ names \cap Present \in SUBSET Present
    BY <1>3 DEF DispatchByName
  <2> QED
    BY <2>1 DEF SendsPost
<1> QED
  BY <1>1, <1>2, <1>3

(* Next, with the dispatching steps as one.                                *)
WorkerStep(w) ==
  \/ Recv(w) \/ SendDisconnect(w) \/ CloseSocket(w) \/ OpenSocket(w) \/ SendReady(w)
  \/ SendKeepaliveToBroker(w) \/ SendResponse(w)
  \/ StartWorker(w) \/ StopWorker(w) \/ LoseMessages(w)

(* The cases of Next.                                                      *)
LEMMA NextCases ==
  ASSUME Next
  PROVE  \/ PurgeWorkers \/ StopBroker \/ StartBroker \/ Tick \/ Delay \/ SendsPost
         \/ \E w \in Workers : BrokerStep(w) \/ SendKeepaliveToWorker(w) \/ WorkerStep(w)
  BY DispatchSends DEF Next, BrokerStep, WorkerStep

-----------------------------------------------------------------------------
(* Every step leaves a consistent table of the right type.                 *)
LEMMA NextTable ==
  ASSUME IInv, [Next]_vars
  PROVE  TableStep
<1>t. /\ ready \in SUBSET Workers /\ keepalivers = ready
      /\ members \in [Workers -> 0..1] /\ broker_hold \in Holds
      /\ \A w \in Workers : members[w] = IF w \in ready THEN 1 ELSE 0
  BY DEF IInv, TypeOK, BrokerOK, TableIsConsistent, Holds
<1>1. UNCHANGED table => TableStep
  BY <1>t DEF table, TableStep
<1>2. CASE PurgeWorkers \/ SendsPost
  BY <1>2, OnlyPurges DEF PurgeWorkers, SendsPost, SendPost
<1>3. CASE StopBroker
  <2>1. Zero \in [Workers -> 0..1] /\ Zero \in Holds /\ \A w \in Workers : Zero[w] = 0
    BY RegistrationAssumption DEF Zero, Holds
  <2>2. ready' = {} /\ members' = Zero /\ keepalivers' = {} /\ broker_hold' = Zero
    BY <1>3 DEF StopBroker
  <2> QED
    BY <2>1, <2>2 DEF TableStep
<1>4. CASE Tick \/ Delay
  <2>1. /\ UNCHANGED <<ready, members, keepalivers>>
        /\ broker_hold' = [w \in Workers |-> Less(broker_hold[w])]
    BY <1>4 DEF Tick, Delay, PassTime
  <2>2. broker_hold' \in Holds
    BY <1>t, <2>1, RegistrationAssumption DEF Holds, Less
  <2> QED
    BY <1>t, <2>1, <2>2 DEF TableStep
<1>5. ASSUME NEW w \in Workers, BrokerStep(w) PROVE TableStep
  BY <1>5, FromWorkerTable DEF BrokerStep
<1>6. ASSUME NEW w \in Workers, SendKeepaliveToWorker(w) \/ WorkerStep(w) PROVE UNCHANGED table
  BY <1>6 DEF SendKeepaliveToWorker, WorkerStep, Recv, SendDisconnect, CloseSocket, OpenSocket,
     SendReady, SendKeepaliveToBroker, SendResponse, StartWorker, StopWorker, LoseMessages
<1>7. StartBroker \/ UNCHANGED vars => UNCHANGED table
  BY DEF StartBroker, vars
<1> QED
  BY <1>1, <1>2, <1>3, <1>4, <1>5, <1>6, <1>7, NextCases

(* The queues of the sockets hold messages of their kind.                  *)
LEMMA Sent ==
  ASSUME NEW w \in Workers, NEW m \in WorkerCommands,
         to_broker \in [Workers -> Seq(WorkerCommands)], ToBroker(w, m)
  PROVE  to_broker' \in [Workers -> Seq(WorkerCommands)]
<1>1. Append(to_broker[w], m) \in Seq(WorkerCommands)
  OBVIOUS
<1> QED
  BY <1>1 DEF ToBroker

(* The same for the queues of the workers.                                 *)
LEMMA Arrived ==
  ASSUME NEW ws, NEW m \in BrokerCommands, to_worker \in [Workers -> Seq(BrokerCommands)]
  PROVE  Delivered(to_worker, ws, m) \in [Workers -> Seq(BrokerCommands)]
<1>1. \A w \in Workers : Append(to_worker[w], m) \in Seq(BrokerCommands)
  OBVIOUS
<1> QED
  BY <1>1 DEF Delivered

(* Every step keeps the sockets' queues well-formed.                       *)
LEMMA NextSockets ==
  ASSUME IInv, [Next]_vars
  PROVE  SocketsOK'
<1>t. /\ to_broker \in [Workers -> Seq(WorkerCommands)]
      /\ to_worker \in [Workers -> Seq(BrokerCommands)]
  BY DEF IInv, TypeOK, SocketsOK
<1>c. /\ "READY" \in WorkerCommands /\ "KEEPALIVE" \in WorkerCommands
      /\ "DISCONNECT" \in WorkerCommands /\ "RESPONSE" \in WorkerCommands
      /\ "KEEPALIVE" \in BrokerCommands /\ "POST" \in BrokerCommands
      /\ "DISCONNECT" \in BrokerCommands
  BY DEF WorkerCommands, BrokerCommands
<1>1. UNCHANGED sockets => SocketsOK'
  BY <1>t DEF sockets, SocketsOK
<1>2. PurgeWorkers \/ StartBroker \/ Tick \/ Delay \/ UNCHANGED vars => UNCHANGED sockets
  BY DEF PurgeWorkers, StartBroker, Tick, Delay, PassTime, vars
<1>3. CASE SendsPost
  <2>1. PICK ws \in SUBSET Present : SendPost(ws)
    BY <1>3 DEF SendsPost
  <2>2. to_worker' = Delivered(to_worker, ws, "POST") /\ to_broker' = to_broker
    BY <2>1 DEF SendPost
  <2> QED
    BY <1>t, <1>c, <2>2, Arrived DEF SocketsOK
<1>4. CASE StopBroker
  <2>1. /\ to_worker' \in {to_worker, Delivered(to_worker, ready, "DISCONNECT")}
        /\ to_broker' \in {to_broker, Silence}
    BY <1>4 DEF StopBroker
  <2>2. Silence \in [Workers -> Seq(WorkerCommands)]
    BY DEF Silence
  <2> QED
    BY <1>t, <1>c, <2>1, <2>2, Arrived DEF SocketsOK
<1>5. ASSUME NEW w \in Workers, BrokerStep(w) PROVE SocketsOK'
  <2>1. /\ to_broker[w] # <<>> /\ to_broker' = [to_broker EXCEPT ![w] = Tail(@)]
        /\ to_worker' = to_worker
    BY <1>5 DEF BrokerStep, ProcessReady, ProcessKeepalive, ProcessDisconnect,
                ProcessResponse, TakeFromWorker
  <2>2. Tail(to_broker[w]) \in Seq(WorkerCommands)
    BY <1>t, <2>1
  <2> QED
    BY <1>t, <2>1, <2>2 DEF SocketsOK
<1>6. ASSUME NEW w \in Workers, SendKeepaliveToWorker(w) PROVE SocketsOK'
  BY <1>t, <1>c, <1>6, Arrived DEF SendKeepaliveToWorker, SocketsOK
<1>7. ASSUME NEW w \in Workers, WorkerStep(w) PROVE SocketsOK'
  <2>1. CASE Recv(w)
    <3>1. /\ to_worker[w] # <<>> /\ to_worker' = [to_worker EXCEPT ![w] = Tail(@)]
          /\ to_broker' = to_broker
      BY <2>1 DEF Recv
    <3>2. Tail(to_worker[w]) \in Seq(BrokerCommands)
      BY <1>t, <3>1
    <3> QED
      BY <1>t, <3>1, <3>2 DEF SocketsOK
  <2>2. CASE SendDisconnect(w)
    BY <1>t, <1>c, <2>2, Sent DEF SendDisconnect, SocketsOK
  <2>3. CASE CloseSocket(w)
    <3>1. PICK n \in IF broker_up THEN 0..Len(to_broker[w]) ELSE {0} :
            /\ to_broker' = [to_broker EXCEPT ![w] = SubSeq(@, 1, n)]
            /\ to_worker' = [to_worker EXCEPT ![w] = <<>>]
      BY <2>3 DEF CloseSocket
    <3>2. n \in 0..Len(to_broker[w])
      BY <1>t, <3>1
    <3>3. SubSeq(to_broker[w], 1, n) \in Seq(WorkerCommands)
      BY <1>t, <3>2
    <3>4. to_broker' \in [Workers -> Seq(WorkerCommands)]
      BY <1>t, <3>1, <3>3
    <3>5. to_worker' \in [Workers -> Seq(BrokerCommands)]
      BY <1>t, <3>1
    <3> QED
      BY <3>4, <3>5 DEF SocketsOK
  <2>4. CASE SendReady(w)
    BY <1>t, <1>c, <2>4, Sent DEF SendReady, SocketsOK
  <2>5. CASE SendKeepaliveToBroker(w)
    BY <1>t, <1>c, <2>5, Sent DEF SendKeepaliveToBroker, SocketsOK
  <2>6. CASE SendResponse(w)
    BY <1>t, <1>c, <2>6, Sent DEF SendResponse, SocketsOK
  <2>7. CASE StopWorker(w) \/ LoseMessages(w)
    <3>1. [to_broker EXCEPT ![w] = <<>>] \in [Workers -> Seq(WorkerCommands)]
      BY <1>t
    <3>2. [to_worker EXCEPT ![w] = <<>>] \in [Workers -> Seq(BrokerCommands)]
      BY <1>t
    <3>3. /\ to_broker' \in {to_broker, [to_broker EXCEPT ![w] = <<>>]}
          /\ to_worker' \in {to_worker, [to_worker EXCEPT ![w] = <<>>]}
      BY <2>7 DEF StopWorker, LoseMessages
    <3> QED
      BY <1>t, <3>1, <3>2, <3>3 DEF SocketsOK
  <2>8. CASE OpenSocket(w) \/ StartWorker(w)
    BY <1>1, <2>8 DEF OpenSocket, StartWorker
  <2> QED
    BY <1>7, <2>1, <2>2, <2>3, <2>4, <2>5, <2>6, <2>7, <2>8 DEF WorkerStep
<1> QED
  BY <1>1, <1>2, <1>3, <1>4, <1>5, <1>6, <1>7, NextCases

(* The timers, the workers and the bounds keep their shape.                *)
LEMMA NextWorkers ==
  ASSUME IInv, [Next]_vars
  PROVE  WorkerOK' /\ BoundsOK' /\ broker_up' \in BOOLEAN /\ broker_due' \in [Workers -> BOOLEAN]
<1> DEFINE Goal == /\ WorkerOK' /\ BoundsOK'
                   /\ broker_up' \in BOOLEAN /\ broker_due' \in [Workers -> BOOLEAN]
<1>t. /\ WorkerOK /\ BoundsOK
      /\ broker_up \in BOOLEAN /\ broker_due \in [Workers -> BOOLEAN]
  BY DEF IInv, TypeOK, BrokerOK
<1> USE RegistrationAssumption
<1>1. CASE PurgeWorkers \/ UNCHANGED vars
  BY <1>t, <1>1 DEF PurgeWorkers, vars, worker, due, bounds, WorkerOK, BoundsOK
<1>2. CASE SendsPost
  <2>1. /\ posts < MaxPosts /\ posts' = posts + 1
        /\ UNCHANGED <<broker_up, worker, due, faults, quiet>>
    BY <1>2 DEF SendsPost, SendPost
  <2> QED
    BY <1>t, <2>1 DEF worker, due, WorkerOK, BoundsOK
<1>3. CASE StopBroker
  <2>1. BoundsOK'
    BY <1>t, <1>3 DEF StopBroker, Fault, BoundsOK
  <2>2. broker_up' \in BOOLEAN /\ broker_due' \in [Workers -> BOOLEAN]
    BY <1>3 DEF StopBroker, Nobody
  <2>3. WorkerOK'
    BY <1>t, <1>3 DEF StopBroker, worker, WorkerOK
  <2> QED
    BY <2>1, <2>2, <2>3
<1>4. CASE StartBroker
  BY <1>t, <1>4 DEF StartBroker, worker, due, WorkerOK, BoundsOK
<1>5. CASE Tick \/ Delay
  <2>1. BoundsOK'
    BY <1>t, <1>5 DEF Tick, Delay, Fault, BoundsOK
  <2>2. PassTime
    BY <1>5 DEF Tick, Delay
  <2>3. worker_hold' \in [Workers -> 0..Multiplier]
    BY <1>t, <2>2 DEF PassTime, Less, WorkerOK
  <2>4. broker_due' \in [Workers -> BOOLEAN] /\ worker_due' \in [Workers -> BOOLEAN]
    BY <2>2 DEF PassTime
  <2>5. broker_up' \in BOOLEAN /\ UNCHANGED <<connection, post_queue, handler>>
    BY <1>t, <2>2 DEF PassTime
  <2> QED
    BY <1>t, <2>1, <2>3, <2>4, <2>5 DEF WorkerOK
<1>6. ASSUME NEW w \in Workers, BrokerStep(w) PROVE Goal
  <2>1. /\ UNCHANGED <<broker_up, worker, worker_due, bounds>>
        /\ broker_due' = broker_due \/ broker_due' = [broker_due EXCEPT ![w] = FALSE]
    BY <1>6 DEF BrokerStep, ProcessReady, ProcessKeepalive, ProcessDisconnect,
                ProcessResponse, TakeFromWorker
  <2>2. broker_due' \in [Workers -> BOOLEAN]
    BY <1>t, <2>1
  <2> QED
    BY <1>t, <2>1, <2>2 DEF worker, bounds, WorkerOK, BoundsOK
<1>7. ASSUME NEW w \in Workers, SendKeepaliveToWorker(w) PROVE Goal
  BY <1>t, <1>7 DEF SendKeepaliveToWorker, worker, bounds, WorkerOK, BoundsOK
<1>8. ASSUME NEW w \in Workers, WorkerStep(w) PROVE Goal
  <2> USE <1>t DEF WorkerOK, BoundsOK
  <2>1. CASE Recv(w)
    <3>1. /\ worker_hold' = worker_hold \/ worker_hold' = [worker_hold EXCEPT ![w] = Multiplier]
          /\ post_queue' = post_queue \/ post_queue' = [post_queue EXCEPT ![w] = @ + 1]
          /\ UNCHANGED <<broker_up, connection, handler, due, bounds>>
      BY <2>1 DEF Recv
    <3>2. worker_hold' \in [Workers -> 0..Multiplier] /\ post_queue' \in [Workers -> Nat]
      BY <3>1
    <3> QED
      BY <3>1, <3>2 DEF due, bounds
  <2>2. CASE SendDisconnect(w)
    BY <2>2 DEF SendDisconnect, Steps, due, bounds
  <2>3. CASE CloseSocket(w)
    BY <2>3 DEF CloseSocket, Steps, due, bounds
  <2>4. CASE OpenSocket(w)
    BY <2>4 DEF OpenSocket, Steps, due, bounds
  <2>5. CASE SendReady(w)
    BY <2>5 DEF SendReady, HoldRestarts, Steps, bounds
  <2>6. CASE SendKeepaliveToBroker(w)
    BY <2>6 DEF SendKeepaliveToBroker, worker, bounds
  <2>7. CASE SendResponse(w)
    <3>1. post_queue' \in [Workers -> Nat]
      BY <2>7 DEF SendResponse
    <3>2. handler' \in [Workers -> {"alive", "dead"}]
      BY <2>7 DEF SendResponse
    <3> QED
      BY <2>7, <3>1, <3>2 DEF SendResponse, due, bounds
  <2>8. CASE StartWorker(w)
    BY <2>8 DEF StartWorker, Steps, due
  <2>9. CASE StopWorker(w)
    BY <2>9 DEF StopWorker, Fault
  <2>10. CASE LoseMessages(w)
    BY <2>10 DEF LoseMessages, Fault, worker, due
  <2> QED
    BY <1>8, <2>1, <2>2, <2>3, <2>4, <2>5, <2>6, <2>7, <2>8, <2>9, <2>10 DEF WorkerStep
<1> QED
  BY <1>1, <1>2, <1>3, <1>4, <1>5, <1>6, <1>7, <1>8, NextCases

-----------------------------------------------------------------------------
(* Init makes the invariant true.                                          *)
LEMMA InitInv == Init => IInv
<1> SUFFICES ASSUME Init PROVE IInv
  OBVIOUS
<1> USE RegistrationAssumption DEF Init, Nobody, Zero, Silence
<1>1. BrokerOK
  BY DEF BrokerOK
<1>2. WorkerOK
  BY DEF WorkerOK
<1>3. SocketsOK /\ BoundsOK
  BY DEF SocketsOK, BoundsOK
<1>4. TableIsConsistent
  BY DEF TableIsConsistent
<1> QED
  BY <1>1, <1>2, <1>3, <1>4 DEF IInv, TypeOK

(* Every step keeps it.                                                    *)
LEMMA NextInv == IInv /\ [Next]_vars => IInv'
<1> SUFFICES ASSUME IInv, [Next]_vars PROVE IInv'
  OBVIOUS
<1>1. TableStep
  BY NextTable
<1>2. WorkerOK' /\ BoundsOK' /\ broker_up' \in BOOLEAN /\ broker_due' \in [Workers -> BOOLEAN]
  BY NextWorkers
<1>3. SocketsOK'
  BY NextSockets
<1>4. BrokerOK' /\ TableIsConsistent'
  BY <1>1, <1>2 DEF TableStep, BrokerOK, TableIsConsistent, Holds
<1> QED
  BY <1>2, <1>3, <1>4 DEF IInv, TypeOK

(* The invariant holds in every behaviour of broker and workers.           *)
THEOREM Invariance == Spec => []IInv
  BY InitInv, NextInv, PTL DEF Spec

(* The broker's table, the workers, the sockets and timers keep their      *)
(* shape.                                                                  *)
THEOREM TypeCorrect == Spec => []TypeOK
<1>1. IInv => TypeOK
  BY DEF IInv
<1> QED
  BY <1>1, Invariance, PTL

(* process_worker and delete_worker keep the list of a service, the table  *)
(* and the keepalive threads in step.                                      *)
THEOREM ConsistentTable == Spec => []TableIsConsistent
<1>1. IInv => TableIsConsistent
  BY DEF IInv
<1> QED
  BY <1>1, Invariance, PTL

(* What a step that only delivers may add to a worker's queue.             *)
LEMMA DeliveredLast ==
  ASSUME NEW ws, NEW m \in BrokerCommands, NEW w \in Workers,
         to_worker \in [Workers -> Seq(BrokerCommands)],
         to_worker' = Delivered(to_worker, ws, m),
         Len(to_worker'[w]) > Len(to_worker[w])
  PROVE  w \in ws /\ to_worker'[w][Len(to_worker'[w])] = m
<1>1. to_worker'[w] \in {to_worker[w], Append(to_worker[w], m)}
  BY DEF Delivered
<1>2. w \in ws
  BY DEF Delivered
<1>3. to_worker[w] \in Seq(BrokerCommands)
  OBVIOUS
<1>4. to_worker'[w] = Append(to_worker[w], m)
  BY <1>1, <1>3
<1> QED
  BY <1>2, <1>3, <1>4

(* What a step may add to the queue of a worker, OnlyLiveWorkersAreSent.   *)
LiveOnly(w) ==
  Len(to_worker'[w]) > Len(to_worker[w]) =>
    LET m == to_worker'[w][Len(to_worker'[w])]
    IN  /\ m = "KEEPALIVE" => w \in ready'
        /\ m = "POST" => w \in ready' /\ broker_hold'[w] > 0

(* No step sends to a worker that is gone, nor a POST to an expired one.   *)
LEMMA NextLiveOnly ==
  ASSUME IInv, Next, NEW w \in Workers
  PROVE  LiveOnly(w)
<1>t. to_worker \in [Workers -> Seq(BrokerCommands)] /\ keepalivers = ready
  BY DEF IInv, TypeOK, SocketsOK, TableIsConsistent
<1>c. "KEEPALIVE" \in BrokerCommands /\ "POST" \in BrokerCommands /\ "DISCONNECT" \in BrokerCommands
  BY DEF BrokerCommands
<1>l. to_worker[w] \in Seq(BrokerCommands) /\ ~(Len(to_worker[w]) > Len(to_worker[w]))
  BY <1>t
<1>1. to_worker'[w] = to_worker[w] => LiveOnly(w)
  BY <1>l DEF LiveOnly
<1>2. CASE SendsPost
  <2>1. PICK ws \in SUBSET Present : SendPost(ws)
    BY <1>2 DEF SendsPost
  <2>2. to_worker' = Delivered(to_worker, ws, "POST")
    BY <2>1 DEF SendPost
  <2>3. (\A v \in ready' : broker_hold'[v] > 0) /\ ready' = Present
    BY <2>1, OnlyPurges DEF SendPost
  <2> QED
    BY <1>t, <1>c, <2>2, <2>3, DeliveredLast DEF LiveOnly
<1>3. CASE StopBroker
  <2>1. to_worker' = to_worker \/ to_worker' = Delivered(to_worker, ready, "DISCONNECT")
    BY <1>3 DEF StopBroker
  <2> QED
    BY <1>t, <1>c, <1>1, <2>1, DeliveredLast DEF LiveOnly
<1>4. ASSUME NEW v \in Workers, SendKeepaliveToWorker(v) PROVE LiveOnly(w)
  <2>1. to_worker' = Delivered(to_worker, {v}, "KEEPALIVE") /\ v \in ready /\ ready' = ready
    BY <1>t, <1>4 DEF SendKeepaliveToWorker, table
  <2> SUFFICES ASSUME Len(to_worker'[w]) > Len(to_worker[w]) PROVE LiveOnly(w)
    BY DEF LiveOnly
  <2>2. w \in {v} /\ to_worker'[w][Len(to_worker'[w])] = "KEEPALIVE"
    BY <1>t, <1>c, <2>1, DeliveredLast
  <2> QED
    BY <2>1, <2>2 DEF LiveOnly
<1>5. CASE PurgeWorkers \/ StartBroker \/ Tick \/ Delay
  BY <1>1, <1>5 DEF PurgeWorkers, StartBroker, Tick, Delay, PassTime, sockets
<1>6. ASSUME NEW v \in Workers, BrokerStep(v) PROVE LiveOnly(w)
  BY <1>1, <1>6 DEF BrokerStep, ProcessReady, ProcessKeepalive, ProcessDisconnect,
                    ProcessResponse, TakeFromWorker
<1>7. ASSUME NEW v \in Workers, WorkerStep(v) PROVE LiveOnly(w)
  <2>1. CASE Recv(v)
    <3>1. to_worker' = [to_worker EXCEPT ![v] = Tail(@)] /\ to_worker[v] # <<>>
      BY <2>1 DEF Recv
    <3>2. to_worker'[w] = to_worker[w] \/ Len(to_worker'[w]) = Len(to_worker[w]) - 1
      BY <1>t, <3>1
    <3> QED
      BY <1>1, <1>t, <3>2 DEF LiveOnly
  <2>2. CASE CloseSocket(v) \/ StopWorker(v) \/ LoseMessages(v)
    <3>1. to_worker' = to_worker \/ to_worker' = [to_worker EXCEPT ![v] = <<>>]
      BY <2>2 DEF CloseSocket, StopWorker, LoseMessages
    <3>2. to_worker'[w] = to_worker[w] \/ to_worker'[w] = <<>>
      BY <1>t, <3>1
    <3> QED
      BY <1>1, <1>t, <3>2 DEF LiveOnly
  <2>3. CASE \/ SendDisconnect(v) \/ OpenSocket(v) \/ SendReady(v)
             \/ SendKeepaliveToBroker(v) \/ SendResponse(v) \/ StartWorker(v)
    BY <1>1, <2>3 DEF SendDisconnect, OpenSocket, SendReady, SendKeepaliveToBroker,
                      SendResponse, StartWorker, sockets
  <2> QED
    BY <1>7, <2>1, <2>2, <2>3 DEF WorkerStep
<1> QED
  BY <1>2, <1>3, <1>4, <1>5, <1>6, <1>7, NextCases

(* dispatch and the keepalive threads send to registered workers only, and *)
(* a POST only where the holdtime runs.                                    *)
THEOREM SentToLiveWorkers == Spec => OnlyLiveWorkersAreSent
<1> DEFINE Live == \A w \in Workers : LiveOnly(w)
<1>1. IInv /\ [Next]_vars => [Live]_vars
  BY NextLiveOnly
<1>2. Live => \A w \in Workers :
         Len(to_worker'[w]) > Len(to_worker[w]) =>
           LET m == to_worker'[w][Len(to_worker'[w])]
           IN  /\ m = "KEEPALIVE" => w \in ready'
               /\ m = "POST" => w \in ready' /\ broker_hold'[w] > 0
  BY DEF LiveOnly
<1> HIDE DEF Live
<1>3. Spec => [][Live]_vars
  BY <1>1, Invariance, PTL DEF Spec
<1> QED
  BY <1>2, <1>3, PTL DEF OnlyLiveWorkersAreSent
=============================================================================
