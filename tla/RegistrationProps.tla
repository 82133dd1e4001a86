-------------------------- MODULE RegistrationProps --------------------------
(* What broker and workers may believe of each other (see Registration).   *)
EXTENDS Registration

(* Every variable keeps its shape.                                         *)
BrokerOK ==
  /\ broker_up \in BOOLEAN
  /\ ready \subseteq Workers /\ keepalivers \subseteq Workers
  /\ members \in [Workers -> 0..1]
  /\ broker_hold \in [Workers -> 0..Multiplier]
  /\ broker_due \in [Workers -> BOOLEAN]
WorkerOK ==
  /\ connection \in [Workers -> Steps \cup {"up", "down"}]
  /\ worker_hold \in [Workers -> 0..Multiplier]
  /\ worker_due \in [Workers -> BOOLEAN]
  /\ post_queue \in [Workers -> Nat]
  /\ handler \in [Workers -> {"alive", "dead"}]
WorkerCommands == {"READY", "KEEPALIVE", "DISCONNECT", "RESPONSE"}
BrokerCommands == {"KEEPALIVE", "POST", "DISCONNECT"}
SocketsOK ==
  /\ to_broker \in [Workers -> Seq(WorkerCommands)]
  /\ to_worker \in [Workers -> Seq(BrokerCommands)]
BoundsOK == faults \in 0..MaxFaults /\ posts \in 0..MaxPosts /\ quiet \in 0..MaxQuiet
TypeOK == BrokerOK /\ WorkerOK /\ SocketsOK /\ BoundsOK

(* The list of a service holds each of its registered workers exactly once *)
(* and nobody else, and a keepalive thread runs for exactly these          *)
(* (process_worker, delete_worker).                                        *)
TableIsConsistent ==
  /\ \A w \in Workers : members[w] = IF w \in ready THEN 1 ELSE 0
  /\ keepalivers = ready

(* Broker and workers agree again once nothing has gone wrong for twice    *)
(* the holdtime, whatever was lost, late or restarted before: every worker *)
(* that runs is registered and connected, and none that does not.          *)
AgreesAgain ==
  quiet > 2 * Multiplier =>
    \A w \in Workers : (w \in ready) <=> (connection[w] = "up")

(* In the end every worker that runs stays connected and registered: a     *)
(* reconnect does not lead to the next one (recv, KeepAliver.restart).     *)
StaysRegistered ==
  <>[](\A w \in Workers : connection[w] # "down" => connection[w] = "up" /\ w \in ready)

(* The broker sends nothing to a worker that left or expired, except that  *)
(* it stops itself, and a POST only to workers whose holdtime runs         *)
(* (dispatch, delete_worker).                                              *)
OnlyLiveWorkersAreSent ==
  [][\A w \in Workers :
       Len(to_worker'[w]) > Len(to_worker[w]) =>
         LET m == to_worker'[w][Len(to_worker'[w])]
         IN  /\ m = "KEEPALIVE" => w \in ready'
             /\ m = "POST" => w \in ready' /\ broker_hold'[w] > 0]_vars
=============================================================================
