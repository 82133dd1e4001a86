----------------------------- MODULE JobProtocol -----------------------------
(***************************************************************************)
(* One job of a client, from submit_job to the end of its future: the      *)
(* client's jobs table with the two threads that write it (core/client.py),*)
(* the broker's dispatching (core/broker.py) and one JobService per worker,*)
(* which is what WorkerJobs promises.                                      *)
(*                                                                         *)
(* The sockets between client and broker are FIFO sequences.  Between      *)
(* broker and worker only the number of waiting POSTs and GETs counts:     *)
(* the worker serves them from two queues with two threads.  What a worker *)
(* said is wire[w], of which the broker has taken forwarded[w] messages.   *)
(***************************************************************************)
EXTENDS Naturals, Sequences, FiniteSets

CONSTANTS
  Workers,      \* the workers of the service the job is for
  MaxPolls,     \* bound: GET requests of the client
  MaxChanges,   \* bound: workers expiring at, or registering with, the broker
  MaxCrashes    \* bound: restarts of the client, of the broker and of workers

ASSUME ConstantsAssumption ==
  MaxPolls \in Nat /\ MaxChanges \in Nat /\ MaxCrashes \in Nat

VARIABLES
  (* the client's jobs table, on disk *)
  status, workers_dispatched, workers_started, workers_completed,
  (* the client's memory *)
  future,       \* "open", "done", or "none" after a restart with the job over
  dispatcher,   \* "idle", "posted": SUBMITTING not written, "late": STALE not written
  deadline,     \* "ahead" or "passed"
  (* sockets and broker *)
  to_broker, to_client,
  registered,   \* the service's ready workers
  posts, gets,  \* POSTs and GETs waiting at each worker
  forwarded,    \* messages of each worker taken by the broker
  (* workers, see JobService *)
  level, result, wire,
  (* bounds and history *)
  polls, changes, crashes,
  posted_to,    \* workers the broker sent the POST to
  overwritten,  \* SUBMITTING was written over the outcome of a reply
  unanswered    \* a broker restart lost the POST, or what the broker said to it

row      == <<status, workers_dispatched, workers_started, workers_completed>>
client   == <<future, dispatcher, deadline>>
broker   == <<registered, posts, gets, forwarded>>
workers  == <<level, result, wire>>
bounds   == <<polls, changes, crashes>>
history  == <<posted_to, overwritten, unanswered>>
vars == <<row, client, to_broker, to_client, broker, workers, bounds, history>>

Active == {"DISPATCHED", "STARTED", "WAITING_CLIENT_INPUT"}
Ended == {"COMPLETED", "FAILED", "STALE"}
Statuses == {"NEW", "SUBMITTING"} \cup Active \cup Ended

Reply(code) == [code |-> code, outcome |-> IF code = "200" THEN "ran" ELSE "none"]
Replies == {Reply(code) : code \in {"201", "404", "300", "102", "200"}}
Worker == INSTANCE JobService WITH Jobs <- Workers, Messages <- Replies, Outcomes <- {"ran"}

(* A message to the client: the code, the worker it comes from, or the     *)
(* workers the broker dispatched to.                                       *)
FromWorker(w, m) == [code |-> m.code, workers |-> {w}]
FromBroker(code, ws) == [code |-> code, workers |-> ws]

-----------------------------------------------------------------------------
Init ==
  /\ status = "NEW"
  /\ workers_dispatched = {} /\ workers_started = {} /\ workers_completed = {}
  /\ future = "open" /\ dispatcher = "idle" /\ deadline = "ahead"
  /\ to_broker = <<>> /\ to_client = <<>>
  /\ registered \in SUBSET Workers
  /\ posts = [w \in Workers |-> 0] /\ gets = [w \in Workers |-> 0]
  /\ forwarded = [w \in Workers |-> 0]
  /\ Worker!Init
  /\ polls = 0 /\ changes = 0 /\ crashes = 0
  /\ posted_to = {} /\ overwritten = FALSE /\ unanswered = FALSE

(***************************************************************************)
(* dispatcher thread: dispatch_new_jobs sends the POST and then writes     *)
(* SUBMITTING; poll_active_jobs sends a GET to the workers the broker      *)
(* named, or gives the job up when its deadline has passed.  A job without *)
(* a future is left alone.                                                 *)
(***************************************************************************)
DispatchNew ==
  /\ dispatcher = "idle" /\ future # "none"
  /\ status = "NEW"
  /\ to_broker' = Append(to_broker, [command |-> "POST", target |-> Workers])
  /\ dispatcher' = "posted"
  /\ unanswered' = FALSE
  /\ UNCHANGED <<row, future, deadline, to_client, broker, workers, bounds, posted_to,
                 overwritten>>

WriteSubmitting ==
  /\ dispatcher = "posted"
  /\ status' = "SUBMITTING"
  /\ overwritten' = (overwritten \/ status # "NEW")
  /\ dispatcher' = "idle"
  /\ UNCHANGED <<workers_dispatched, workers_started, workers_completed, future, deadline,
                 to_broker, to_client, broker, workers, bounds, posted_to, unanswered>>

PollActive ==
  /\ dispatcher = "idle" /\ future # "none"
  /\ status \in Active
  /\ deadline = "ahead"
  /\ polls < MaxPolls
  /\ polls' = polls + 1
  /\ to_broker' = Append(to_broker, [command |-> "GET", target |-> workers_dispatched])
  /\ UNCHANGED <<row, client, to_client, broker, workers, changes, crashes, history>>

FindLate ==
  /\ dispatcher = "idle" /\ future # "none"
  /\ status \in Active
  /\ deadline = "passed"
  /\ dispatcher' = "late"
  /\ UNCHANGED <<row, future, deadline, to_broker, to_client, broker, workers, bounds,
                 history>>

MarkDone == future' = IF future = "open" THEN "done" ELSE future

WriteStale ==
  /\ dispatcher = "late"
  /\ status' = "STALE"
  /\ MarkDone
  /\ dispatcher' = "idle"
  /\ UNCHANGED <<workers_dispatched, workers_started, workers_completed, deadline,
                 to_broker, to_client, broker, workers, bounds, history>>

(***************************************************************************)
(* recv thread: handle_response.  It is the only writer of the three sets; *)
(* the status it writes replaces whatever status the row has by now.       *)
(***************************************************************************)
TakeReply(codes) ==
  /\ to_client # <<>>
  /\ Head(to_client).code \in codes
  /\ to_client' = Tail(to_client)
  /\ UNCHANGED <<dispatcher, deadline, to_broker, broker, workers, bounds, history>>

HandleDispatched ==
  /\ TakeReply({"202"})
  /\ status' = "DISPATCHED"
  /\ workers_dispatched' = Head(to_client).workers
  /\ UNCHANGED <<workers_started, workers_completed, future>>

HandleStarted ==
  /\ TakeReply({"201", "300"})
  /\ status' = "STARTED"
  /\ workers_started' = workers_started \cup Head(to_client).workers
  /\ UNCHANGED <<workers_dispatched, workers_completed, future>>

WaitingStatus == "WAITING_CLIENT_INPUT"

HandleWaiting ==
  /\ TakeReply({"102"})
  /\ status' = WaitingStatus
  /\ workers_started' = workers_started \cup Head(to_client).workers
  /\ UNCHANGED <<workers_dispatched, workers_completed, future>>

LatestOnly(new) == new                           \* mutant: result_data is replaced
Merged(new) == workers_completed \cup new

AnyResult(completed) == TRUE                     \* mutant: the first result will do
IsComplete(completed) == completed = workers_dispatched /\ workers_dispatched # {}

HandleResult ==
  /\ TakeReply({"200"})
  /\ workers_completed' = Merged(Head(to_client).workers)
  /\ IF IsComplete(workers_completed')
     THEN status' = "COMPLETED" /\ MarkDone
     ELSE status' = "STARTED" /\ UNCHANGED future
  /\ UNCHANGED <<workers_dispatched, workers_started>>

HandleError ==
  /\ TakeReply({"400", "404"})
  /\ status' = "FAILED"
  /\ MarkDone
  /\ UNCHANGED <<workers_dispatched, workers_started, workers_completed>>

DeadlinePasses ==
  /\ deadline' = "passed"
  /\ UNCHANGED <<row, future, dispatcher, to_broker, to_client, broker, workers, bounds,
                 history>>

(***************************************************************************)
(* The client is stopped, or killed, and started again: what was in its    *)
(* socket is lost, recover_job_futures makes a future for every job that   *)
(* is not over.                                                            *)
(***************************************************************************)
KeepSubmitting == status                         \* mutant: SUBMITTING is kept
Recovered == IF status = "SUBMITTING" THEN "NEW" ELSE status

RestartClient ==
  /\ crashes < MaxCrashes
  /\ crashes' = crashes + 1
  /\ to_client' = <<>>
  /\ to_broker' \in {to_broker, <<>>}
  /\ dispatcher' = "idle"
  /\ \/ status \in Ended /\ status' = status /\ future' = "none"
     \/ status \notin Ended /\ deadline = "passed" /\ status' = "STALE" /\ future' = "none"
     \/ status \notin Ended /\ deadline = "ahead" /\ status' = Recovered /\ future' = "open"
  /\ UNCHANGED <<workers_dispatched, workers_started, workers_completed, deadline, broker,
                 workers, polls, changes, history>>

(***************************************************************************)
(* Broker: dispatch answers the client first, with the workers it found or *)
(* with 400 when there are none, and then sends to each of them.           *)
(***************************************************************************)
AllRegistered(request) == registered             \* mutant: the target is not looked at
Found(request) == request.target \cap registered

Dispatch ==
  /\ to_broker # <<>>
  /\ to_broker' = Tail(to_broker)
  /\ LET command == Head(to_broker).command
         found == Found(Head(to_broker))
         one(w) == IF w \in found THEN 1 ELSE 0
         counted(queue) == [w \in Workers |-> queue[w] + one(w)]
     IN  IF found = {}
         THEN /\ to_client' = Append(to_client, FromBroker("400", {}))
              /\ UNCHANGED <<posts, gets, posted_to>>
         ELSE /\ to_client' = Append(to_client, FromBroker("202", found))
              /\ IF command = "POST"
                 THEN /\ posts' = counted(posts)
                      /\ posted_to' = posted_to \cup found
                      /\ UNCHANGED gets
                 ELSE gets' = counted(gets) /\ UNCHANGED <<posts, posted_to>>
  /\ UNCHANGED <<row, client, registered, forwarded, workers, bounds, overwritten, unanswered>>

(* process_worker: a RESPONSE is passed on when the worker is ready, else  *)
(* it is dropped.                                                          *)
Forward(w) ==
  /\ forwarded[w] < Len(wire[w])
  /\ forwarded' = [forwarded EXCEPT ![w] = @ + 1]
  /\ to_client' = IF w \in registered
                  THEN Append(to_client, FromWorker(w, wire[w][forwarded[w] + 1]))
                  ELSE to_client
  /\ UNCHANGED <<row, client, to_broker, registered, posts, gets, workers, bounds, history>>

(* A worker's keepalives expire at the broker, or it registers again.      *)
ChangeRegistered(w) ==
  /\ changes < MaxChanges
  /\ changes' = changes + 1
  /\ registered' = IF w \in registered THEN registered \ {w} ELSE registered \cup {w}
  /\ UNCHANGED <<row, client, to_broker, to_client, posts, gets, forwarded, workers, polls,
                 crashes, history>>

(* The broker ends, which closes its sockets without waiting (linger 0),   *)
(* and is started again with an empty table: what it had read or queued is *)
(* lost, the first messages to it and the last ones from it.               *)
LostBy(n, k) ==
  \/ \E i \in 1..n : to_broker[i].command = "POST"
  \/ \E i \in k + 1..Len(to_client) : to_client[i].code \in {"202", "400"}

Remaining(queue, bound) == {q \in [Workers -> 0..bound] : \A w \in Workers : q[w] <= queue[w]}

RestartBroker ==
  /\ crashes < MaxCrashes
  /\ crashes' = crashes + 1
  /\ \E n \in 0..Len(to_broker), k \in 0..Len(to_client) :
       /\ to_broker' = SubSeq(to_broker, n + 1, Len(to_broker))
       /\ to_client' = SubSeq(to_client, 1, k)
       /\ unanswered' = (unanswered \/ LostBy(n, k))
  /\ registered' = {}
  /\ posts' \in Remaining(posts, MaxCrashes + 1) /\ gets' \in Remaining(gets, MaxPolls)
  /\ forwarded' \in [Workers -> 0..MaxPolls + 1]
  /\ \A w \in Workers : forwarded[w] <= forwarded'[w] /\ forwarded'[w] <= Len(wire[w])
  /\ UNCHANGED <<row, client, workers, polls, changes, posted_to, overwritten>>

(***************************************************************************)
(* A worker: its _post and _get threads and its tasks, see JobService.     *)
(***************************************************************************)
StorePost(w) ==
  /\ posts[w] > 0
  /\ posts' = [posts EXCEPT ![w] = @ - 1]
  /\ Worker!Accept(w) \/ (level[w] # Worker!Unknown /\ UNCHANGED workers)
  /\ UNCHANGED <<row, client, to_broker, to_client, registered, gets, forwarded, bounds,
                 history>>

AckPost(w) ==
  /\ \A i \in DOMAIN wire[w] : wire[w][i].code # "201"
  /\ Worker!Tell(w, Reply("201"))
  /\ UNCHANGED <<row, client, to_broker, to_client, broker, bounds, history>>

AnswerGet(w) ==
  /\ gets[w] > 0
  /\ gets' = [gets EXCEPT ![w] = @ - 1]
  /\ \E code \in {"404", "300", "102", "200"} : Worker!Tell(w, Reply(code))
  /\ UNCHANGED <<row, client, to_broker, to_client, registered, posts, forwarded, bounds,
                 history>>

RunJob(w) ==
  /\ Worker!Finish(w, "ran")
  /\ UNCHANGED <<row, client, to_broker, to_client, broker, bounds, history>>

(* The worker process is killed and started again: its queues and what it  *)
(* had not sent yet are lost, its jobs table is not.                       *)
RestartWorker(w) ==
  /\ crashes < MaxCrashes
  /\ crashes' = crashes + 1
  /\ posts' = [posts EXCEPT ![w] = 0]
  /\ gets' = [gets EXCEPT ![w] = 0]
  /\ forwarded' = [forwarded EXCEPT ![w] = Len(wire[w])]
  /\ UNCHANGED <<row, client, to_broker, to_client, registered, workers, polls, changes,
                 history>>

-----------------------------------------------------------------------------
HandleReply ==
  HandleDispatched \/ HandleStarted \/ HandleWaiting \/ HandleResult \/ HandleError

Next ==
  \/ DispatchNew \/ WriteSubmitting \/ PollActive \/ FindLate \/ WriteStale
  \/ HandleReply
  \/ DeadlinePasses \/ RestartClient
  \/ Dispatch \/ RestartBroker
  \/ \E w \in Workers :
       \/ Forward(w) \/ ChangeRegistered(w)
       \/ StorePost(w) \/ AckPost(w) \/ AnswerGet(w) \/ RunJob(w) \/ RestartWorker(w)

Spec == Init /\ [][Next]_vars

(* Both threads of the client and the broker keep running, and time goes   *)
(* by.  Nothing is assumed of the workers.                                 *)
Fairness ==
  /\ WF_vars(DispatchNew) /\ WF_vars(WriteSubmitting)
  /\ WF_vars(FindLate) /\ WF_vars(WriteStale)
  /\ WF_vars(HandleReply) /\ WF_vars(DeadlinePasses)
  /\ WF_vars(Dispatch)

FairSpec == Spec /\ Fairness

(* Workers that do their part, and whose messages the broker takes.        *)
WorkerFairness ==
  \A w \in Workers :
    /\ WF_vars(StorePost(w)) /\ WF_vars(AckPost(w)) /\ WF_vars(AnswerGet(w))
    /\ WF_vars(RunJob(w)) /\ WF_vars(Forward(w))

BusySpec == FairSpec /\ WorkerFairness
=============================================================================
