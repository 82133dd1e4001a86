----------------------------- MODULE WorkerJobs -----------------------------
(***************************************************************************)
(* The job half of one NorFab worker process (core/worker.py): the sqlite  *)
(* job table, the threads _post, _get, _put and _event with their queues,  *)
(* the scheduler loop of work(), its ThreadPoolExecutor and the tasks that *)
(* run_next_job executes, which may stop to ask the client for input.      *)
(*                                                                         *)
(* The jobs table survives a crash; every queue, the executor and the      *)
(* running jobs do not.  The socket is a tap: MaxMessages messages arrive  *)
(* in any order, and wire[j] records what the worker sent about job j.     *)
(***************************************************************************)
EXTENDS Naturals, Sequences, FiniteSets

CONSTANTS
  Jobs,          \* job uuids a client may POST to this worker
  Interactive,   \* the jobs whose task asks the client for input
  PoolSize,      \* max_concurrent_jobs, the threads of the executor
  MaxAsks,       \* bound: input requests an interactive task makes
  MaxMessages,   \* bound: messages received from the broker
  MaxCrashes,    \* bound: abrupt ends of the worker process
  MaxExits,      \* bound: graceful exits (exit_event) of the worker
  NoJob          \* "no job in hand"

ASSUME ConstantsAssumption ==
  /\ Interactive \subseteq Jobs
  /\ PoolSize \in Nat \ {0}
  /\ MaxAsks \in Nat /\ MaxMessages \in Nat
  /\ MaxCrashes \in Nat /\ MaxExits \in Nat
  /\ NoJob \notin Jobs

VARIABLES
  (* the jobs table, on disk *)
  status,        \* status column, "absent" when there is no row
  created,       \* created_at column, in seconds; 0 when there is no row
  result,        \* outcome stored in result_data
  (* memory of the process *)
  phase,         \* "working", "draining" (exit_event is set) or "stopped"
  post_queue, get_queue, put_queue, event_queue,
  posting,       \* job stored by _post, its 201 not sent yet
  getting,       \* job and status read by _get, its reply not sent yet
  executor,      \* work queue of the ThreadPoolExecutor
  pc,            \* where run_next_job is, per job
  pending_input_request,  \* number of the open input request, 0 for None
  client_input_queue,     \* answers delivered to the job, not read yet
  (* the rest of the world and history *)
  clock,         \* wall clock, in seconds
  received, crashes, exits,
  runs,          \* how often the task of a job was started
  asked,         \* input requests a job has made
  answers,       \* answers[j][n]: what request n of job j was resolved with
  wire           \* everything sent to the broker about a job

table   == <<status, created, result>>
queues  == <<post_queue, get_queue, put_queue, event_queue>>
handler == <<posting, getting>>
task    == <<executor, pc, pending_input_request, client_input_queue>>
limits  == <<received, crashes, exits>>
history == <<runs, asked, answers, wire>>
vars == <<table, phase, queues, handler, task, clock, limits, history>>

Terminal == {"COMPLETED", "FAILED"}
Statuses == {"absent", "PENDING", "STARTED", "WAITING_CLIENT_INPUT"} \cup Terminal
Requests == 1..MaxAsks

(* What happened to an input request: still open or not made, timed out,   *)
(* or resolved with the answer that was given to request n.                *)
Open == 0
TimedOut == MaxAsks + 1

(* A message on the wire: a RESPONSE code or an EVENT, the input request   *)
(* it carries (0 for none) and, for a 200, the stored outcome.             *)
Codes == {"201", "404", "300", "102", "200", "input_request", "completed"}
Message == [code : Codes, request : 0..MaxAsks, outcome : {"none"} \cup Terminal]
Msg(code) == [code |-> code, request |-> 0, outcome |-> "none"]
Asking(code, n) == [Msg(code) EXCEPT !.request = n]
Send(j, m) == wire' = [wire EXCEPT ![j] = Append(@, m)]

(* A client can only answer a request it was told about, by the            *)
(* input_request event or by a 102 reply.                                  *)
ToldOf(j, n) == \E i \in DOMAIN wire[j] : wire[j][i].request = n

Active == {j \in Jobs : pc[j] \notin {"none", "queued"}}

-----------------------------------------------------------------------------
Init ==
  /\ status = [j \in Jobs |-> "absent"]
  /\ created = [j \in Jobs |-> 0]
  /\ result = [j \in Jobs |-> "none"]
  /\ phase = "working"
  /\ post_queue = <<>> /\ get_queue = <<>> /\ put_queue = <<>> /\ event_queue = <<>>
  /\ posting = NoJob /\ getting = <<>>
  /\ executor = <<>>
  /\ pc = [j \in Jobs |-> "none"]
  /\ pending_input_request = [j \in Jobs |-> 0]
  /\ client_input_queue = [j \in Jobs |-> <<>>]
  /\ clock = 1
  /\ received = 0 /\ crashes = 0 /\ exits = 0
  /\ runs = [j \in Jobs |-> 0]
  /\ asked = [j \in Jobs |-> 0]
  /\ answers = [j \in Jobs |-> [n \in Requests |-> Open]]
  /\ wire = [j \in Jobs |-> <<>>]

(***************************************************************************)
(* recv: one message taken from the socket and put in its queue.  A POST   *)
(* may be repeated (a restarted client submits again) and so may an        *)
(* answer.                                                                 *)
(***************************************************************************)
Take ==
  /\ phase # "stopped"
  /\ received < MaxMessages
  /\ received' = received + 1
  /\ UNCHANGED <<table, phase, event_queue, handler, task, clock, crashes, exits, history>>

RecvPost(j) ==
  /\ Take
  /\ post_queue' = Append(post_queue, j)
  /\ UNCHANGED <<get_queue, put_queue>>

RecvGet(j) ==
  /\ Take
  /\ get_queue' = Append(get_queue, j)
  /\ UNCHANGED <<post_queue, put_queue>>

RecvPut(j, n) ==
  /\ Take
  /\ ToldOf(j, n)
  /\ put_queue' = Append(put_queue, <<j, n>>)
  /\ UNCHANGED <<post_queue, get_queue>>

(***************************************************************************)
(* _post: add_job commits the row, then the 201 is sent.  A uuid that is   *)
(* already in the table makes the INSERT fail: nothing is stored and no    *)
(* acknowledgement is sent.  created_at has a resolution of one second.    *)
(***************************************************************************)
InsertOrReplace(j) == TRUE                       \* mutant: INSERT OR REPLACE
InsertSucceeds(j) == status[j] = "absent"

AddJob ==
  /\ phase # "stopped"
  /\ posting = NoJob
  /\ post_queue # <<>>
  /\ LET j == Head(post_queue) IN
       IF InsertSucceeds(j)
       THEN \E now \in {clock, clock + 1} :
              /\ clock' = now
              /\ created' = [created EXCEPT ![j] = now]
              /\ status' = [status EXCEPT ![j] = "PENDING"]
              /\ posting' = j
       ELSE UNCHANGED <<clock, created, status, posting>>
  /\ post_queue' = Tail(post_queue)
  /\ UNCHANGED <<result, phase, get_queue, put_queue, event_queue, getting, task,
                 limits, history>>

AckJob ==
  /\ phase # "stopped"
  /\ posting # NoJob
  /\ Send(posting, Msg("201"))
  /\ posting' = NoJob
  /\ UNCHANGED <<table, phase, queues, getting, task, clock, limits, runs, asked, answers>>

(***************************************************************************)
(* _get: get_job_info reads the row; the reply is composed and sent after  *)
(* the row may have changed.  The open input request is looked up in       *)
(* running_jobs when the status read was WAITING_CLIENT_INPUT.             *)
(***************************************************************************)
ReadJob ==
  /\ phase # "stopped"
  /\ getting = <<>>
  /\ get_queue # <<>>
  /\ getting' = <<Head(get_queue), status[Head(get_queue)]>>
  /\ get_queue' = Tail(get_queue)
  /\ UNCHANGED <<table, phase, post_queue, put_queue, event_queue, posting, task,
                 clock, limits, history>>

ReplyTo(j, st) ==
  CASE st = "absent" -> Msg("404")
    [] st \in {"PENDING", "STARTED"} -> Msg("300")
    [] st = "WAITING_CLIENT_INPUT" -> Asking("102", pending_input_request[j])
    [] st \in Terminal -> [Msg("200") EXCEPT !.outcome = result[j]]

SendReply ==
  /\ phase # "stopped"
  /\ getting # <<>>
  /\ Send(getting[1], ReplyTo(getting[1], getting[2]))
  /\ getting' = <<>>
  /\ UNCHANGED <<table, phase, queues, posting, task, clock, limits, runs, asked, answers>>

(***************************************************************************)
(* _put: the answer goes to the input queue of the running job; a job that *)
(* is not in running_jobs raises KeyError and the answer is dropped.       *)
(***************************************************************************)
DeliverInput ==
  /\ phase # "stopped"
  /\ put_queue # <<>>
  /\ LET j == Head(put_queue)[1]
         n == Head(put_queue)[2]
     IN  client_input_queue' = IF j \in Active
                               THEN [client_input_queue EXCEPT ![j] = Append(@, n)]
                               ELSE client_input_queue
  /\ put_queue' = Tail(put_queue)
  /\ UNCHANGED <<table, phase, post_queue, get_queue, event_queue, handler, executor,
                 pc, pending_input_request, clock, limits, history>>

(* _event: the oldest event of the queue is sent.  Progress events change  *)
(* nothing at either end and are left out.                                 *)
SendEvent ==
  /\ phase # "stopped"
  /\ event_queue # <<>>
  /\ Send(Head(event_queue)[1], Head(event_queue)[2])
  /\ event_queue' = Tail(event_queue)
  /\ UNCHANGED <<table, phase, post_queue, get_queue, put_queue, handler, task, clock,
                 limits, runs, asked, answers>>

(***************************************************************************)
(* work: the scheduler marks the oldest PENDING job STARTED and hands it   *)
(* to the executor, whose queue is unbounded.                              *)
(***************************************************************************)
AnyPending(j) == status[j] = "PENDING"           \* mutant: no ORDER BY created_at
OldestPending(j) ==
  /\ status[j] = "PENDING"
  /\ \A k \in Jobs : status[k] = "PENDING" => created[j] <= created[k]

Picked == "STARTED"
GetNextPendingJob(j) ==
  /\ phase = "working"
  /\ OldestPending(j)
  /\ status' = [status EXCEPT ![j] = Picked]
  /\ pc' = [pc EXCEPT ![j] = "queued"]
  /\ executor' = Append(executor, j)
  /\ UNCHANGED <<created, result, phase, queues, handler, pending_input_request,
                 client_input_queue, clock, limits, history>>

(* run_next_job begins on a free thread: the Job enters running_jobs and   *)
(* its task is called.                                                     *)
RunNextJob ==
  /\ phase # "stopped"
  /\ executor # <<>>
  /\ Cardinality(Active) < PoolSize
  /\ LET j == Head(executor) IN
       /\ pc' = [pc EXCEPT ![j] = "running"]
       /\ runs' = [runs EXCEPT ![j] = @ + 1]
  /\ executor' = Tail(executor)
  /\ UNCHANGED <<table, phase, queues, handler, pending_input_request,
                 client_input_queue, clock, limits, asked, answers, wire>>

(***************************************************************************)
(* Job.request_input, called by a task: the request is published to _get,  *)
(* then the status is written, then the event is queued; the job polls its *)
(* input queue until the answer to this request arrives or time is up.     *)
(***************************************************************************)
PublishLater(j) == 0                             \* mutant: _get is not told the request
PublishedRequest(j) == asked[j] + 1

RequestInput(j) ==
  /\ phase # "stopped"
  /\ pc[j] = "running"
  /\ j \in Interactive /\ asked[j] < MaxAsks
  /\ asked' = [asked EXCEPT ![j] = @ + 1]
  /\ pending_input_request' = [pending_input_request EXCEPT ![j] = PublishedRequest(j)]
  /\ pc' = [pc EXCEPT ![j] = "asking"]
  /\ UNCHANGED <<table, phase, queues, handler, executor, client_input_queue, clock,
                 limits, runs, answers, wire>>

SetWaiting(j) ==
  /\ phase # "stopped"
  /\ pc[j] = "asking"
  /\ status' = [status EXCEPT ![j] = "WAITING_CLIENT_INPUT"]
  /\ event_queue' = Append(event_queue, <<j, Asking("input_request", pending_input_request[j])>>)
  /\ pc' = [pc EXCEPT ![j] = "waiting"]
  /\ UNCHANGED <<created, result, phase, post_queue, get_queue, put_queue, handler,
                 executor, pending_input_request, client_input_queue, clock, limits,
                 history>>

(* The wait is over: record how, withdraw the request.                     *)
Resolve(j, how) ==
  /\ answers' = [answers EXCEPT ![j][pending_input_request[j]] = how]
  /\ pending_input_request' = [pending_input_request EXCEPT ![j] = 0]
  /\ pc' = [pc EXCEPT ![j] = "resolved"]

AnyInput(j, n) == TRUE                           \* mutant: input_id is not compared
AnswersRequest(j, n) == n = pending_input_request[j]

TakeInput(j) ==
  /\ phase # "stopped"
  /\ pc[j] = "waiting"
  /\ client_input_queue[j] # <<>>
  /\ client_input_queue' = [client_input_queue EXCEPT ![j] = Tail(@)]
  /\ IF AnswersRequest(j, Head(client_input_queue[j]))
     THEN Resolve(j, Head(client_input_queue[j]))
     ELSE UNCHANGED <<answers, pending_input_request, pc>>
  /\ UNCHANGED <<table, phase, queues, handler, executor, clock, limits, runs, asked, wire>>

NoDeadline(j) == FALSE                           \* mutant: the wait has no end
DeadlineReached(j) == TRUE

InputTimeout(j) ==
  /\ phase # "stopped"
  /\ pc[j] = "waiting"
  /\ DeadlineReached(j)
  /\ Resolve(j, TimedOut)
  /\ UNCHANGED <<table, phase, queues, handler, executor, client_input_queue, clock,
                 limits, runs, asked, wire>>

SetStarted(j) ==
  /\ phase # "stopped"
  /\ pc[j] = "resolved"
  /\ status' = [status EXCEPT ![j] = "STARTED"]
  /\ pc' = [pc EXCEPT ![j] = "running"]
  /\ UNCHANGED <<created, result, phase, queues, handler, executor,
                 pending_input_request, client_input_queue, clock, limits, history>>

(***************************************************************************)
(* The task returned (complete_job) or raised (fail_job): one transaction  *)
(* stores status and result.  Then the job leaves running_jobs and the     *)
(* "completed" event is queued.                                            *)
(***************************************************************************)
StatusFirst(j, outcome) == result[j]             \* mutant: the result is stored later
StoredResult(j, outcome) == outcome

SaveResult(j, outcome) ==
  /\ phase # "stopped"
  /\ pc[j] = "running"
  /\ status' = [status EXCEPT ![j] = outcome]
  /\ result' = [result EXCEPT ![j] = StoredResult(j, outcome)]
  /\ pc' = [pc EXCEPT ![j] = "saved"]
  /\ UNCHANGED <<created, phase, queues, handler, executor, pending_input_request,
                 client_input_queue, clock, limits, history>>

LeaveRunningJobs(j) ==
  /\ phase # "stopped"
  /\ pc[j] = "saved"
  /\ pc' = [pc EXCEPT ![j] = "none"]
  /\ client_input_queue' = [client_input_queue EXCEPT ![j] = <<>>]
  /\ event_queue' = Append(event_queue, <<j, Msg("completed")>>)
  /\ UNCHANGED <<table, phase, post_queue, get_queue, put_queue, handler, executor,
                 pending_input_request, clock, limits, history>>

(***************************************************************************)
(* Exit, crash and restart of the process.                                 *)
(***************************************************************************)
LoseMemory ==
  /\ phase' = "stopped"
  /\ post_queue' = <<>> /\ get_queue' = <<>> /\ put_queue' = <<>> /\ event_queue' = <<>>
  /\ posting' = NoJob /\ getting' = <<>>
  /\ executor' = <<>>
  /\ pc' = [j \in Jobs |-> "none"]
  /\ pending_input_request' = [j \in Jobs |-> 0]
  /\ client_input_queue' = [j \in Jobs |-> <<>>]

Crash ==
  /\ phase # "stopped"
  /\ crashes < MaxCrashes
  /\ crashes' = crashes + 1
  /\ LoseMemory
  /\ UNCHANGED <<table, clock, received, exits, history>>

SetExitEvent ==
  /\ phase = "working"
  /\ exits < MaxExits
  /\ exits' = exits + 1
  /\ phase' = "draining"
  /\ UNCHANGED <<table, queues, handler, task, clock, received, crashes, history>>

(* The scheduler loop has ended: leaving the executor's with block waits   *)
(* for every job submitted to it, and destroy joins _post and _get.  What  *)
(* is still in the queues is dropped.                                      *)
ShutdownWithoutWait == TRUE                      \* mutant: shutdown(wait=False)
ExecutorIdle == executor = <<>> /\ Active = {}

Destroy ==
  /\ phase = "draining"
  /\ ExecutorIdle
  /\ posting = NoJob /\ getting = <<>>
  /\ LoseMemory
  /\ UNCHANGED <<table, clock, limits, history>>

EmptyTable == [j \in Jobs |-> "absent"]           \* mutant: the database is made anew
TableAtStart == status

Restart ==
  /\ phase = "stopped"
  /\ phase' = "working"
  /\ status' = TableAtStart
  /\ UNCHANGED <<created, result, queues, handler, task, clock, limits, history>>

-----------------------------------------------------------------------------
JobStep(j) ==
  \/ RequestInput(j) \/ SetWaiting(j) \/ TakeInput(j) \/ InputTimeout(j) \/ SetStarted(j)
  \/ \E outcome \in Terminal : SaveResult(j, outcome)
  \/ LeaveRunningJobs(j)

(* Waiting for the next message, with nothing left to do: the only state in *)
(* which a worker may stand still.                                         *)
Idle ==
  /\ phase = "working"
  /\ received = MaxMessages
  /\ post_queue = <<>> /\ get_queue = <<>> /\ put_queue = <<>> /\ event_queue = <<>>
  /\ posting = NoJob /\ getting = <<>>
  /\ executor = <<>> /\ Active = {}
  /\ \A j \in Jobs : status[j] # "PENDING"
  /\ UNCHANGED vars

Next ==
  \/ \E j \in Jobs : RecvPost(j) \/ RecvGet(j) \/ GetNextPendingJob(j) \/ JobStep(j)
  \/ \E j \in Jobs, n \in Requests : RecvPut(j, n)
  \/ AddJob \/ AckJob \/ ReadJob \/ SendReply \/ DeliverInput \/ SendEvent
  \/ RunNextJob
  \/ Crash \/ SetExitEvent \/ Destroy \/ Restart
  \/ Idle

Spec == Init /\ [][Next]_vars

(* Every thread of the process keeps running, tasks return, a stopped      *)
(* worker is started again.                                                *)
Fairness ==
  /\ WF_vars(AddJob) /\ WF_vars(AckJob) /\ WF_vars(ReadJob) /\ WF_vars(SendReply)
  /\ WF_vars(DeliverInput) /\ WF_vars(SendEvent)
  /\ WF_vars(RunNextJob) /\ WF_vars(Destroy) /\ WF_vars(Restart)
  /\ \A j \in Jobs : WF_vars(GetNextPendingJob(j)) /\ WF_vars(JobStep(j))

FairSpec == Spec /\ Fairness
=============================================================================
