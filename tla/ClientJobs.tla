----------------------------- MODULE ClientJobs -----------------------------
(***************************************************************************)
(* The jobs of one client (core/client.py): threads that submit them, the  *)
(* jobs table on disk, the dispatcher that goes through the table batch by *)
(* batch, and the end and restart of the client.  JobProtocol has a single *)
(* job with its workers; here a job is what the table has of it, and what  *)
(* broker and worker still have to answer.                                 *)
(***************************************************************************)
EXTENDS Naturals, Sequences, FiniteSets, SequencesExt

CONSTANTS
  Threads,       \* threads that submit jobs
  BatchSize,     \* rows of a batch, 10 in the code
  RecoverLimit,  \* rows recover_job_futures looks at, 10000 in the code
  MaxJobs,       \* bound: jobs
  MaxOwed,       \* bound: answers under way about a job, beyond it a GET is lost
  MaxFaults      \* bound: requests that cannot be sent, and restarts of the client

VARIABLES
  (* on disk *)
  rows,      \* the jobs in the order of created_at and rowid; ACTIVE is DISPATCHED, STARTED or
             \* WAITING_CLIENT_INPUT, OVER is COMPLETED, FAILED or STALE
  (* the process *)
  client,    \* "up", "destroyed", or "off"
  adding,    \* of a thread in submit_job: the row that has no future yet, or 0
  futures, done,
  batch,     \* fetched rows the dispatcher has still to look at, in order
  turn,      \* what the batch is for: "post" or "poll"
  (* broker and workers *)
  owed,      \* of each job: the answers that are to come, in the order of the requests
  (* bounds and history *)
  faults,
  posts,     \* jobs this process has sent to the broker
  revived    \* jobs that were over when this process started and then got an answer

process == <<client, adding, futures, done, batch, turn>>
history == <<posts, revived>>
vars == <<rows, process, owed, faults, history>>

NewRow(t) == [status |-> "NEW", thread |-> t, polled |-> FALSE, late |-> FALSE]
Jobs == 1..MaxJobs
Known == DOMAIN rows
NoThread == [t \in Threads |-> 0]

Start(state) ==
  /\ rows = <<>> /\ client = state /\ adding = NoThread
  /\ futures = {} /\ done = {} /\ batch = {} /\ turn = "poll"
  /\ owed = [j \in Jobs |-> <<>>] /\ faults = 0
  /\ posts = <<>> /\ revived = {}

-----------------------------------------------------------------------------
(* submit_job: the row, and then the future; the dispatcher may be at the  *)
(* row before that.                                                        *)
AddJob(t) ==
  /\ client = "up" /\ adding[t] = 0 /\ Len(rows) < MaxJobs
  /\ rows' = Append(rows, NewRow(t))
  /\ adding' = [adding EXCEPT ![t] = Len(rows) + 1]
  /\ UNCHANGED <<client, futures, done, batch, turn, owed, faults, history>>

SubmitJob(t) ==
  /\ adding[t] # 0
  /\ futures' = futures \cup {adding[t]}
  /\ adding' = [adding EXCEPT ![t] = 0]
  /\ UNCHANGED <<rows, client, done, batch, turn, owed, faults, history>>

(* fetch_jobs: the first rows, in order, of those that match.              *)
Descending(j, k) == j > k                        \* mutant: DESC
Earlier(j, k) == j < k

Fetched(js, limit) == {j \in js : Cardinality({k \in js : Earlier(k, j)}) < limit}

NewJobs == {j \in Known : rows[j].status = "NEW"}
PollableJobs == {j \in Known : rows[j].status = "ACTIVE" /\ ~rows[j].polled}

(* The dispatcher's loop: a batch to POST, then a batch to poll.  What     *)
(* happens to a row after the fetch is not seen, and destroy_event only    *)
(* between two turns of the loop.                                          *)
FetchJobs ==
  /\ batch = {}
  /\ \/ turn = "poll" /\ client = "up" /\ turn' = "post" /\ batch' = Fetched(NewJobs, BatchSize)
     \/ turn = "post" /\ turn' = "poll" /\ batch' = Fetched(PollableJobs, BatchSize)
  /\ UNCHANGED <<rows, client, adding, futures, done, owed, faults, history>>

LookAt(j) == (\A k \in batch \ {j} : Earlier(j, k)) /\ batch' = batch \ {j}
TakeJob(j, purpose) == turn = purpose /\ j \in futures /\ LookAt(j)
SkipJob(j) ==
  /\ j \notin futures /\ LookAt(j)
  /\ UNCHANGED <<rows, client, adding, futures, done, turn, owed, faults, history>>

SetStatus(j, status) == rows' = [rows EXCEPT ![j].status = status]
EndJob(j) == SetStatus(j, "OVER") /\ done' = done \cup ({j} \cap futures)

(* dispatch_new_jobs: the POST and SUBMITTING - a reply between the two is *)
(* JobProtocol's -, with a client that is being destroyed SUBMITTING only. *)
DispatchJob(j) ==
  /\ TakeJob(j, "post")
  /\ rows' = [rows EXCEPT ![j].status = "SUBMITTING", ![j].polled = TRUE]
  /\ IF client = "up"
     THEN posts' = Append(posts, j) /\ owed' = [owed EXCEPT ![j] = Append(@, "202")]
     ELSE UNCHANGED <<posts, owed>>
  /\ UNCHANGED <<client, adding, futures, done, turn, faults, revived>>

FailDispatch(j) ==
  /\ TakeJob(j, "post")
  /\ faults < MaxFaults /\ faults' = faults + 1
  /\ EndJob(j)
  /\ UNCHANGED <<client, adding, futures, turn, owed, history>>

(* poll_active_jobs: the deadline, then the GET.                           *)
GiveUp(j) ==
  /\ TakeJob(j, "poll") /\ rows[j].late
  /\ EndJob(j)
  /\ UNCHANGED <<client, adding, futures, turn, owed, faults, history>>

PollJob(j) ==
  LET sent == client = "up" /\ Len(owed[j]) + 2 <= MaxOwed
  IN  /\ TakeJob(j, "poll") /\ ~rows[j].late
      /\ rows' = [rows EXCEPT ![j].polled = TRUE]
      /\ owed' = IF sent THEN [owed EXCEPT ![j] = @ \o <<"202", "answer">>] ELSE owed
      /\ UNCHANGED <<client, adding, futures, done, turn, faults, history>>

FailPoll(j) ==
  /\ TakeJob(j, "poll") /\ ~rows[j].late
  /\ faults < MaxFaults /\ faults' = faults + 1
  /\ UNCHANGED <<rows, client, adding, futures, done, turn, owed, history>>

-----------------------------------------------------------------------------
(* recv: the broker's answers come in order, a worker's only after the     *)
(* broker's to the same request, and an error instead of either.  They are *)
(* written whatever the row has by now.                                    *)
Receive(j, answer) ==
  /\ client = "up"
  /\ \E i \in DOMAIN owed[j] :
       /\ owed[j][i] = answer /\ \A k \in 1..i - 1 : owed[j][k] # "202"
       /\ owed' = [owed EXCEPT ![j] = RemoveAt(@, i)]
  /\ \/ EndJob(j) /\ UNCHANGED revived
     \/ SetStatus(j, "ACTIVE") /\ UNCHANGED done /\ revived' = revived \cup ({j} \ futures)
  /\ UNCHANGED <<client, adding, futures, batch, turn, faults, posts>>

(* Time: poll_interval since the last GET, and the job's deadline.         *)
PollAges(j) ==
  /\ j \in Known /\ rows[j].status = "ACTIVE" /\ rows[j].polled
  /\ rows' = [rows EXCEPT ![j].polled = FALSE]
  /\ UNCHANGED <<process, owed, faults, history>>
JobExpires(j) ==
  /\ j \in Known /\ ~rows[j].late
  /\ rows' = [rows EXCEPT ![j].late = TRUE]
  /\ UNCHANGED <<process, owed, faults, history>>

-----------------------------------------------------------------------------
(* destroy ends every future; the dispatcher still ends its turn.          *)
Destroy ==
  /\ client = "up"
  /\ client' = "destroyed" /\ done' = futures
  /\ UNCHANGED <<rows, adding, futures, batch, turn, owed, faults, history>>

(* The client is started again, after destroy or a kill, with the answers  *)
(* that were under way or without them, and recover_job_futures.           *)
BeforeTheBroker == {"NEW", "SUBMITTING"}         \* mutant: what runs is forgotten
Recoverable == {"NEW", "SUBMITTING", "ACTIVE"}
Recovered(row) ==
  [row EXCEPT !.status = IF row.late THEN "OVER" ELSE IF @ = "SUBMITTING" THEN "NEW" ELSE @]

RestartClient ==
  LET recovered == Fetched({j \in Known : rows[j].status \in Recoverable}, RecoverLimit)
  IN  /\ client # "off"
      /\ faults < MaxFaults /\ faults' = faults + 1
      /\ client' = "up" /\ adding' = NoThread /\ batch' = {} /\ turn' = "poll"
      /\ rows' = [j \in Known |-> IF j \in recovered THEN Recovered(rows[j]) ELSE rows[j]]
      /\ futures' = {j \in recovered : ~rows[j].late} /\ done' = {}
      /\ owed' \in {owed, [j \in Jobs |-> <<>>]}
      /\ posts' = <<>> /\ revived' = {}

-----------------------------------------------------------------------------
Dispatcher ==
  \/ FetchJobs
  \/ \E j \in batch : \/ SkipJob(j) \/ DispatchJob(j) \/ FailDispatch(j)
                       \/ GiveUp(j) \/ PollJob(j) \/ FailPoll(j)

Next ==
  \/ \E t \in Threads : AddJob(t) \/ SubmitJob(t)
  \/ Dispatcher
  \/ \E j \in Jobs : Receive(j, "202") \/ Receive(j, "answer") \/ PollAges(j) \/ JobExpires(j)
  \/ Destroy \/ RestartClient

(* The client's threads run, the broker answers and time passes; nothing   *)
(* is assumed of the workers.                                              *)
Fairness ==
  /\ \A t \in Threads : WF_vars(SubmitJob(t))
  /\ WF_vars(Dispatcher)
  /\ \A j \in Jobs : WF_vars(Receive(j, "202")) /\ WF_vars(PollAges(j)) /\ WF_vars(JobExpires(j))

-----------------------------------------------------------------------------
(***************************************************************************)
(* What should hold of all jobs of a client.                               *)
(***************************************************************************)
(* One run of the client asks the broker once for each job, and for the    *)
(* jobs of one thread in the order they were submitted, however they are   *)
(* spread over batches and whatever rows are skipped, failed or recovered. *)
PostedOnceInOrder ==
  \A i, k \in DOMAIN posts :
    i < k => posts[i] # posts[k] /\ (rows[posts[i]].thread = rows[posts[k]].thread => posts[i] < posts[k])

(* A job in the table ends and its future with it, unless the client is    *)
(* destroyed for good: other jobs do not keep it out of the batches for    *)
(* ever, and no kill between two of its steps makes the client forget it.  *)
(* The exception are answers that come to a restarted client about jobs    *)
(* that were over: their rows are active again, have no future, and stay   *)
(* first in every batch; once they fill it no other job is polled.         *)
IsOver(j) == j \in Known /\ rows[j].status = "OVER" /\ (j \in futures => j \in done)
BatchIsFull == Cardinality(revived) >= BatchSize
JobsEnd ==
  \A j \in Jobs : j \in Known ~> client = "destroyed" \/ IsOver(j) \/ j \in revived \/ BatchIsFull
=============================================================================
