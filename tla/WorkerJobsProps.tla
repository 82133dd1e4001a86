--------------------------- MODULE WorkerJobsProps ---------------------------
(* What the job half of a worker promises its clients (see WorkerJobs).    *)
EXTENDS WorkerJobs

(* Every variable keeps its shape.                                         *)
TableOK ==
  /\ status \in [Jobs -> Statuses]
  /\ created \in [Jobs -> Nat]
  /\ result \in [Jobs -> {"none"} \cup Terminal]
QueuesOK ==
  /\ post_queue \in Seq(Jobs) /\ get_queue \in Seq(Jobs)
  /\ put_queue \in Seq(Jobs \X Requests)
  /\ event_queue \in Seq(Jobs \X Message)
HandlersOK ==
  /\ posting \in Jobs \cup {NoJob}
  /\ getting \in {<<>>} \cup (Jobs \X Statuses)
TaskOK ==
  /\ executor \in Seq(Jobs)
  /\ pc \in [Jobs -> {"none", "queued", "running", "asking", "waiting", "resolved", "saved"}]
  /\ pending_input_request \in [Jobs -> 0..MaxAsks]
  /\ client_input_queue \in [Jobs -> Seq(Requests)]
LimitsOK ==
  received \in 0..MaxMessages /\ crashes \in 0..MaxCrashes /\ exits \in 0..MaxExits
HistoryOK ==
  /\ runs \in [Jobs -> Nat]
  /\ asked \in [Jobs -> 0..MaxAsks]
  /\ answers \in [Jobs -> [Requests -> 0..TimedOut]]
  /\ wire \in [Jobs -> Seq(Message)]
TypeOK ==
  /\ TableOK /\ QueuesOK /\ HandlersOK /\ TaskOK /\ LimitsOK /\ HistoryOK
  /\ phase \in {"working", "draining", "stopped"}
  /\ clock \in Nat

(* A task is run at most once for a job uuid, whatever the client repeats  *)
(* and however often the worker stops: a configuration change is never     *)
(* pushed to the devices twice (add_job, get_next_pending_job).            *)
AtMostOnce == \A j \in Jobs : runs[j] <= 1

(* A job that is marked as being worked on, with nobody working on it, was *)
(* interrupted by a crash: a graceful exit leaves none behind, it runs     *)
(* what the executor still holds (work, destroy).                          *)
Abandoned == {j \in Jobs : status[j] \in {"STARTED", "WAITING_CLIENT_INPUT"} /\ pc[j] = "none"}
ExitAbandonsNoJob == crashes = 0 => Abandoned = {}

(* What the answers to GET say about a job never goes back: not from known *)
(* to unknown, not from a result to "in progress", and the result of one   *)
(* answer is the result of every later one, across restarts (_get).        *)
Progress(m) ==
  CASE m.code = "404" -> 0
    [] m.code \in {"300", "102"} -> 1
    [] m.code = "200" -> 2
IsStatusReply(m) == m.code \in {"404", "300", "102", "200"}
StatusRepliesNeverGoBack ==
  \A j \in Jobs : \A a, b \in DOMAIN wire[j] :
    /\ a < b
    /\ IsStatusReply(wire[j][a]) /\ IsStatusReply(wire[j][b])
    => /\ Progress(wire[j][a]) <= Progress(wire[j][b])
       /\ wire[j][a].code = "200" => wire[j][b] = wire[j][a]

(* What was promised on the wire is on disk: an acknowledged job has a     *)
(* row, and one whose "completed" event or result was sent has its result  *)
(* stored, so that neither a crash nor a restart can unsay it.             *)
SentIsStored ==
  \A j \in Jobs : \A i \in DOMAIN wire[j] :
    /\ wire[j][i].code = "201" => status[j] # "absent"
    /\ wire[j][i].code \in {"completed", "200"} =>
         status[j] \in Terminal /\ result[j] = status[j]

(* A request for input is resolved by the answer given to that request or  *)
(* by its timeout, never by a late answer to an earlier one (Job.          *)
(* request_input compares input_id).                                       *)
AnswerFitsRequest ==
  \A j \in Jobs, n \in Requests : answers[j][n] \in {Open, n, TimedOut}

(* A GET that reaches a job blocked on input is told the open request, so  *)
(* that a restarted client can answer it (adr_norfab_interactive_client):  *)
(* a 102 without one is only sent when the wait has just ended.            *)
WaitingIsAnswerable ==
  [][\A j \in Jobs : wire'[j] = Append(wire[j], Msg("102")) => pc[j] # "waiting"]_vars

(* Jobs received in an earlier second start first, through the table, the  *)
(* scheduler and the executor's queue (created_at has one-second steps).   *)
StartsInOrder ==
  [][\A j, k \in Jobs :
       /\ runs'[j] > runs[j]
       /\ status[k] # "absent" /\ created[k] < created[j]
       => status[k] # "PENDING" /\ pc[k] # "queued"]_vars

(* A stored job ends with a result, also when tasks wait for input nobody  *)
(* gives and the worker is stopped or killed and started in between. The   *)
(* one exception is a job that was being worked on when the worker was     *)
(* killed: run_next_job takes only PENDING jobs up again.                  *)
EveryJobFinishes ==
  \A j \in Jobs :
    status[j] = "PENDING" ~> status[j] \in Terminal \/ (crashes > 0 /\ j \in Abandoned)

-----------------------------------------------------------------------------
(***************************************************************************)
(* The job half of a worker implements JobService: a row of the table is   *)
(* how far the job is, and the rest of the worker's state is detail.       *)
(***************************************************************************)
LevelOf(st) == CASE st = "absent" -> 0
                 [] st \in {"PENDING", "STARTED", "WAITING_CLIENT_INPUT"} -> 1
                 [] st \in Terminal -> 2

Service == INSTANCE JobService
  WITH Messages <- Message, Outcomes <- Terminal,
       level <- [j \in Jobs |-> LevelOf(status[j])]

(* Whatever threads, crashes and restarts do, a worker only ever accepts a *)
(* job, finishes it and tells the truth about it, in that order (_post,    *)
(* _get, _event, run_next_job and the jobs table together).                *)
ImplementsJobService == Service!Spec
=============================================================================
