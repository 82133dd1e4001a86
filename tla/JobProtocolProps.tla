--------------------------- MODULE JobProtocolProps ---------------------------
(* What a client may rely on for one job, and what it may not, although    *)
(* the documentation says so (see JobProtocol).                            *)
EXTENDS JobProtocol

(* Every variable keeps its shape.                                         *)
Requests == [command : {"POST", "GET"}, target : SUBSET Workers]
Answers == [code : {"201", "404", "300", "102", "200", "202", "400"}, workers : SUBSET Workers]
RowOK ==
  /\ status \in Statuses
  /\ workers_dispatched \in SUBSET Workers
  /\ workers_started \in SUBSET Workers
  /\ workers_completed \in SUBSET Workers
ClientOK ==
  /\ future \in {"open", "done", "none"}
  /\ dispatcher \in {"idle", "posted", "late"}
  /\ deadline \in {"ahead", "passed"}
SocketsOK == to_broker \in Seq(Requests) /\ to_client \in Seq(Answers)
BrokerOK ==
  /\ registered \in SUBSET Workers
  /\ posts \in [Workers -> Nat] /\ gets \in [Workers -> Nat]
  /\ forwarded \in [Workers -> Nat]
WorkersOK ==
  /\ level \in [Workers -> 0..2]
  /\ result \in [Workers -> {"none", "ran"}]
  /\ wire \in [Workers -> Seq(Replies)]
BoundsOK == polls \in 0..MaxPolls /\ changes \in 0..MaxChanges /\ crashes \in 0..MaxCrashes
HistoryOK == posted_to \in SUBSET Workers /\ overwritten \in BOOLEAN /\ unanswered \in BOOLEAN
TypeOK ==
  RowOK /\ ClientOK /\ SocketsOK /\ BrokerOK /\ WorkersOK /\ BoundsOK /\ HistoryOK

(* A job is COMPLETED only with the results of exactly the workers the     *)
(* broker named last, and the client believes of a worker that it started  *)
(* or finished only what the worker's own table says, whatever arrives     *)
(* late, twice or from before a restart (handle_response).                 *)
CompletedIsReal ==
  /\ status = "COMPLETED" => workers_completed = workers_dispatched /\ workers_dispatched # {}
  /\ \A w \in workers_completed : level[w] = Worker!Finished
  /\ \A w \in workers_started : level[w] # Worker!Unknown

(* A result the client stored stays stored: through later replies, polls,  *)
(* failures of other workers, the deadline and restarts (update_job).      *)
ResultsAreKept == [][workers_completed \subseteq workers_completed']_vars

(* The workers named in the row got the POST: a poll is never sent to one  *)
(* that was not asked to run the job (dispatch, poll_active_jobs).         *)
OnlyPostedWorkersArePolled == workers_dispatched \subseteq posted_to

(* Whoever waits for the future is released: by a result, an error or the  *)
(* deadline, also when replies, polls and whole workers are lost.  Two     *)
(* exceptions, since nobody looks at a row that stays SUBMITTING: the      *)
(* dispatcher wrote it over the outcome of a reply it had not waited for,  *)
(* or the POST, or what the broker answered to it, was lost as the broker  *)
(* restarted.  A restart of the client mends the second.                   *)
FutureEnds ==
  future = "open" ~> future # "open" \/ overwritten \/ (unanswered /\ status = "SUBMITTING")

(* What the documentation says of every job: expired work is marked stale, *)
(* so that no future stays open (norfab_features.md).                      *)
EveryFutureEnds == future = "open" ~> future # "open"
=============================================================================
