-------------------------- MODULE MCClientChannels --------------------------
(* Instances of ClientChannels - an event, a request for input, as an      *)
(* event and with a poll; two callers of mmi - and of ClientJobs.  The two *)
(* queues and the table share nothing: the first state says which runs.    *)
EXTENDS ClientChannels

CONSTANTS a, nothing, Submitters, BatchSize, RecoverLimit, MaxJobs, MaxOwed, MaxFaults

ASSUME JobsAssumption == BatchSize \in Nat \ {0} /\ RecoverLimit >= MaxJobs

VARIABLES
  part,
  rows, client, adding, futures, done, batch, turn, owed, faults, posts, revived

jobs == <<rows, client, adding, futures, done, batch, turn, owed, faults, posts, revived>>
Table == INSTANCE ClientJobs WITH Threads <- Submitters

Inputs == {[kind |-> k, input |-> i] : k \in {"EVENT", "PENDING"}, i \in {a}}
SomeMessages == Inputs \cup {[kind |-> "EVENT", input |-> nothing]}

ClientInit ==
  /\ part \in {"events", "mmi", "jobs"}
  /\ Init
  /\ Table!Start(IF part = "jobs" THEN "up" ELSE "off")
ClientNext ==
  /\ UNCHANGED part
  /\ \/ part = "events" /\ EventsNext /\ UNCHANGED jobs
     \/ part = "mmi" /\ MmiNext /\ UNCHANGED jobs
     \/ part = "jobs" /\ Table!Next /\ UNCHANGED vars
ClientSpec ==
  /\ ClientInit /\ [][ClientNext]_<<part, vars, jobs>>
  /\ Fairness /\ Table!Fairness

(* Nobody is asked twice: the user once for every input request, the       *)
(* broker once for every job, in the order of submission.                  *)
AskedOnce == PromptedOnce /\ Table!PostedOnceInOrder
(* The shell's loop over a job's events ends, and so does every job.       *)
WaitingEnds == EventsEnd /\ Table!JobsEnd
=============================================================================
