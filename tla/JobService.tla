----------------------------- MODULE JobService -----------------------------
(***************************************************************************)
(* What a worker promises about a job: it accepts a job once, finishes it  *)
(* with one outcome, and everything it says about the job on the wire is   *)
(* true and never behind what it said before.  WorkerJobs implements this  *)
(* specification, for many jobs of one worker; JobProtocol is built on it, *)
(* for one job that is sent to many workers.                               *)
(***************************************************************************)
EXTENDS Naturals, Sequences

CONSTANTS
  Jobs,       \* what the promise is about: job uuids, or the workers of one job
  Messages,   \* everything a worker may say, records with a code and an outcome
  Outcomes    \* how a job may end

VARIABLES
  level,      \* how far a job is, one of Unknown, Accepted, Finished
  result,     \* the outcome of a finished job
  wire        \* everything said about a job, in order

Unknown == 0
Accepted == 1
Finished == 2

StatusReplies == {"404", "300", "102", "200"}
Says(m) == CASE m.code = "404" -> Unknown
             [] m.code \in {"300", "102"} -> Accepted
             [] m.code = "200" -> Finished

(* A status reply lies between what was said before and how things stand:  *)
(* it may be composed from a row that has changed since.                   *)
MayTell(j, m) ==
  /\ m.code = "201" => level[j] # Unknown
  /\ m.code \in {"completed", "200"} => level[j] = Finished
  /\ m.code = "200" => m.outcome = result[j]
  /\ m.code \in StatusReplies =>
       /\ Says(m) <= level[j]
       /\ \A i \in 1..Len(wire[j]) :
            wire[j][i].code \in StatusReplies => Says(wire[j][i]) <= Says(m)

Init ==
  /\ level = [j \in Jobs |-> Unknown]
  /\ result = [j \in Jobs |-> "none"]
  /\ wire = [j \in Jobs |-> <<>>]

Accept(j) ==
  /\ level[j] = Unknown
  /\ level' = [level EXCEPT ![j] = Accepted]
  /\ UNCHANGED <<result, wire>>

Finish(j, outcome) ==
  /\ level[j] = Accepted
  /\ level' = [level EXCEPT ![j] = Finished]
  /\ result' = [result EXCEPT ![j] = outcome]
  /\ UNCHANGED wire

Tell(j, m) ==
  /\ MayTell(j, m)
  /\ wire' = [wire EXCEPT ![j] = Append(@, m)]
  /\ UNCHANGED <<level, result>>

Next ==
  \E j \in Jobs :
    \/ Accept(j)
    \/ \E outcome \in Outcomes : Finish(j, outcome)
    \/ \E m \in Messages : Tell(j, m)

Spec == Init /\ [][Next]_<<level, result, wire>>
=============================================================================
