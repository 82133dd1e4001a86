------------------------------ MODULE Workflow ------------------------------
(***************************************************************************)
(* The run task of the workflow worker (workflow_worker.py): the steps of  *)
(* a workflow one after the other, each a job for the workers of some      *)
(* service, with run_if conditions on the results of other steps,          *)
(* stop_on_failure and the removal of results that matched nothing.        *)
(***************************************************************************)
EXTENDS Naturals, Sequences, FiniteSets

CONSTANTS
  Workflows,    \* sequences of steps: the conditions of each, with its stop_on_failure
  Answers       \* what a job may return: the result of each worker that took part

VARIABLES
  workflow, remove_no_match,  \* what the caller asked for, it never changes
  step,                       \* the step that is next
  results,                    \* of the steps so far, in order
  status                      \* "running", "done", or "raised" by an exception

vars == <<workflow, remove_no_match, step, results, status>>

Kinds == <<"run_if_fail_any", "run_if_pass_any", "run_if_fail_all", "run_if_pass_all">>
NoMatch == "no_match"
AllWorkers == "all-workers"

Alone(failed, state) == [w \in {AllWorkers} |-> [failed |-> failed, status |-> state]]
Skipped == Alone(FALSE, "skipped")
Error == Alone(TRUE, "error")
(* run_job returns None when the job timed out, went stale or failed.      *)
NoAnswer == [w \in {"nobody"} |-> [failed |-> FALSE, status |-> "none"]]

(* No worker has the name that stands for all of them.                     *)
WorkersAnswer ==
  \A answer \in Answers :
    AllWorkers \notin DOMAIN answer /\ \A w \in DOMAIN answer : answer[w].failed \in BOOLEAN

Init ==
  /\ workflow \in Workflows
  /\ remove_no_match \in BOOLEAN
  /\ step = 1 /\ results = <<>> /\ status = "running"

-----------------------------------------------------------------------------
(***************************************************************************)
(* skip_step_check.  The first condition a step has decides, in the order  *)
(* of Kinds; a step has results once it was run or skipped.                *)
(***************************************************************************)
AnyResult(r) == TRUE                             \* mutant: no_match counts
Matched(r) == r.status # NoMatch

SomeWorker(answer, failed) ==
  \E w \in DOMAIN answer : answer[w].failed = failed /\ Matched(answer[w])

(* Every kind looks for one result, failed or not, in the steps it names,  *)
(* in their order, and raises at a step without an answer.                 *)
LooksForFailed(kind) == kind \in {"run_if_fail_any", "run_if_pass_all"}
IfFound(kind) == IF kind \in {"run_if_fail_any", "run_if_pass_any"} THEN "run" ELSE "skip"
IfNotFound(kind) == IF IfFound(kind) = "run" THEN "skip" ELSE "run"

Check(kind, names) ==
  LET Found(i) == SomeWorker(results[names[i]], LooksForFailed(kind))
  IN  IF \E i \in DOMAIN names : results[names[i]] = NoAnswer /\ \A k \in 1..i - 1 : ~Found(k) THEN "raise"
      ELSE IF \E i \in DOMAIN names : Found(i) THEN IfFound(kind) ELSE IfNotFound(kind)

Given(s) == {i \in DOMAIN Kinds : s[Kinds[i]] # <<>>}

FirstGiven(s) == Kinds[CHOOSE i \in Given(s) : \A j \in Given(s) : i <= j]

Decision(s) ==
  IF Given(s) = {} THEN "run"
  ELSE LET names == s[FirstGiven(s)]
       IN  IF \E i \in DOMAIN names : names[i] \notin DOMAIN results
           THEN "error" ELSE Check(FirstGiven(s), names)

Current == workflow[step]

SkipStep ==
  /\ status = "running" /\ step <= Len(workflow)
  /\ Decision(Current) = "skip"
  /\ results' = Append(results, Skipped)
  /\ step' = step + 1
  /\ UNCHANGED <<workflow, remove_no_match, status>>

-----------------------------------------------------------------------------
(***************************************************************************)
(* Results of workers that matched nothing are dropped, but for failures.  *)
(* The loop over the workers of a step without an answer raises.           *)
(***************************************************************************)
OnlyMatched(r) == Matched(r)                     \* mutant: failures are dropped too
Kept(r) == r.failed \/ Matched(r)

Filtered(answer) ==
  [w \in {v \in DOMAIN answer : Kept(answer[v])} |-> answer[w]]

Finish(all) ==
  IF ~remove_no_match THEN results' = all /\ status' = "done"
  ELSE IF \E i \in DOMAIN all : all[i] = NoAnswer
  THEN results' = all /\ status' = "raised"
  ELSE results' = [i \in DOMAIN all |-> Filtered(all[i])] /\ status' = "done"

StepError ==
  /\ status = "running" /\ step <= Len(workflow)
  /\ Decision(Current) = "error"
  /\ Finish(Append(results, Error))
  /\ UNCHANGED <<workflow, remove_no_match, step>>

CheckRaises ==
  /\ status = "running" /\ step <= Len(workflow)
  /\ Decision(Current) = "raise"
  /\ status' = "raised"
  /\ UNCHANGED <<workflow, remove_no_match, step, results>>

Stops(s, answer) == s.stop_on_failure /\ \E w \in DOMAIN answer : answer[w].failed

RunStep ==
  /\ status = "running" /\ step <= Len(workflow)
  /\ Decision(Current) = "run"
  /\ \E answer \in Answers \cup {NoAnswer} :
       /\ answer = NoAnswer => ~Current.stop_on_failure
       /\ IF answer # NoAnswer /\ Stops(Current, answer)
          THEN Finish(Append(results, answer)) /\ UNCHANGED step
          ELSE /\ results' = Append(results, answer)
               /\ step' = step + 1
               /\ UNCHANGED status
  /\ UNCHANGED <<workflow, remove_no_match>>

StopCheckRaises ==
  /\ status = "running" /\ step <= Len(workflow)
  /\ Decision(Current) = "run" /\ Current.stop_on_failure
  /\ results' = Append(results, NoAnswer)
  /\ status' = "raised"
  /\ UNCHANGED <<workflow, remove_no_match, step>>

EndWorkflow ==
  /\ status = "running" /\ step > Len(workflow)
  /\ Finish(results)
  /\ UNCHANGED <<workflow, remove_no_match, step>>

Next ==
  \/ SkipStep \/ StepError \/ CheckRaises \/ RunStep \/ StopCheckRaises \/ EndWorkflow
  \/ status # "running" /\ UNCHANGED vars

Spec == Init /\ [][Next]_vars

-----------------------------------------------------------------------------
(***************************************************************************)
(* What the workflow service's documentation promises of steps, conditions *)
(* and results, as far as the code keeps it.                               *)
(***************************************************************************)
Ran == {s \in DOMAIN results : results[s] \notin {Skipped, Error}}
Outcomes(s) == {results[s][w] : w \in DOMAIN results[s]}
Passed(s) == \E r \in Outcomes(s) : ~r.failed /\ r.status # NoMatch
Failed(s) == \E r \in Outcomes(s) : r.failed /\ r.status # NoMatch

(* How the checks count what the workers of the named steps returned: a    *)
(* result without a match not at all, a skipped step as passed.            *)
Counted(kind, steps) ==
  CASE kind = "run_if_fail_any" -> \E s \in steps : Failed(s)
    [] kind = "run_if_pass_any" -> \E s \in steps : Passed(s)
    [] kind = "run_if_fail_all" -> \A s \in steps : ~Passed(s)
    [] kind = "run_if_pass_all" -> \A s \in steps : ~Failed(s)

(* The conditions as documented (services_workflow_service.md): any or all *)
(* of the steps have failed, or have passed; for "all" the workers that    *)
(* had the step all failed, or all were successful.  A step that was       *)
(* skipped has not passed, nor has a worker without a match.               *)
Documented(kind, steps) ==
  CASE kind = "run_if_fail_any" -> \E s \in steps : \E r \in Outcomes(s) : r.failed
    [] kind = "run_if_pass_any" -> \E s \in steps : results[s] # Skipped /\ Passed(s)
    [] kind = "run_if_fail_all" -> \A s \in steps : \A r \in Outcomes(s) : r.failed
    [] kind = "run_if_pass_all" ->
         \A s \in steps : results[s] # Skipped /\ \A r \in Outcomes(s) : ~r.failed /\ r.status # NoMatch

(* Where the two may differ.                                               *)
HasNoMatch(s) == \E r \in Outcomes(s) : r.status = NoMatch
CountsOtherwise(kind, steps) ==
  CASE kind = "run_if_pass_any" -> \E s \in steps : results[s] = Skipped
    [] kind = "run_if_pass_all" -> \E s \in steps : results[s] = Skipped \/ HasNoMatch(s)
    [] OTHER -> \E s \in steps : HasNoMatch(s)

(* A step with a single condition is run exactly when the condition holds  *)
(* of what the steps it names returned as the checks count it, whatever    *)
(* the order of the workers and steps they loop over, and skipped if not.  *)
(* That is the documented condition, unless a named step was skipped and   *)
(* is asked to have passed, or a worker of it had no match.  A result      *)
(* without an answer is no reason to do either.                            *)
ConditionsAreMet ==
  status = "running" =>
    \A s \in DOMAIN results : \A i \in DOMAIN Kinds :
      LET names == workflow[s][Kinds[i]]
          steps == {names[k] : k \in DOMAIN names}
      IN  Given(workflow[s]) = {i} /\ NoAnswer \notin {results[t] : t \in steps} =>
            /\ s \in Ran <=> Counted(Kinds[i], steps)
            /\ CountsOtherwise(Kinds[i], steps) \/ (s \in Ran <=> Documented(Kinds[i], steps))

(* The report names every step that was handled and every failure, a       *)
(* dropped result is one of a worker that did not fail and had no match,   *)
(* and only a step whose job gave no answer at all costs the report.       *)
Reported ==
  /\ status' = "done" =>
       \A s \in DOMAIN results :
         /\ s \in DOMAIN results'
         /\ results[s] = results'[s] \/ remove_no_match
         /\ results[s] # NoAnswer =>
              \A w \in DOMAIN results[s] :
                \/ w \in DOMAIN results'[s] /\ results'[s][w] = results[s][w]
                \/ ~results[s][w].failed /\ results[s][w].status = NoMatch
  /\ status' = "raised" => \E s \in DOMAIN results' : results'[s] = NoAnswer
ReportIsFaithful == [][Reported]_vars
=============================================================================
