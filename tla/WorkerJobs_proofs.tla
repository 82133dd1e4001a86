-------------------------- MODULE WorkerJobs_proofs --------------------------
(* Proofs of the safety properties of WorkerJobsProps, for every set of    *)
(* jobs and all bounds, and that the worker implements JobService.         *)
EXTENDS WorkerJobsProps, TLAPS

-----------------------------------------------------------------------------
(* The inductive invariant.                                                *)

(* The executor's queue holds exactly the queued jobs, each once.          *)
ExecutorInv ==
  /\ \A i \in 1..Len(executor) : pc[executor[i]] = "queued"
  /\ \A a, b \in 1..Len(executor) : executor[a] = executor[b] => a = b
  /\ \A j \in Jobs : pc[j] = "queued" => \E i \in 1..Len(executor) : executor[i] = j

(* The row of a job agrees with where its thread is.                       *)
RowOf(j) ==
  /\ pc[j] \in {"queued", "running", "asking"} => status[j] = "STARTED"
  /\ pc[j] \in {"waiting", "resolved"} => status[j] = "WAITING_CLIENT_INPUT"
  /\ pc[j] = "saved" => status[j] \in Terminal
  /\ status[j] \in {"absent", "PENDING"} => runs[j] = 0
  /\ pc[j] = "queued" => runs[j] = 0
  /\ runs[j] <= 1
  /\ status[j] \in Terminal => result[j] = status[j]
  /\ pc[j] \in {"asking", "waiting"} => pending_input_request[j] \in Requests
RowInv == \A j \in Jobs : RowOf(j)

(* What a handler thread has in hand was true of the table when it was     *)
(* read, and the table has only moved forward since.                       *)
Level(st) == CASE st = "absent" -> 0
               [] st \in {"PENDING", "STARTED", "WAITING_CLIENT_INPUT"} -> 1
               [] st \in Terminal -> 2
HandlerInv ==
  /\ posting # NoJob => status[posting] # "absent"
  /\ getting # <<>> =>
       /\ Level(getting[2]) <= Level(status[getting[1]])
       /\ getting[2] \in Terminal => status[getting[1]] = getting[2]
  /\ \A i \in 1..Len(event_queue) :
       /\ event_queue[i][2].code \in {"input_request", "completed"}
       /\ event_queue[i][2].code = "completed" => status[event_queue[i][1]] \in Terminal

(* The level the next status reply about j will have, at least.            *)
NextLevel(j) == IF getting # <<>> /\ getting[1] = j
                THEN Level(getting[2]) ELSE Level(status[j])
WireInv ==
  /\ SentIsStored
  /\ StatusRepliesNeverGoBack
  /\ \A j \in Jobs : \A i \in 1..Len(wire[j]) :
       /\ IsStatusReply(wire[j][i]) => Progress(wire[j][i]) <= NextLevel(j)
       /\ wire[j][i].code = "200" =>
            wire[j][i] = [Msg("200") EXCEPT !.outcome = result[j]]

IInv == TypeOK /\ ExecutorInv /\ RowInv /\ HandlerInv /\ WireInv
          /\ ExitAbandonsNoJob /\ AnswerFitsRequest

-----------------------------------------------------------------------------
(* Init makes the whole invariant true.                                    *)
LEMMA InitInv == Init => IInv
<1> SUFFICES ASSUME Init PROVE IInv
  OBVIOUS
<1> USE ConstantsAssumption DEF Init
<1>1. TypeOK
  <2>1. TableOK /\ HandlersOK
    BY DEF TableOK, HandlersOK, Statuses
  <2>2. QueuesOK /\ TaskOK
    BY DEF QueuesOK, TaskOK
  <2>3. LimitsOK /\ HistoryOK
    BY DEF LimitsOK, HistoryOK, Open, TimedOut
  <2> QED
    BY <2>1, <2>2, <2>3 DEF TypeOK
<1>2. ExecutorInv /\ RowInv /\ HandlerInv
  BY DEF ExecutorInv, RowInv, RowOf, HandlerInv, Terminal
<1>3. WireInv
  BY DEF WireInv, SentIsStored, StatusRepliesNeverGoBack
<1>4. ExitAbandonsNoJob /\ AnswerFitsRequest
  BY DEF ExitAbandonsNoJob, Abandoned, AnswerFitsRequest
<1> QED
  BY <1>1, <1>2, <1>3, <1>4 DEF IInv

-----------------------------------------------------------------------------
(* Types: a step keeps the part of TypeOK about the variables it leaves    *)
(* alone, and the others are looked at one action at a time.               *)
LEMMA NextType == TypeOK /\ [Next]_vars => TypeOK'
<1> SUFFICES ASSUME TypeOK, [Next]_vars PROVE TypeOK'
  OBVIOUS
<1>a. UNCHANGED table => TableOK'
  BY DEF TypeOK, TableOK, table
<1>b. UNCHANGED queues => QueuesOK'
  BY DEF TypeOK, QueuesOK, queues
<1>c. UNCHANGED handler => HandlersOK'
  BY DEF TypeOK, HandlersOK, handler
<1>d. UNCHANGED task => TaskOK'
  BY DEF TypeOK, TaskOK, task
<1>e. UNCHANGED limits => LimitsOK'
  BY DEF TypeOK, LimitsOK, limits
<1>f. UNCHANGED history => HistoryOK'
  BY DEF TypeOK, HistoryOK, history
<1> USE <1>a, <1>b, <1>c, <1>d, <1>e, <1>f, ConstantsAssumption DEF TypeOK
<1>h. ASSUME NEW j \in Jobs, NEW how \in 0..TimedOut, Resolve(j, how)
      PROVE  answers' \in [Jobs -> [Requests -> 0..TimedOut]]
  <2> DEFINE n == pending_input_request[j]
             row == [answers[j] EXCEPT ![n] = how]
  <2>1. row \in [Requests -> 0..TimedOut]
    BY DEF HistoryOK
  <2>2. answers' = [answers EXCEPT ![j] = row]
    BY <1>h DEF Resolve
  <2> QED
    BY <2>1, <2>2 DEF HistoryOK
<1>1. ASSUME NEW j \in Jobs, RecvPost(j) PROVE TypeOK'
  <2>1. QueuesOK'
    BY <1>1 DEF RecvPost, Take, QueuesOK
  <2>2. LimitsOK'
    BY <1>1 DEF RecvPost, Take, LimitsOK
  <2> QED
    BY <1>1, <2>1, <2>2 DEF RecvPost, Take
<1>2. ASSUME NEW j \in Jobs, RecvGet(j) PROVE TypeOK'
  <2>1. QueuesOK'
    BY <1>2 DEF RecvGet, Take, QueuesOK
  <2>2. LimitsOK'
    BY <1>2 DEF RecvGet, Take, LimitsOK
  <2> QED
    BY <1>2, <2>1, <2>2 DEF RecvGet, Take
<1>3. ASSUME NEW j \in Jobs, NEW n \in Requests, RecvPut(j, n) PROVE TypeOK'
  <2>1. QueuesOK'
    BY <1>3 DEF RecvPut, Take, QueuesOK
  <2>2. LimitsOK'
    BY <1>3 DEF RecvPut, Take, LimitsOK
  <2> QED
    BY <1>3, <2>1, <2>2 DEF RecvPut, Take
<1>4. CASE AddJob
  <2>1. Head(post_queue) \in Jobs
    BY <1>4 DEF AddJob, QueuesOK
  <2>2. QueuesOK'
    BY <1>4 DEF AddJob, QueuesOK
  <2>3. TableOK' /\ clock' \in Nat
    <3> DEFINE j == Head(post_queue)
    <3>1. CASE InsertSucceeds(j)
      <4>1. PICK now \in {clock, clock + 1} :
              /\ clock' = now
              /\ created' = [created EXCEPT ![j] = now]
              /\ status' = [status EXCEPT ![j] = "PENDING"]
        BY <1>4, <3>1 DEF AddJob
      <4>2. now \in Nat /\ result' = result
        BY <1>4 DEF AddJob
      <4> QED
        BY <2>1, <4>1, <4>2 DEF TableOK, Statuses
    <3>2. CASE ~InsertSucceeds(j)
      BY <1>4, <3>2 DEF AddJob, TableOK
    <3> QED
      BY <3>1, <3>2
  <2>4. HandlersOK'
    BY <1>4, <2>1 DEF AddJob, HandlersOK
  <2> QED
    BY <1>4, <2>1, <2>2, <2>3, <2>4 DEF AddJob
<1>5. CASE AckJob
  <2>1. HandlersOK'
    BY <1>5 DEF AckJob, HandlersOK
  <2>2. Msg("201") \in Message
    BY <1>5 DEF Msg, Message, Codes
  <2>3. HistoryOK'
    BY <1>5, <2>2 DEF AckJob, Send, HandlersOK, HistoryOK
  <2> QED
    BY <1>5, <2>1, <2>2, <2>3 DEF AckJob
<1>6. CASE ReadJob
  <2>1. QueuesOK'
    BY <1>6 DEF ReadJob, QueuesOK
  <2>2. Head(get_queue) \in Jobs
    BY <1>6 DEF ReadJob, QueuesOK
  <2>3. HandlersOK'
    BY <1>6, <2>2 DEF ReadJob, HandlersOK, TableOK
  <2> QED
    BY <1>6, <2>1, <2>2, <2>3 DEF ReadJob
<1>7. CASE SendReply
  <2>1. HandlersOK'
    BY <1>7 DEF SendReply, HandlersOK
  <2>2. ReplyTo(getting[1], getting[2]) \in Message
    BY <1>7 DEF SendReply, HandlersOK, TableOK, TaskOK, Statuses, Terminal, ReplyTo, Msg, Asking, Message, Codes
  <2>3. HistoryOK'
    BY <1>7, <2>2 DEF SendReply, Send, HandlersOK, HistoryOK
  <2> QED
    BY <1>7, <2>1, <2>2, <2>3 DEF SendReply
<1>8. CASE DeliverInput
  <2>1. QueuesOK'
    BY <1>8 DEF DeliverInput, QueuesOK
  <2>2. Head(put_queue)[1] \in Jobs /\ Head(put_queue)[2] \in Requests
    BY <1>8 DEF DeliverInput, QueuesOK
  <2>3. TaskOK'
    BY <1>8, <2>2 DEF DeliverInput, TaskOK
  <2> QED
    BY <1>8, <2>1, <2>2, <2>3 DEF DeliverInput
<1>9. CASE SendEvent
  <2>1. QueuesOK'
    BY <1>9 DEF SendEvent, QueuesOK
  <2>2. Head(event_queue)[1] \in Jobs /\ Head(event_queue)[2] \in Message
    BY <1>9 DEF SendEvent, QueuesOK
  <2>3. HistoryOK'
    BY <1>9, <2>2 DEF SendEvent, Send, HistoryOK
  <2> QED
    BY <1>9, <2>1, <2>2, <2>3 DEF SendEvent
<1>10. ASSUME NEW j \in Jobs, GetNextPendingJob(j) PROVE TypeOK'
  <2>1. TableOK'
    BY <1>10 DEF GetNextPendingJob, Picked, TableOK, Statuses
  <2>2. TaskOK'
    BY <1>10 DEF GetNextPendingJob, TaskOK
  <2> QED
    BY <1>10, <2>1, <2>2 DEF GetNextPendingJob
<1>11. CASE RunNextJob
  <2>1. Head(executor) \in Jobs
    BY <1>11 DEF RunNextJob, TaskOK
  <2>2. TaskOK'
    BY <1>11, <2>1 DEF RunNextJob, TaskOK
  <2>3. HistoryOK'
    BY <1>11, <2>1 DEF RunNextJob, HistoryOK
  <2> QED
    BY <1>11, <2>1, <2>2, <2>3 DEF RunNextJob
<1>12. ASSUME NEW j \in Jobs, RequestInput(j) PROVE TypeOK'
  <2>1. TaskOK'
    BY <1>12 DEF RequestInput, PublishedRequest, TaskOK, HistoryOK
  <2>2. HistoryOK'
    BY <1>12 DEF RequestInput, HistoryOK
  <2> QED
    BY <1>12, <2>1, <2>2 DEF RequestInput
<1>13. ASSUME NEW j \in Jobs, SetWaiting(j) PROVE TypeOK'
  <2>1. TableOK'
    BY <1>13 DEF SetWaiting, TableOK, Statuses
  <2>2. Asking("input_request", pending_input_request[j]) \in Message
    BY <1>13 DEF TaskOK, Asking, Msg, Message, Codes
  <2>3. QueuesOK'
    BY <1>13, <2>2 DEF SetWaiting, QueuesOK
  <2>4. TaskOK'
    BY <1>13 DEF SetWaiting, TaskOK
  <2> QED
    BY <1>13, <2>1, <2>2, <2>3, <2>4 DEF SetWaiting
<1>14. ASSUME NEW j \in Jobs, TakeInput(j) PROVE TypeOK'
  <2>1. Head(client_input_queue[j]) \in Requests
    BY <1>14 DEF TakeInput, TaskOK
  <2>2. TaskOK'
    <3>1. client_input_queue' \in [Jobs -> Seq(Requests)] /\ executor' \in Seq(Jobs)
      BY <1>14 DEF TakeInput, TaskOK
    <3>2. CASE AnswersRequest(j, Head(client_input_queue[j]))
      <4>1. /\ pc' = [pc EXCEPT ![j] = "resolved"]
            /\ pending_input_request' = [pending_input_request EXCEPT ![j] = 0]
        BY <1>14, <3>2 DEF TakeInput, Resolve
      <4> QED
        BY <3>1, <4>1 DEF TaskOK
    <3>3. CASE ~AnswersRequest(j, Head(client_input_queue[j]))
      BY <1>14, <3>1, <3>3 DEF TakeInput, TaskOK
    <3> QED
      BY <3>2, <3>3
  <2>3. HistoryOK'
    <3>1. Head(client_input_queue[j]) \in 0..TimedOut
      BY <2>1 DEF Requests, TimedOut
    <3>2. CASE AnswersRequest(j, Head(client_input_queue[j]))
      BY <1>14, <1>h, <3>1, <3>2 DEF TakeInput, HistoryOK
    <3>3. CASE ~AnswersRequest(j, Head(client_input_queue[j]))
      BY <1>14, <3>3 DEF TakeInput, HistoryOK
    <3> QED
      BY <3>2, <3>3
  <2> QED
    BY <1>14, <2>1, <2>2, <2>3 DEF TakeInput
<1>15. ASSUME NEW j \in Jobs, InputTimeout(j) PROVE TypeOK'
  <2>1. TaskOK'
    BY <1>15 DEF InputTimeout, Resolve, TaskOK
  <2>2. HistoryOK'
    <3>1. TimedOut \in 0..TimedOut
      BY DEF TimedOut
    <3> QED
      BY <1>15, <1>h, <3>1 DEF InputTimeout, HistoryOK
  <2> QED
    BY <1>15, <2>1, <2>2 DEF InputTimeout
<1>16. ASSUME NEW j \in Jobs, SetStarted(j) PROVE TypeOK'
  <2>1. TableOK'
    BY <1>16 DEF SetStarted, TableOK, Statuses
  <2>2. TaskOK'
    BY <1>16 DEF SetStarted, TaskOK
  <2> QED
    BY <1>16, <2>1, <2>2 DEF SetStarted
<1>17. ASSUME NEW j \in Jobs, NEW outcome \in Terminal, SaveResult(j, outcome) PROVE TypeOK'
  <2>1. TableOK'
    BY <1>17 DEF SaveResult, StoredResult, TableOK, Statuses
  <2>2. TaskOK'
    BY <1>17 DEF SaveResult, TaskOK
  <2> QED
    BY <1>17, <2>1, <2>2 DEF SaveResult
<1>18. ASSUME NEW j \in Jobs, LeaveRunningJobs(j) PROVE TypeOK'
  <2>1. Msg("completed") \in Message
    BY <1>18 DEF Msg, Message, Codes
  <2>2. QueuesOK'
    BY <1>18, <2>1 DEF LeaveRunningJobs, QueuesOK
  <2>3. TaskOK'
    BY <1>18 DEF LeaveRunningJobs, TaskOK
  <2> QED
    BY <1>18, <2>1, <2>2, <2>3 DEF LeaveRunningJobs
<1>19. ASSUME LoseMemory PROVE QueuesOK' /\ HandlersOK' /\ TaskOK' /\ phase' = "stopped"
  BY <1>19 DEF LoseMemory, QueuesOK, HandlersOK, TaskOK
<1>20. CASE Crash
  <2>1. LimitsOK'
    BY <1>20 DEF Crash, LimitsOK
  <2> QED
    BY <1>19, <1>20, <2>1 DEF Crash
<1>21. CASE SetExitEvent
  <2>1. LimitsOK'
    BY <1>21 DEF SetExitEvent, LimitsOK
  <2> QED
    BY <1>21, <2>1 DEF SetExitEvent
<1>22. CASE Destroy
  BY <1>19, <1>22 DEF Destroy
<1>23. CASE Restart
  <2>1. TableOK'
    BY <1>23 DEF Restart, TableAtStart, TableOK
  <2> QED
    BY <1>23, <2>1 DEF Restart
<1>24. CASE UNCHANGED vars
  BY <1>24 DEF vars
<1>25. CASE Idle
  BY <1>24, <1>25 DEF Idle
<1> QED
  BY <1>1, <1>2, <1>3, <1>4, <1>5, <1>6, <1>7, <1>8, <1>9, <1>10, <1>11, <1>12, <1>13,
     <1>14, <1>15, <1>16, <1>17, <1>18, <1>20, <1>21, <1>22, <1>23, <1>24, <1>25
  DEF Next, JobStep

-----------------------------------------------------------------------------
(* Most steps move messages and leave the jobs where they are.             *)
rows == <<status, result, pc, executor, runs, pending_input_request>>

(* Only these steps touch the job rows, the executor or a task.            *)
LEMMA MovesJobs ==
  [Next]_vars =>
    \/ UNCHANGED rows
    \/ AddJob \/ RunNextJob \/ Crash \/ Destroy
    \/ \E j \in Jobs : GetNextPendingJob(j) \/ JobStep(j)
<1> SUFFICES ASSUME [Next]_vars
             PROVE  \/ UNCHANGED rows
                    \/ AddJob \/ RunNextJob \/ Crash \/ Destroy
                    \/ \E j \in Jobs : GetNextPendingJob(j) \/ JobStep(j)
  OBVIOUS
<1> USE DEF rows, table, task, history
<1>1. ASSUME Take PROVE UNCHANGED rows
  BY <1>1 DEF Take
<1>2. (\E j \in Jobs : RecvPost(j) \/ RecvGet(j)) => UNCHANGED rows
  BY <1>1 DEF RecvPost, RecvGet
<1>3. (\E j \in Jobs, n \in Requests : RecvPut(j, n)) => UNCHANGED rows
  BY <1>1 DEF RecvPut
<1>4. AckJob \/ ReadJob \/ SendReply => UNCHANGED rows
  BY DEF AckJob, ReadJob, SendReply
<1>5. DeliverInput \/ SendEvent \/ SetExitEvent \/ Restart => UNCHANGED rows
  BY DEF DeliverInput, SendEvent, SetExitEvent, Restart, TableAtStart
<1>6. Idle \/ UNCHANGED vars => UNCHANGED rows
  BY DEF Idle, vars
<1> QED
  BY <1>2, <1>3, <1>4, <1>5, <1>6 DEF Next

(* The executor's queue.                                                   *)
LEMMA NextExecutor == TypeOK /\ ExecutorInv /\ RowInv /\ [Next]_vars => ExecutorInv'
<1> SUFFICES ASSUME TypeOK, ExecutorInv, RowInv, [Next]_vars PROVE ExecutorInv'
  OBVIOUS
<1>1. CASE UNCHANGED rows
  BY <1>1 DEF rows, ExecutorInv
<1>2. CASE AddJob
  BY <1>2 DEF AddJob, task, ExecutorInv
<1>3. CASE RunNextJob
  <2> DEFINE j == Head(executor)
  <2>1. /\ executor # <<>> /\ executor' = Tail(executor)
        /\ pc' = [pc EXCEPT ![j] = "running"]
    BY <1>3 DEF RunNextJob
  <2>2. executor \in Seq(Jobs) /\ Len(executor) \in Nat \ {0} /\ j = executor[1]
    BY <2>1 DEF TypeOK, TaskOK
  <2>3. /\ Len(executor') = Len(executor) - 1
        /\ \A i \in 1..Len(executor') : executor'[i] = executor[i + 1]
    BY <2>1, <2>2
  <2>4. \A i \in 1..Len(executor') : executor'[i] \in Jobs /\ executor'[i] # j
    BY <2>2, <2>3 DEF ExecutorInv
  <2>5. \A i \in 1..Len(executor') : pc'[executor'[i]] = "queued"
    BY <2>1, <2>2, <2>3, <2>4 DEF ExecutorInv, TypeOK, TaskOK
  <2>6. \A a, b \in 1..Len(executor') : executor'[a] = executor'[b] => a = b
    <3> TAKE a, b \in 1..Len(executor')
    <3>1. a + 1 \in 1..Len(executor) /\ b + 1 \in 1..Len(executor)
      BY <2>2, <2>3
    <3> QED
      BY <2>2, <2>3, <3>1 DEF ExecutorInv
  <2>7. ASSUME NEW k \in Jobs, pc'[k] = "queued"
        PROVE  \E i \in 1..Len(executor') : executor'[i] = k
    <3>1. k # j /\ pc[k] = "queued"
      BY <2>1, <2>2, <2>7 DEF TypeOK, TaskOK
    <3>2. PICK i \in 1..Len(executor) : executor[i] = k
      BY <3>1 DEF ExecutorInv
    <3>3. i # 1 /\ i - 1 \in 1..Len(executor')
      BY <2>2, <2>3, <3>1, <3>2
    <3>4. (i - 1) + 1 = i
      OBVIOUS
    <3>5. executor'[i - 1] = executor[(i - 1) + 1]
      BY <2>3, <3>3
    <3> QED
      BY <3>2, <3>3, <3>4, <3>5
  <2> QED
    BY <2>5, <2>6, <2>7 DEF ExecutorInv
<1>4. CASE Crash \/ Destroy
  BY <1>4 DEF Crash, Destroy, LoseMemory, ExecutorInv
<1>5. ASSUME NEW j \in Jobs, GetNextPendingJob(j) PROVE ExecutorInv'
  <2>1. /\ executor' = Append(executor, j)
        /\ pc' = [pc EXCEPT ![j] = "queued"]
        /\ status[j] = "PENDING"
    BY <1>5 DEF GetNextPendingJob, OldestPending
  <2>2. executor \in Seq(Jobs) /\ Len(executor) \in Nat
    BY DEF TypeOK, TaskOK
  <2>3. /\ Len(executor') = Len(executor) + 1
        /\ executor'[Len(executor) + 1] = j
        /\ \A i \in 1..Len(executor) : executor'[i] = executor[i] /\ executor[i] \in Jobs
    BY <2>1, <2>2
  <2>4. pc[j] # "queued"
    BY <2>1 DEF RowInv, RowOf
  <2>5. \A i \in 1..Len(executor) : executor[i] # j
    BY <2>4 DEF ExecutorInv
  <2>6. \A i \in 1..Len(executor') : pc'[executor'[i]] = "queued"
    BY <2>1, <2>2, <2>3 DEF ExecutorInv, TypeOK, TaskOK
  <2>7. \A a, b \in 1..Len(executor') : executor'[a] = executor'[b] => a = b
    BY <2>2, <2>3, <2>5 DEF ExecutorInv
  <2>8. \A k \in Jobs : pc'[k] = "queued" => \E i \in 1..Len(executor') : executor'[i] = k
    BY <2>1, <2>2, <2>3 DEF ExecutorInv, TypeOK, TaskOK
  <2> QED
    BY <2>6, <2>7, <2>8 DEF ExecutorInv
<1>6. ASSUME NEW j \in Jobs, JobStep(j) PROVE ExecutorInv'
  <2>1. /\ executor' = executor /\ pc[j] # "queued"
        /\ \E at \in {"running", "asking", "waiting", "resolved", "saved", "none"} :
             pc' = [pc EXCEPT ![j] = at] \/ pc' = pc
    BY <1>6 DEF JobStep, RequestInput, SetWaiting, TakeInput, InputTimeout, Resolve,
                SetStarted, SaveResult, LeaveRunningJobs
  <2> QED
    BY <2>1 DEF ExecutorInv, TypeOK, TaskOK
<1> QED
  BY <1>1, <1>2, <1>3, <1>4, <1>5, <1>6, MovesJobs

-----------------------------------------------------------------------------
(* The rows of the table: a step about job k leaves the others alone.      *)
(* A job only moves forward: from no row to a row, from a row to a result, *)
(* which is then never changed.                                            *)
Forward(j) ==
  /\ Level(status[j]) <= Level(status'[j])
  /\ status[j] \in Terminal => status'[j] = status[j] /\ result'[j] = result[j]

(* The values of Level.                                                    *)
LEMMA Levels == \A st \in Statuses :
    /\ Level(st) \in 0..2
    /\ st # "absent" => Level(st) >= 1
    /\ st \in Terminal <=> Level(st) = 2
  BY DEF Statuses, Level, Terminal

Same(j) ==
  /\ status'[j] = status[j] /\ result'[j] = result[j] /\ pc'[j] = pc[j]
  /\ runs'[j] = runs[j] /\ pending_input_request'[j] = pending_input_request[j]

(* A row no step touched keeps its invariant.                              *)
LEMMA SameRow ==
  ASSUME NEW j \in Jobs, TypeOK, RowOf(j), Same(j)
  PROVE  RowOf(j)' /\ Forward(j)
<1>1. RowOf(j)'
  BY DEF RowOf, Same
<1>2. status[j] \in Statuses
  BY DEF TypeOK, TableOK
<1>3. Level(status[j]) \in 0..2
  BY <1>2, Levels
<1>4. Level(status[j]) <= Level(status'[j])
  BY <1>3 DEF Same
<1> QED
  BY <1>1, <1>4 DEF Forward, Same

(* A step of job k touches no other job's row.                             *)
LEMMA OtherRows ==
  ASSUME NEW j \in Jobs, NEW k \in Jobs, TypeOK, JobStep(k), j # k
  PROVE  Same(j)
<1>t. /\ pc \in [Jobs -> {"none", "queued", "running", "asking", "waiting", "resolved", "saved"}]
      /\ status \in [Jobs -> Statuses] /\ result \in [Jobs -> {"none"} \cup Terminal]
      /\ pending_input_request \in [Jobs -> 0..MaxAsks]
  BY DEF TypeOK, TableOK, TaskOK
<1> USE <1>t DEF Same
<1>1. RequestInput(k) \/ SetWaiting(k) \/ SetStarted(k) \/ LeaveRunningJobs(k) => Same(j)
  BY DEF RequestInput, SetWaiting, SetStarted, LeaveRunningJobs, table, history
<1>2. TakeInput(k) \/ InputTimeout(k) => Same(j)
  BY DEF TakeInput, InputTimeout, Resolve, table
<1>3. (\E outcome \in Terminal : SaveResult(k, outcome)) => Same(j)
  BY DEF SaveResult, history
<1> QED
  BY <1>1, <1>2, <1>3 DEF JobStep

(* Every step keeps RowInv and moves each job forward only.                *)
LEMMA NextRow ==
  TypeOK /\ ExecutorInv /\ RowInv /\ [Next]_vars => RowInv' /\ \A j \in Jobs : Forward(j)
<1> SUFFICES ASSUME TypeOK, ExecutorInv, RowInv, [Next]_vars, NEW j \in Jobs
             PROVE  RowOf(j)' /\ Forward(j)
  BY DEF RowInv
<1>r. RowOf(j)
  BY DEF RowInv
<1>t. /\ pc \in [Jobs -> {"none", "queued", "running", "asking", "waiting", "resolved", "saved"}]
      /\ status \in [Jobs -> Statuses] /\ result \in [Jobs -> {"none"} \cup Terminal]
      /\ runs \in [Jobs -> Nat] /\ pending_input_request \in [Jobs -> 0..MaxAsks]
  BY DEF TypeOK, TableOK, TaskOK, HistoryOK
<1>0. CASE Same(j)
  BY <1>0, <1>r, SameRow
<1>o. ASSUME NEW k \in Jobs, JobStep(k), j # k PROVE RowOf(j)' /\ Forward(j)
  BY <1>0, <1>o, OtherRows
<1> USE <1>r, <1>t DEF Statuses, Terminal, Level, Same
<1>1. CASE UNCHANGED rows
  BY <1>0, <1>1 DEF rows
<1>2. CASE AddJob
  <2>1. /\ pc' = pc /\ result' = result /\ runs' = runs
        /\ pending_input_request' = pending_input_request
    BY <1>2 DEF AddJob, task, history
  <2>2. CASE j = Head(post_queue) /\ InsertSucceeds(j)
    <3>1. status[j] = "absent" /\ status' = [status EXCEPT ![j] = "PENDING"]
      BY <1>2, <2>2 DEF AddJob, InsertSucceeds
    <3> QED
      BY <2>1, <3>1 DEF RowOf, Forward
  <2>3. CASE ~(j = Head(post_queue) /\ InsertSucceeds(j))
    <3>1. status'[j] = status[j]
      BY <1>2, <2>3 DEF AddJob
    <3> QED
      BY <1>0, <2>1, <3>1
  <2> QED
    BY <2>2, <2>3
<1>3. CASE RunNextJob
  <2> DEFINE k == Head(executor)
  <2>1. /\ executor # <<>>
        /\ pc' = [pc EXCEPT ![k] = "running"]
        /\ runs' = [runs EXCEPT ![k] = @ + 1]
        /\ status' = status /\ result' = result
        /\ pending_input_request' = pending_input_request
    BY <1>3 DEF RunNextJob, table
  <2>2. pc[k] = "queued"
    <3>1. k = executor[1] /\ 1 \in 1..Len(executor)
      BY <2>1 DEF TypeOK, TaskOK
    <3> QED
      BY <3>1 DEF ExecutorInv
  <2>3. CASE j = k
    BY <2>1, <2>2, <2>3 DEF RowOf, Forward
  <2>4. CASE j # k
    BY <1>0, <2>1, <2>4
  <2> QED
    BY <2>3, <2>4
<1>4. CASE Crash \/ Destroy
  <2>1. status' = status /\ result' = result /\ runs' = runs /\ pc'[j] = "none"
    BY <1>4 DEF Crash, Destroy, LoseMemory, table, history
  <2> QED
    BY <2>1 DEF RowOf, Forward
<1>5. ASSUME NEW k \in Jobs, GetNextPendingJob(k) PROVE RowOf(j)' /\ Forward(j)
  <2>1. /\ status[k] = "PENDING"
        /\ status' = [status EXCEPT ![k] = "STARTED"]
        /\ pc' = [pc EXCEPT ![k] = "queued"]
        /\ result' = result /\ runs' = runs
        /\ pending_input_request' = pending_input_request
    BY <1>5 DEF GetNextPendingJob, OldestPending, Picked, history
  <2>2. CASE j = k
    BY <2>1, <2>2 DEF RowOf, Forward
  <2>3. CASE j # k
    BY <1>0, <2>1, <2>3
  <2> QED
    BY <2>2, <2>3
<1>7. CASE RequestInput(j)
  <2>1. /\ pc[j] = "running" /\ pc' = [pc EXCEPT ![j] = "asking"]
        /\ pending_input_request' = [pending_input_request EXCEPT ![j] = asked[j] + 1]
        /\ status' = status /\ result' = result /\ runs' = runs
        /\ asked[j] \in Nat /\ asked[j] < MaxAsks
    BY <1>7 DEF RequestInput, PublishedRequest, table, TypeOK, HistoryOK
  <2>2. asked[j] + 1 \in Requests
    BY <2>1, ConstantsAssumption DEF Requests
  <2> QED
    BY <2>1, <2>2 DEF RowOf, Forward
<1>8. CASE SetWaiting(j)
  <2>1. /\ pc[j] = "asking" /\ pc' = [pc EXCEPT ![j] = "waiting"]
        /\ status' = [status EXCEPT ![j] = "WAITING_CLIENT_INPUT"]
        /\ pending_input_request' = pending_input_request
        /\ result' = result /\ runs' = runs
    BY <1>8 DEF SetWaiting, history
  <2> QED
    BY <2>1 DEF RowOf, Forward
<1>9. CASE TakeInput(j) \/ InputTimeout(j)
  <2>1. /\ pc[j] = "waiting"
        /\ status' = status /\ result' = result /\ runs' = runs
        /\ \/ pc' = [pc EXCEPT ![j] = "resolved"]
           \/ pc' = pc /\ pending_input_request' = pending_input_request
    BY <1>9 DEF TakeInput, InputTimeout, Resolve, table
  <2> QED
    BY <1>0, <2>1 DEF RowOf, Forward
<1>10. CASE SetStarted(j)
  <2>1. /\ pc[j] = "resolved" /\ pc' = [pc EXCEPT ![j] = "running"]
        /\ status' = [status EXCEPT ![j] = "STARTED"]
        /\ result' = result /\ runs' = runs
    BY <1>10 DEF SetStarted, history
  <2> QED
    BY <2>1 DEF RowOf, Forward
<1>11. ASSUME NEW outcome \in {"COMPLETED", "FAILED"}, SaveResult(j, outcome)
       PROVE  RowOf(j)' /\ Forward(j)
  <2>1. /\ pc[j] = "running" /\ pc' = [pc EXCEPT ![j] = "saved"]
        /\ status' = [status EXCEPT ![j] = outcome]
        /\ result' = [result EXCEPT ![j] = outcome]
        /\ runs' = runs
    BY <1>11 DEF SaveResult, StoredResult, history
  <2> QED
    BY <1>11, <2>1 DEF RowOf, Forward
<1>12. CASE LeaveRunningJobs(j)
  <2>1. /\ pc[j] = "saved" /\ pc' = [pc EXCEPT ![j] = "none"]
        /\ status' = status /\ result' = result /\ runs' = runs
    BY <1>12 DEF LeaveRunningJobs, table, history
  <2> QED
    BY <2>1 DEF RowOf, Forward
<1>13. ASSUME NEW k \in Jobs, JobStep(k) PROVE RowOf(j)' /\ Forward(j)
  BY <1>o, <1>7, <1>8, <1>9, <1>10, <1>11, <1>12, <1>13 DEF JobStep
<1> QED
  BY <1>1, <1>2, <1>3, <1>4, <1>5, <1>13, MovesJobs

-----------------------------------------------------------------------------
(* Which steps touch the handlers, the events and the wire, and how.       *)
MessageMoves ==
  /\ posting' = posting \/ posting' = NoJob \/ AddJob
  /\ getting' = getting \/ getting' = <<>> \/ ReadJob
  /\ \/ event_queue' = event_queue \/ event_queue' = <<>>
     \/ SendEvent \/ \E j \in Jobs : SetWaiting(j) \/ LeaveRunningJobs(j)
  /\ wire' = wire \/ AckJob \/ SendReply \/ SendEvent
  /\ answers' = answers \/ \E j \in Jobs : TakeInput(j) \/ InputTimeout(j)

(* What each step does to the queues, the handlers and the wire.           *)
LEMMA MovesMessages == [Next]_vars => MessageMoves
<1> SUFFICES ASSUME [Next]_vars PROVE MessageMoves
  OBVIOUS
<1> USE DEF queues, handler, history, MessageMoves
<1>1. ASSUME Take PROVE event_queue' = event_queue /\ UNCHANGED handler /\ UNCHANGED history
  BY <1>1 DEF Take
<1>2. (\E j \in Jobs : RecvPost(j) \/ RecvGet(j)) => MessageMoves
  BY <1>1 DEF RecvPost, RecvGet
<1>3. (\E j \in Jobs, n \in Requests : RecvPut(j, n)) => MessageMoves
  BY <1>1 DEF RecvPut
<1>4. AddJob => MessageMoves
  BY DEF AddJob
<1>5. AckJob => MessageMoves
  BY DEF AckJob
<1>6. ReadJob => MessageMoves
  BY DEF ReadJob
<1>7. SendReply => MessageMoves
  BY DEF SendReply
<1>8. DeliverInput => MessageMoves
  BY DEF DeliverInput
<1>9. SendEvent => MessageMoves
  BY DEF SendEvent
<1>10. RunNextJob => MessageMoves
  BY DEF RunNextJob
<1>11. ASSUME NEW j \in Jobs, GetNextPendingJob(j) \/ RequestInput(j) \/ SetStarted(j)
       PROVE  MessageMoves
  BY <1>11 DEF GetNextPendingJob, RequestInput, SetStarted
<1>12. ASSUME NEW j \in Jobs, SetWaiting(j) \/ LeaveRunningJobs(j) PROVE MessageMoves
  BY <1>12 DEF SetWaiting, LeaveRunningJobs
<1>13. ASSUME NEW j \in Jobs, TakeInput(j) \/ InputTimeout(j) PROVE MessageMoves
  BY <1>13 DEF TakeInput, InputTimeout
<1>14. ASSUME NEW j \in Jobs, NEW outcome \in Terminal, SaveResult(j, outcome)
       PROVE  MessageMoves
  BY <1>14 DEF SaveResult
<1>15. Crash \/ Destroy => MessageMoves
  BY DEF Crash, Destroy, LoseMemory
<1>16. SetExitEvent \/ Restart => MessageMoves
  BY DEF SetExitEvent, Restart
<1>17. Idle \/ UNCHANGED vars => MessageMoves
  BY DEF Idle, vars
<1> QED
  BY <1>2, <1>3, <1>4, <1>5, <1>6, <1>7, <1>8, <1>9, <1>10, <1>11, <1>12, <1>13, <1>14,
     <1>15, <1>16, <1>17
  DEF Next, JobStep

(* The handlers and the event queue.                                       *)
LEMMA NextHandler ==
  TypeOK /\ ExecutorInv /\ RowInv /\ HandlerInv /\ [Next]_vars => HandlerInv'
<1> SUFFICES ASSUME TypeOK, ExecutorInv, RowInv, HandlerInv, [Next]_vars PROVE HandlerInv'
  OBVIOUS
<1>f. \A j \in Jobs : Forward(j)
  BY NextRow
<1>m. MessageMoves
  BY MovesMessages
<1>s. \A j \in Jobs : status[j] \in Statuses /\ status'[j] \in Statuses
  BY NextType DEF TypeOK, TableOK
<1>1. posting' # NoJob => status'[posting'] # "absent"
  <2>1. CASE posting' = posting
    <3>1. posting # NoJob => Level(status[posting]) >= 1 /\ posting \in Jobs
      BY <1>s, Levels DEF HandlerInv, TypeOK, HandlersOK
    <3>2. posting # NoJob => Level(status'[posting]) >= 1
      BY <1>f, <1>s, <3>1, Levels DEF Forward
    <3>3. Level("absent") = 0
      BY DEF Level, Terminal
    <3> QED
      BY <2>1, <3>2, <3>3
  <2>2. CASE AddJob
    <3>1. Head(post_queue) \in Jobs
      BY <2>2 DEF AddJob, TypeOK, QueuesOK
    <3>2. CASE InsertSucceeds(Head(post_queue))
      <4>1. posting' = Head(post_queue) /\ status' = [status EXCEPT ![posting'] = "PENDING"]
        BY <2>2, <3>2 DEF AddJob
      <4> QED
        BY <3>1, <4>1 DEF TypeOK, TableOK
    <3>3. CASE ~InsertSucceeds(Head(post_queue))
      BY <2>1, <2>2, <3>3 DEF AddJob
    <3> QED
      BY <3>2, <3>3
  <2> QED
    BY <1>m, <2>1, <2>2 DEF MessageMoves
<1>2. getting' # <<>> =>
        /\ Level(getting'[2]) <= Level(status'[getting'[1]])
        /\ getting'[2] \in Terminal => status'[getting'[1]] = getting'[2]
  <2>1. CASE getting' = getting
    <3>1. CASE getting # <<>>
      <4>1. getting[1] \in Jobs /\ getting[2] \in Statuses
        BY <3>1 DEF TypeOK, HandlersOK
      <4>2. /\ Level(getting[2]) \in 0..2 /\ Level(status[getting[1]]) \in 0..2
            /\ Level(status'[getting[1]]) \in 0..2
        BY <1>s, <4>1, Levels
      <4> QED
        BY <1>f, <2>1, <3>1, <4>1, <4>2 DEF HandlerInv, Forward
    <3> QED
      BY <2>1, <3>1
  <2>2. CASE ReadJob
    <3>1. /\ getting' = <<Head(get_queue), status[Head(get_queue)]>>
          /\ Head(get_queue) \in Jobs /\ status' = status
      BY <2>2 DEF ReadJob, TypeOK, QueuesOK, table
    <3>2. Level(status[Head(get_queue)]) \in 0..2
      BY <1>s, <3>1, Levels
    <3> QED
      BY <3>1, <3>2
  <2> QED
    BY <1>m, <2>1, <2>2 DEF MessageMoves
<1>3. ASSUME NEW j \in Jobs, status[j] \in Terminal PROVE status'[j] \in Terminal
  BY <1>f, <1>3 DEF Forward
<1> DEFINE Fine(e) == /\ e[2].code \in {"input_request", "completed"}
                      /\ e[2].code = "completed" => status[e[1]] \in Terminal
<1>4. \A i \in 1..Len(event_queue') : Fine(event_queue[i])'
  <2>t. event_queue \in Seq(Jobs \X Message)
    BY DEF TypeOK, QueuesOK
  <2>k. \A i \in 1..Len(event_queue) : Fine(event_queue[i]) /\ event_queue[i][1] \in Jobs
    BY <2>t DEF HandlerInv
  <2>1. CASE event_queue' = event_queue
    BY <1>3, <2>k, <2>1
  <2>2. CASE event_queue' = <<>>
    BY <2>2
  <2>3. CASE SendEvent
    <3>1. event_queue # <<>> /\ event_queue' = Tail(event_queue) /\ status' = status
      BY <2>3 DEF SendEvent, table
    <3>2. \A i \in 1..Len(event_queue') :
            i + 1 \in 1..Len(event_queue) /\ event_queue'[i] = event_queue[i + 1]
      BY <2>t, <3>1
    <3> QED
      BY <2>k, <3>1, <3>2
  <2>4. ASSUME NEW j \in Jobs, NEW m \in Message, event_queue' = Append(event_queue, <<j, m>>),
               m.code \in {"input_request", "completed"},
               m.code = "completed" => status'[j] \in Terminal
        PROVE  \A i \in 1..Len(event_queue') : Fine(event_queue[i])'
    <3>1. Len(event_queue) \in Nat
      BY <2>t
    <3>2. /\ Len(event_queue') = Len(event_queue) + 1
          /\ event_queue'[Len(event_queue) + 1] = <<j, m>>
          /\ \A i \in 1..Len(event_queue) : event_queue'[i] = event_queue[i]
      BY <2>4, <2>t
    <3> TAKE i \in 1..Len(event_queue')
    <3>3. CASE i = Len(event_queue) + 1
      BY <2>4, <3>2, <3>3
    <3>4. CASE i \in 1..Len(event_queue)
      BY <1>3, <2>k, <3>2, <3>4
    <3> QED
      BY <3>1, <3>2, <3>3, <3>4
  <2>5. ASSUME NEW j \in Jobs, SetWaiting(j)
        PROVE  \A i \in 1..Len(event_queue') : Fine(event_queue[i])'
    <3> DEFINE m == Asking("input_request", pending_input_request[j])
    <3>1. m \in Message /\ m.code = "input_request"
      BY DEF TypeOK, TaskOK, Asking, Msg, Message, Codes
    <3>2. event_queue' = Append(event_queue, <<j, m>>)
      BY <2>5 DEF SetWaiting
    <3> QED
      BY <2>4, <3>1, <3>2
  <2>6. ASSUME NEW j \in Jobs, LeaveRunningJobs(j)
        PROVE  \A i \in 1..Len(event_queue') : Fine(event_queue[i])'
    <3> DEFINE m == Msg("completed")
    <3>1. m \in Message /\ m.code = "completed"
      BY ConstantsAssumption DEF Msg, Message, Codes
    <3>2. event_queue' = Append(event_queue, <<j, m>>) /\ status'[j] \in Terminal
      BY <2>6 DEF LeaveRunningJobs, table, RowInv, RowOf
    <3> QED
      BY <2>4, <3>1, <3>2
  <2> QED
    BY <1>m, <2>1, <2>2, <2>3, <2>5, <2>6 DEF MessageMoves
<1> QED
  BY <1>1, <1>2, <1>4 DEF HandlerInv

-----------------------------------------------------------------------------
(* The wire.                                                               *)
Result(j) == [Msg("200") EXCEPT !.outcome = result[j]]

(* One message sent about job j keeps the wire in order when it says no    *)
(* more than the table does and no less than was said before.              *)
LEMMA SendInOrder ==
  ASSUME TypeOK, WireInv, NEW j \in Jobs, NEW m \in Message,
         Send(j, m), status' = status, result' = result,
         \A k \in Jobs : NextLevel(k) <= NextLevel(k)',
         \A k \in Jobs : NextLevel(k) \in 0..2 /\ NextLevel(k)' \in 0..2,
         m.code = "201" => status[j] # "absent",
         m.code \in {"completed", "200"} => status[j] \in Terminal /\ result[j] = status[j],
         IsStatusReply(m) => Progress(m) = NextLevel(j),
         m.code = "200" => m = Result(j)
  PROVE  WireInv'
<1>w. wire \in [Jobs -> Seq(Message)]
  BY DEF TypeOK, HistoryOK
<1>1. ASSUME NEW k \in Jobs, k # j PROVE wire'[k] = wire[k]
  BY <1>w, <1>1 DEF Send
<1>2. wire'[j] = Append(wire[j], m)
  BY <1>w DEF Send
<1>3. /\ Len(wire[j]) \in Nat /\ Len(wire'[j]) = Len(wire[j]) + 1
      /\ wire'[j][Len(wire[j]) + 1] = m
      /\ \A i \in 1..Len(wire[j]) : wire'[j][i] = wire[j][i]
  BY <1>w, <1>2
<1>d. \A k \in Jobs : DOMAIN wire[k] = 1..Len(wire[k]) /\ DOMAIN wire'[k] = 1..Len(wire'[k])
  BY <1>w, <1>1, <1>2
<1>4. ASSUME NEW i \in 1..Len(wire'[j])
      PROVE  i = Len(wire[j]) + 1 \/ i \in 1..Len(wire[j])
  BY <1>3
<1>p. ASSUME NEW n \in Message, IsStatusReply(n) PROVE Progress(n) \in 0..2
  BY <1>p DEF IsStatusReply, Progress
<1>5. SentIsStored'
  <2> SUFFICES ASSUME NEW k \in Jobs, NEW i \in 1..Len(wire'[k])
               PROVE  /\ wire'[k][i].code = "201" => status[k] # "absent"
                      /\ wire'[k][i].code \in {"completed", "200"} =>
                           status[k] \in Terminal /\ result[k] = status[k]
    BY <1>d DEF SentIsStored
  <2>1. CASE k # j
    BY <1>1, <1>d, <2>1 DEF WireInv, SentIsStored
  <2>2. CASE k = j /\ i = Len(wire[j]) + 1
    BY <1>3, <2>2
  <2>3. CASE k = j /\ i \in 1..Len(wire[j])
    BY <1>3, <1>d, <2>3 DEF WireInv, SentIsStored
  <2> QED
    BY <1>4, <2>1, <2>2, <2>3
<1>6. ASSUME NEW k \in Jobs, NEW i \in 1..Len(wire'[k])
      PROVE  /\ IsStatusReply(wire'[k][i]) => Progress(wire'[k][i]) <= NextLevel(k)'
             /\ wire'[k][i].code = "200" => wire'[k][i] = Result(k)
  <2>1. CASE k # j \/ i \in 1..Len(wire[j])
    <3>1. wire'[k][i] = wire[k][i] /\ i \in 1..Len(wire[k])
      BY <1>1, <1>3, <2>1
    <3>2. wire[k][i] \in Message
      BY <1>w, <3>1
    <3>3. /\ IsStatusReply(wire[k][i]) => Progress(wire[k][i]) <= NextLevel(k)
          /\ wire[k][i].code = "200" => wire[k][i] = Result(k)
      BY <3>1 DEF WireInv, Result
    <3> QED
      BY <1>p, <3>1, <3>2, <3>3
  <2>2. CASE k = j /\ i = Len(wire[j]) + 1
    BY <1>3, <2>2
  <2> QED
    BY <1>4, <2>1, <2>2
<1>7. StatusRepliesNeverGoBack'
  <2> SUFFICES ASSUME NEW k \in Jobs, NEW a \in 1..Len(wire'[k]), NEW b \in 1..Len(wire'[k]),
                      a < b, IsStatusReply(wire'[k][a]), IsStatusReply(wire'[k][b])
               PROVE  /\ Progress(wire'[k][a]) <= Progress(wire'[k][b])
                      /\ wire'[k][a].code = "200" => wire'[k][b] = wire'[k][a]
    BY <1>d DEF StatusRepliesNeverGoBack, IsStatusReply, Progress
  <2>1. CASE k # j \/ (a \in 1..Len(wire[j]) /\ b \in 1..Len(wire[j]))
    <3>1. /\ wire'[k][a] = wire[k][a] /\ a \in 1..Len(wire[k])
          /\ wire'[k][b] = wire[k][b] /\ b \in 1..Len(wire[k])
      BY <1>1, <1>3, <2>1
    <3> QED
      BY <1>d, <3>1 DEF WireInv, StatusRepliesNeverGoBack
  <2>2. CASE k = j /\ a \in 1..Len(wire[j]) /\ b = Len(wire[j]) + 1
    <3>1. wire'[j][a] = wire[j][a] /\ wire'[j][b] = m /\ wire[j][a] \in Message
      BY <1>w, <1>3, <2>2
    <3>2. /\ Progress(wire[j][a]) <= NextLevel(j)
          /\ wire[j][a].code = "200" => wire[j][a] = Result(j)
      BY <2>2, <3>1 DEF WireInv, Result
    <3>3. Progress(m) = NextLevel(j)
      BY <2>2, <3>1
    <3>4. ASSUME wire[j][a].code = "200" PROVE m = Result(j)
      <4>1. Progress(wire[j][a]) = 2
        BY <3>4 DEF Progress
      <4>2. Progress(m) = 2
        BY <1>p, <2>2, <3>1, <3>2, <3>3, <4>1
      <4>3. m.code = "200"
        BY <2>2, <3>1, <4>2 DEF Progress, IsStatusReply
      <4> QED
        BY <4>3
    <3> QED
      BY <2>2, <3>1, <3>2, <3>3, <3>4
  <2> QED
    BY <1>3, <1>4, <2>1, <2>2
<1>8. WireInv' <=> /\ SentIsStored' /\ StatusRepliesNeverGoBack'
                   /\ \A k \in Jobs : \A i \in 1..Len(wire'[k]) :
                        /\ IsStatusReply(wire'[k][i]) => Progress(wire'[k][i]) <= NextLevel(k)'
                        /\ wire'[k][i].code = "200" => wire'[k][i] = Result(k)'
  BY DEF WireInv, Result, IsStatusReply, Progress
<1>9. \A k \in Jobs : Result(k)' = Result(k)
  BY DEF Result, Msg
<1> QED
  BY <1>5, <1>6, <1>7, <1>8, <1>9

(* Every step keeps the invariant about what was told to the broker.       *)
LEMMA NextWire ==
  TypeOK /\ ExecutorInv /\ RowInv /\ HandlerInv /\ WireInv /\ [Next]_vars => WireInv'
<1> SUFFICES ASSUME TypeOK, ExecutorInv, RowInv, HandlerInv, WireInv, [Next]_vars PROVE WireInv'
  OBVIOUS
<1>t. TypeOK'
  BY NextType
<1>m. MessageMoves
  BY MovesMessages
<1>f. \A j \in Jobs : Forward(j)
  BY NextRow
<1>w. wire \in [Jobs -> Seq(Message)]
  BY DEF TypeOK, HistoryOK
<1>g. getting # <<>> => getting[1] \in Jobs /\ getting[2] \in Statuses
  BY DEF TypeOK, HandlersOK
<1>h. getting' # <<>> => getting'[1] \in Jobs /\ getting'[2] \in Statuses
  BY <1>t DEF TypeOK, HandlersOK
<1>s. \A j \in Jobs : status[j] \in Statuses /\ status'[j] \in Statuses
  BY <1>t DEF TypeOK, TableOK
<1>l. \A j \in Jobs :
        /\ Level(status[j]) \in 0..2 /\ Level(status'[j]) \in 0..2
        /\ NextLevel(j) \in 0..2 /\ NextLevel(j)' \in 0..2
  <2>1. \A j \in Jobs : Level(status[j]) \in 0..2 /\ Level(status'[j]) \in 0..2
    BY <1>s, Levels
  <2>2. \A j \in Jobs : NextLevel(j) \in 0..2
    BY <1>g, <2>1, Levels DEF NextLevel
  <2>3. \A j \in Jobs : NextLevel(j)' \in 0..2
    <3>1. ASSUME NEW j \in Jobs, getting' # <<>>, getting'[1] = j PROVE NextLevel(j)' \in 0..2
      <4>1. NextLevel(j)' = Level(getting'[2])
        BY <3>1 DEF NextLevel, Level
      <4> QED
        BY <1>h, <3>1, <4>1, Levels
    <3>2. ASSUME NEW j \in Jobs, ~(getting' # <<>> /\ getting'[1] = j)
          PROVE  NextLevel(j)' \in 0..2
      <4>1. NextLevel(j)' = Level(status'[j])
        BY <3>2 DEF NextLevel, Level
      <4> QED
        BY <2>1, <4>1
    <3> QED
      BY <3>1, <3>2
  <2> QED
    BY <2>1, <2>2, <2>3
<1>n. ASSUME NEW j \in Jobs PROVE NextLevel(j) <= NextLevel(j)'
  <2>0. Level(status[j]) <= Level(status'[j])
    BY <1>f DEF Forward
  <2>1. NextLevel(j) <= Level(status[j])
    BY <1>l DEF NextLevel, HandlerInv
  <2>2. CASE getting' = getting
    <3>1. CASE getting # <<>> /\ getting[1] = j
      <4>1. NextLevel(j) = Level(getting[2]) /\ NextLevel(j)' = Level(getting[2])
        BY <2>2, <3>1 DEF NextLevel, Level
      <4> QED
        BY <1>l, <4>1
    <3>2. CASE ~(getting # <<>> /\ getting[1] = j)
      <4>1. NextLevel(j) = Level(status[j]) /\ NextLevel(j)' = Level(status'[j])
        BY <2>2, <3>2 DEF NextLevel, Level
      <4> QED
        BY <2>0, <4>1
    <3> QED
      BY <3>1, <3>2
  <2>3. CASE getting' = <<>>
    <3>1. NextLevel(j)' = Level(status'[j])
      BY <2>3 DEF NextLevel, Level
    <3> QED
      BY <1>l, <2>0, <2>1, <3>1
  <2>4. CASE ReadJob
    <3>1. /\ getting = <<>> /\ status' = status
          /\ getting' = <<Head(get_queue), status[Head(get_queue)]>>
      BY <2>4 DEF ReadJob, table
    <3>2. NextLevel(j)' = Level(status[j])
      BY <3>1 DEF NextLevel, Level
    <3> QED
      BY <1>l, <2>1, <3>2
  <2> QED
    BY <1>m, <2>2, <2>3, <2>4 DEF MessageMoves
<1>1. CASE wire' = wire
  <2>1. SentIsStored'
    <3> SUFFICES ASSUME NEW j \in Jobs, NEW i \in DOMAIN wire[j]
                 PROVE  /\ wire[j][i].code = "201" => status'[j] # "absent"
                        /\ wire[j][i].code \in {"completed", "200"} =>
                             status'[j] \in Terminal /\ result'[j] = status'[j]
      BY <1>1 DEF SentIsStored
    <3>1. /\ wire[j][i].code = "201" => status[j] # "absent"
          /\ wire[j][i].code \in {"completed", "200"} =>
               status[j] \in Terminal /\ result[j] = status[j]
      BY DEF WireInv, SentIsStored
    <3>2. status[j] # "absent" => status'[j] # "absent"
      <4>1. Level("absent") = 0
        BY DEF Level, Terminal
      <4> QED
        BY <1>f, <1>l, <1>s, <4>1, Levels DEF Forward
    <3> QED
      BY <1>f, <3>1, <3>2 DEF Forward
  <2>2. StatusRepliesNeverGoBack'
    BY <1>1 DEF WireInv, StatusRepliesNeverGoBack, IsStatusReply, Progress
  <2>3. ASSUME NEW j \in Jobs, NEW i \in 1..Len(wire'[j])
        PROVE  /\ IsStatusReply(wire'[j][i]) => Progress(wire'[j][i]) <= NextLevel(j)'
               /\ wire'[j][i].code = "200" => wire'[j][i] = Result(j)'
    <3>1. /\ i \in 1..Len(wire[j]) /\ wire'[j][i] = wire[j][i] /\ wire[j][i] \in Message
          /\ i \in DOMAIN wire[j]
      BY <1>1, <1>w
    <3>2. /\ IsStatusReply(wire[j][i]) => Progress(wire[j][i]) <= NextLevel(j)
          /\ wire[j][i].code = "200" => wire[j][i] = Result(j) /\ status[j] \in Terminal
      BY <3>1 DEF WireInv, SentIsStored, Result
    <3>3. IsStatusReply(wire[j][i]) => Progress(wire[j][i]) \in 0..2
      BY DEF IsStatusReply, Progress
    <3>4. status[j] \in Terminal => Result(j)' = Result(j)
      BY <1>f DEF Forward, Result, Msg
    <3> QED
      BY <1>l, <1>n, <3>1, <3>2, <3>3, <3>4
  <2> QED
    BY <2>1, <2>2, <2>3 DEF WireInv, Result, IsStatusReply, Progress
<1>2. CASE AckJob
  <2>1. /\ posting \in Jobs /\ Send(posting, Msg("201")) /\ status' = status /\ result' = result
        /\ status[posting] # "absent"
    BY <1>2 DEF AckJob, table, TypeOK, HandlersOK, HandlerInv
  <2>2. Msg("201") \in Message /\ Msg("201").code = "201"
    BY ConstantsAssumption DEF Msg, Message, Codes
  <2>3. ~IsStatusReply(Msg("201"))
    BY <2>2 DEF IsStatusReply
  <2> QED
    BY <1>l, <1>n, <2>1, <2>2, <2>3, SendInOrder
<1>3. CASE SendReply
  <2> DEFINE j == getting[1]
             st == getting[2]
             m == ReplyTo(j, st)
  <2>1. /\ j \in Jobs /\ st \in Statuses /\ getting # <<>> /\ Send(j, m)
        /\ status' = status /\ result' = result
    BY <1>3, <1>g DEF SendReply, table
  <2>2. m \in Message /\ IsStatusReply(m) /\ Progress(m) = Level(st) /\ m.code # "201"
    BY <2>1, ConstantsAssumption
    DEF TypeOK, TableOK, TaskOK, Statuses, Terminal, ReplyTo, Msg, Asking, Message, Codes,
        IsStatusReply, Progress, Level
  <2>3. m.code = "200" => st \in Terminal /\ m = Result(j)
    BY <2>1 DEF Statuses, Terminal, ReplyTo, Msg, Asking, Result
  <2>4. NextLevel(j) = Level(st)
    BY <2>1 DEF NextLevel
  <2>5. st \in Terminal => status[j] = st /\ result[j] = status[j]
    BY <2>1 DEF HandlerInv, RowInv, RowOf
  <2>6. m.code # "completed"
    BY <2>2 DEF IsStatusReply
  <2> QED
    BY <1>l, <1>n, <2>1, <2>2, <2>3, <2>4, <2>5, <2>6, SendInOrder
<1>4. CASE SendEvent
  <2> DEFINE j == Head(event_queue)[1]
             m == Head(event_queue)[2]
  <2>1. /\ event_queue # <<>> /\ Send(j, m) /\ status' = status /\ result' = result
    BY <1>4 DEF SendEvent, table
  <2>2. /\ j \in Jobs /\ m \in Message
        /\ 1 \in 1..Len(event_queue) /\ Head(event_queue) = event_queue[1]
    BY <2>1 DEF TypeOK, QueuesOK
  <2>3. /\ m.code \in {"input_request", "completed"}
        /\ m.code = "completed" => status[j] \in Terminal
    BY <2>2 DEF HandlerInv
  <2>4. /\ ~IsStatusReply(m) /\ m.code # "201" /\ m.code # "200"
        /\ status[j] \in Terminal => result[j] = status[j]
    BY <2>2, <2>3 DEF IsStatusReply, RowInv, RowOf
  <2> QED
    BY <1>l, <1>n, <2>1, <2>2, <2>3, <2>4, SendInOrder
<1> QED
  BY <1>m, <1>1, <1>2, <1>3, <1>4 DEF MessageMoves

-----------------------------------------------------------------------------
(* Abandoned jobs and answers.                                             *)
LEMMA CrashesKept == [Next]_vars => crashes' = crashes \/ Crash
<1> SUFFICES ASSUME [Next]_vars PROVE crashes' = crashes \/ Crash
  OBVIOUS
<1> USE DEF limits
<1>1. (\E j \in Jobs : RecvPost(j) \/ RecvGet(j)) => crashes' = crashes
  BY DEF RecvPost, RecvGet, Take
<1>2. (\E j \in Jobs, n \in Requests : RecvPut(j, n)) => crashes' = crashes
  BY DEF RecvPut, Take
<1>3. AddJob \/ AckJob \/ ReadJob \/ SendReply \/ DeliverInput \/ SendEvent => crashes' = crashes
  BY DEF AddJob, AckJob, ReadJob, SendReply, DeliverInput, SendEvent
<1>4. ASSUME NEW j \in Jobs, GetNextPendingJob(j) \/ JobStep(j) PROVE crashes' = crashes
  BY <1>4 DEF GetNextPendingJob, JobStep, RequestInput, SetWaiting, TakeInput, InputTimeout,
              SetStarted, SaveResult, LeaveRunningJobs
<1>5. RunNextJob \/ SetExitEvent \/ Destroy \/ Restart \/ Idle \/ UNCHANGED vars
        => crashes' = crashes
  BY DEF RunNextJob, SetExitEvent, Destroy, Restart, Idle, vars
<1> QED
  BY <1>1, <1>2, <1>3, <1>4, <1>5 DEF Next

(* Without a crash, a job marked as being worked on has its task (work's   *)
(* shutdown waits for the pool).                                           *)
LEMMA NextExit ==
  TypeOK /\ ExecutorInv /\ RowInv /\ ExitAbandonsNoJob /\ [Next]_vars => ExitAbandonsNoJob'
<1> SUFFICES ASSUME TypeOK, ExecutorInv, RowInv, ExitAbandonsNoJob, [Next]_vars,
                    crashes' = 0, NEW j \in Jobs,
                    status'[j] \in {"STARTED", "WAITING_CLIENT_INPUT"}, pc'[j] = "none"
             PROVE  FALSE
  BY DEF ExitAbandonsNoJob, Abandoned
<1>t. /\ pc \in [Jobs -> {"none", "queued", "running", "asking", "waiting", "resolved", "saved"}]
      /\ status \in [Jobs -> Statuses]
  BY DEF TypeOK, TableOK, TaskOK
<1>c. crashes = 0
  <2>1. ~Crash
    BY DEF Crash, TypeOK, LimitsOK
  <2> QED
    BY <2>1, CrashesKept
<1>0. ASSUME status'[j] = status[j], pc'[j] = pc[j] PROVE FALSE
  BY <1>0, <1>c DEF ExitAbandonsNoJob, Abandoned
<1>1. CASE UNCHANGED rows
  BY <1>0, <1>1 DEF rows
<1>2. CASE AddJob
  <2>1. pc' = pc /\ (status'[j] = status[j] \/ status'[j] = "PENDING")
    <3>1. CASE InsertSucceeds(Head(post_queue))
      BY <1>2, <1>t, <3>1 DEF AddJob, task
    <3>2. CASE ~InsertSucceeds(Head(post_queue))
      BY <1>2, <3>2 DEF AddJob, task
    <3> QED
      BY <3>1, <3>2
  <2> QED
    BY <1>0, <2>1
<1>3. CASE RunNextJob
  BY <1>0, <1>3, <1>t DEF RunNextJob, table
<1>4. CASE Crash
  BY <1>4, <1>c DEF Crash
<1>5. CASE Destroy
  <2>1. status' = status /\ executor = <<>> /\ pc[j] \in {"none", "queued"}
    BY <1>5 DEF Destroy, ExecutorIdle, Active, table
  <2>2. pc[j] # "queued"
    BY <2>1 DEF ExecutorInv
  <2> QED
    BY <1>0, <2>1, <2>2
<1>6. ASSUME NEW k \in Jobs, GetNextPendingJob(k) PROVE FALSE
  BY <1>0, <1>6, <1>t DEF GetNextPendingJob
<1>7. ASSUME NEW k \in Jobs, JobStep(k) PROVE FALSE
  <2>1. CASE j # k
    BY <1>0, <1>7, <2>1, OtherRows DEF Same
  <2>2. CASE LeaveRunningJobs(j)
    <3>1. status'[j] = status[j] /\ status[j] \in Terminal
      BY <2>2 DEF LeaveRunningJobs, table, RowInv, RowOf
    <3> QED
      BY <3>1 DEF Terminal
  <2>3. RequestInput(j) \/ SetWaiting(j) \/ SetStarted(j) => pc'[j] # "none"
    BY <1>t DEF RequestInput, SetWaiting, SetStarted
  <2>4. TakeInput(j) \/ InputTimeout(j) => pc'[j] # "none"
    BY <1>t DEF TakeInput, InputTimeout, Resolve
  <2>5. (\E outcome \in Terminal : SaveResult(j, outcome)) => pc'[j] # "none"
    BY <1>t DEF SaveResult
  <2> QED
    BY <1>7, <2>1, <2>2, <2>3, <2>4, <2>5 DEF JobStep
<1> QED
  BY <1>1, <1>2, <1>3, <1>4, <1>5, <1>6, <1>7, MovesJobs

(* Every step keeps answers and requests matched (Job.request_input).      *)
LEMMA NextAnswers == TypeOK /\ AnswerFitsRequest /\ [Next]_vars => AnswerFitsRequest'
<1> SUFFICES ASSUME TypeOK, AnswerFitsRequest, [Next]_vars PROVE AnswerFitsRequest'
  OBVIOUS
<1>t. answers \in [Jobs -> [Requests -> 0..TimedOut]]
  BY DEF TypeOK, HistoryOK
<1>1. CASE answers' = answers
  BY <1>1 DEF AnswerFitsRequest, Open, TimedOut
<1>2. ASSUME NEW k \in Jobs, NEW how \in {pending_input_request[k], TimedOut}, Resolve(k, how)
      PROVE  AnswerFitsRequest'
  <2> SUFFICES ASSUME NEW j \in Jobs, NEW n \in Requests
               PROVE  answers'[j][n] \in {Open, n, TimedOut}
    BY DEF AnswerFitsRequest, Open, TimedOut
  <2> DEFINE row == [answers[k] EXCEPT ![pending_input_request[k]] = how]
  <2>1. answers' = [answers EXCEPT ![k] = row]
    BY <1>2 DEF Resolve
  <2>2. CASE j = k /\ n = pending_input_request[k]
    BY <1>t, <2>1, <2>2
  <2>3. CASE ~(j = k /\ n = pending_input_request[k])
    <3>1. answers'[j][n] = answers[j][n]
      BY <1>t, <2>1, <2>3
    <3> QED
      BY <3>1 DEF AnswerFitsRequest
  <2> QED
    BY <2>2, <2>3
<1>3. ASSUME NEW k \in Jobs, TakeInput(k) PROVE AnswerFitsRequest'
  BY <1>1, <1>2, <1>3 DEF TakeInput, AnswersRequest
<1>4. ASSUME NEW k \in Jobs, InputTimeout(k) PROVE AnswerFitsRequest'
  BY <1>2, <1>4 DEF InputTimeout
<1> QED
  BY <1>1, <1>3, <1>4, MovesMessages DEF MessageMoves

-----------------------------------------------------------------------------
(* The invariant is inductive.                                             *)
LEMMA NextInv == IInv /\ [Next]_vars => IInv'
<1> SUFFICES ASSUME IInv, [Next]_vars PROVE IInv'
  OBVIOUS
<1> USE DEF IInv
<1>1. TypeOK'
  BY NextType
<1>2. ExecutorInv' /\ RowInv'
  BY NextExecutor, NextRow
<1>3. HandlerInv' /\ WireInv'
  BY NextHandler, NextWire
<1>4. ExitAbandonsNoJob' /\ AnswerFitsRequest'
  BY NextExit, NextAnswers
<1> QED
  BY <1>1, <1>2, <1>3, <1>4

(* The inductive invariant holds in every behaviour of the worker.         *)
THEOREM Invariance == Spec => []IInv
  BY InitInv, NextInv, PTL DEF Spec

(* Every variable keeps its type in every behaviour.                       *)
THEOREM TypeCorrect == Spec => []TypeOK
<1>1. IInv => TypeOK
  BY DEF IInv
<1> QED
  BY <1>1, Invariance, PTL

(* A task runs at most once per job uuid, for any number of jobs, repeated *)
(* POSTs, crashes and restarts.                                            *)
THEOREM RunsAtMostOnce == Spec => []AtMostOnce
<1>1. IInv => AtMostOnce
  BY DEF IInv, RowInv, RowOf, AtMostOnce
<1> QED
  BY <1>1, Invariance, PTL

(* A graceful exit leaves no job marked as being worked on.                *)
THEOREM GracefulExit == Spec => []ExitAbandonsNoJob
<1>1. IInv => ExitAbandonsNoJob
  BY DEF IInv
<1> QED
  BY <1>1, Invariance, PTL

(* What was acknowledged, announced or returned is in the table.           *)
THEOREM WireIsDurable == Spec => []SentIsStored
<1>1. IInv => SentIsStored
  BY DEF IInv, WireInv
<1> QED
  BY <1>1, Invariance, PTL

(* The answers to GET never go back, across restarts.                      *)
THEOREM RepliesMonotone == Spec => []StatusRepliesNeverGoBack
<1>1. IInv => StatusRepliesNeverGoBack
  BY DEF IInv, WireInv
<1> QED
  BY <1>1, Invariance, PTL

(* No request for input is resolved by the answer to another one.          *)
THEOREM AnswersFit == Spec => []AnswerFitsRequest
<1>1. IInv => AnswerFitsRequest
  BY DEF IInv
<1> QED
  BY <1>1, Invariance, PTL

-----------------------------------------------------------------------------
(* The order in which jobs start: no creation time is ahead of the clock,  *)
(* and no pending or later queued job is older than one in the executor's  *)
(* queue.                                                                  *)
OrderInv ==
  /\ \A j \in Jobs : created[j] <= clock
  /\ \A j, k \in Jobs : pc[j] = "queued" /\ status[k] = "PENDING" => created[j] <= created[k]
  /\ \A a, b \in 1..Len(executor) : a < b => created[executor[a]] <= created[executor[b]]

(* Only _post writes creation times.                                       *)
LEMMA MovesTimes == [Next]_vars => UNCHANGED <<created, clock>> \/ AddJob
<1> SUFFICES ASSUME [Next]_vars, ~AddJob PROVE UNCHANGED <<created, clock>>
  OBVIOUS
<1> USE DEF table
<1>1. ASSUME Take PROVE UNCHANGED <<created, clock>>
  BY <1>1 DEF Take
<1>2. (\E j \in Jobs : RecvPost(j) \/ RecvGet(j)) => UNCHANGED <<created, clock>>
  BY <1>1 DEF RecvPost, RecvGet
<1>3. (\E j \in Jobs, n \in Requests : RecvPut(j, n)) => UNCHANGED <<created, clock>>
  BY <1>1 DEF RecvPut
<1>4. AckJob \/ ReadJob \/ SendReply \/ DeliverInput \/ SendEvent \/ RunNextJob
        => UNCHANGED <<created, clock>>
  BY DEF AckJob, ReadJob, SendReply, DeliverInput, SendEvent, RunNextJob
<1>5. (\E j \in Jobs : GetNextPendingJob(j) \/ JobStep(j)) => UNCHANGED <<created, clock>>
  BY DEF GetNextPendingJob, JobStep, RequestInput, SetWaiting, TakeInput, InputTimeout,
         SetStarted, SaveResult, LeaveRunningJobs
<1>6. Crash \/ Destroy \/ SetExitEvent \/ Restart => UNCHANGED <<created, clock>>
  BY DEF Crash, Destroy, SetExitEvent, Restart
<1>7. Idle \/ UNCHANGED vars => UNCHANGED <<created, clock>>
  BY DEF Idle, vars
<1> QED
  BY <1>2, <1>3, <1>4, <1>5, <1>6, <1>7 DEF Next

(* No step lets a younger job pass an older one.                           *)
LEMMA NextOrder == IInv /\ OrderInv /\ [Next]_vars => OrderInv'
<1> SUFFICES ASSUME IInv, OrderInv, [Next]_vars PROVE OrderInv'
  OBVIOUS
<1>t. /\ created \in [Jobs -> Nat] /\ clock \in Nat /\ executor \in Seq(Jobs)
      /\ status \in [Jobs -> Statuses] /\ Len(executor) \in Nat
      /\ pc \in [Jobs -> {"none", "queued", "running", "asking", "waiting", "resolved", "saved"}]
  BY DEF IInv, TypeOK, TableOK, TaskOK
<1>1. ASSUME UNCHANGED <<created, clock>>, UNCHANGED rows PROVE OrderInv'
  BY <1>1 DEF rows, OrderInv
<1>2. CASE AddJob
  <2> DEFINE j == Head(post_queue)
  <2>0. UNCHANGED <<pc, executor>> /\ post_queue # <<>>
    BY <1>2 DEF AddJob, task
  <2>1. CASE InsertSucceeds(j)
    <3>1. PICK now \in {clock, clock + 1} :
            /\ clock' = now
            /\ created' = [created EXCEPT ![j] = now]
            /\ status' = [status EXCEPT ![j] = "PENDING"]
      BY <1>2, <2>1 DEF AddJob
    <3>2. j \in Jobs /\ pc[j] # "queued"
      <4>1. post_queue \in Seq(Jobs)
        BY DEF IInv, TypeOK, QueuesOK
      <4>2. j \in Jobs
        BY <2>0, <4>1
      <4> QED
        BY <2>1, <4>2 DEF IInv, RowInv, RowOf, InsertSucceeds
    <3>3. /\ \A k \in Jobs : created'[k] = IF k = j THEN now ELSE created[k]
          /\ \A k \in Jobs : status'[k] = IF k = j THEN "PENDING" ELSE status[k]
          /\ now \in Nat /\ clock <= now
      BY <1>t, <3>1, <3>2
    <3>4. \A i \in 1..Len(executor) : executor[i] # j /\ executor[i] \in Jobs
      BY <1>t, <3>2 DEF IInv, ExecutorInv
    <3>5. \A k \in Jobs : created[k] <= now
      BY <1>t, <3>3 DEF OrderInv
    <3>6. \A k \in Jobs : created'[k] <= clock'
      BY <3>1, <3>3, <3>5
    <3>7. \A h, k \in Jobs : pc'[h] = "queued" /\ status'[k] = "PENDING" => created'[h] <= created'[k]
      <4> TAKE h, k \in Jobs
      <4> HAVE pc'[h] = "queued" /\ status'[k] = "PENDING"
      <4>1. h # j /\ created'[h] = created[h]
        BY <2>0, <3>2, <3>3
      <4> QED
        BY <2>0, <3>3, <3>5, <4>1 DEF OrderInv
    <3>8. \A a, b \in 1..Len(executor) : a < b => created'[executor[a]] <= created'[executor[b]]
      BY <3>3, <3>4 DEF OrderInv
    <3> QED
      BY <2>0, <3>6, <3>7, <3>8 DEF OrderInv
  <2>2. CASE ~InsertSucceeds(j)
    <3>1. UNCHANGED <<created, clock, status>>
      BY <1>2, <2>2 DEF AddJob
    <3> QED
      BY <2>0, <3>1 DEF OrderInv
  <2> QED
    BY <2>1, <2>2
<1>3. CASE RunNextJob
  <2> DEFINE j == Head(executor)
  <2>1. /\ executor # <<>> /\ executor' = Tail(executor) /\ pc' = [pc EXCEPT ![j] = "running"]
        /\ UNCHANGED <<created, clock, status>>
    BY <1>3 DEF RunNextJob, table
  <2>2. /\ Len(executor') = Len(executor) - 1
        /\ \A i \in 1..Len(executor') : executor'[i] = executor[i + 1] /\ i + 1 \in 1..Len(executor)
    BY <1>t, <2>1
  <2>3. \A h \in Jobs : pc'[h] = "queued" => pc[h] = "queued"
    BY <1>t, <2>1
  <2>4. \A a, b \in 1..Len(executor') : a < b => created[executor'[a]] <= created[executor'[b]]
    <3> TAKE a, b \in 1..Len(executor')
    <3> HAVE a < b
    <3>1. a + 1 < b + 1
      BY <1>t, <2>2
    <3> QED
      BY <2>2, <3>1 DEF OrderInv
  <2> QED
    BY <2>1, <2>3, <2>4 DEF OrderInv
<1>4. CASE Crash \/ Destroy
  <2>1. UNCHANGED <<created, clock, status>> /\ executor' = <<>> /\ pc' = [j \in Jobs |-> "none"]
    BY <1>4 DEF Crash, Destroy, LoseMemory, table
  <2> QED
    BY <2>1 DEF OrderInv
<1>5. ASSUME NEW j \in Jobs, GetNextPendingJob(j) PROVE OrderInv'
  <2>1. /\ executor' = Append(executor, j) /\ pc' = [pc EXCEPT ![j] = "queued"]
        /\ status' = [status EXCEPT ![j] = "STARTED"] /\ UNCHANGED <<created, clock>>
        /\ status[j] = "PENDING"
        /\ \A k \in Jobs : status[k] = "PENDING" => created[j] <= created[k]
    BY <1>5 DEF GetNextPendingJob, OldestPending, Picked
  <2>2. /\ Len(executor') = Len(executor) + 1 /\ executor'[Len(executor) + 1] = j
        /\ \A i \in 1..Len(executor) : executor'[i] = executor[i] /\ executor[i] \in Jobs
    BY <1>t, <2>1
  <2>3. \A i \in 1..Len(executor) : created[executor[i]] <= created[j]
    BY <2>1, <2>2 DEF IInv, ExecutorInv, OrderInv
  <2>4. \A h, k \in Jobs : pc'[h] = "queued" /\ status'[k] = "PENDING" => created'[h] <= created'[k]
    BY <1>t, <2>1 DEF OrderInv
  <2>5. \A a, b \in 1..Len(executor') : a < b => created'[executor'[a]] <= created'[executor'[b]]
    <3> TAKE a, b \in 1..Len(executor')
    <3> HAVE a < b
    <3>1. a \in 1..Len(executor) /\ (b \in 1..Len(executor) \/ b = Len(executor) + 1)
      <4>1. Len(executor) \in Nat /\ Len(executor') = Len(executor) + 1
        BY <1>t, <2>2
      <4> QED
        BY <4>1
    <3> QED
      BY <2>1, <2>2, <2>3, <3>1 DEF OrderInv
  <2> QED
    BY <2>1, <2>4, <2>5 DEF OrderInv
<1>6. ASSUME NEW j \in Jobs, JobStep(j) PROVE OrderInv'
  <2>1. /\ UNCHANGED <<created, clock, executor>>
        /\ \E at \in {"running", "asking", "waiting", "resolved", "saved", "none"} :
             pc' = [pc EXCEPT ![j] = at] \/ pc' = pc
    BY <1>6 DEF JobStep, RequestInput, SetWaiting, TakeInput, InputTimeout, Resolve,
                SetStarted, SaveResult, LeaveRunningJobs, table
  <2>4. \/ status' = status
        \/ \E st \in {"WAITING_CLIENT_INPUT", "STARTED"} \cup Terminal : status' = [status EXCEPT ![j] = st]
    BY <1>6 DEF JobStep, RequestInput, SetWaiting, TakeInput, InputTimeout,
                SetStarted, SaveResult, LeaveRunningJobs, table
  <2>2. \A h \in Jobs : pc'[h] = "queued" => pc[h] = "queued"
    BY <1>t, <2>1
  <2>3. \A k \in Jobs : status'[k] = "PENDING" => status[k] = "PENDING"
    BY <1>t, <2>4 DEF Terminal
  <2> QED
    BY <2>1, <2>2, <2>3 DEF OrderInv
<1> QED
  BY <1>1, <1>2, <1>3, <1>4, <1>5, <1>6, MovesJobs, MovesTimes

(* The job at the head of the executor's queue is the oldest.              *)
LEMMA OrderlyStart ==
  ASSUME IInv, OrderInv, [Next]_vars, NEW j \in Jobs, NEW k \in Jobs, runs'[j] > runs[j],
         created[k] < created[j]
  PROVE  status[k] # "PENDING" /\ pc[k] # "queued"
<1>t. /\ created \in [Jobs -> Nat] /\ executor \in Seq(Jobs) /\ runs \in [Jobs -> Nat]
  BY DEF IInv, TypeOK, TableOK, TaskOK, HistoryOK
<1>1. RunNextJob
  <2>1. runs' # runs
    BY <1>t
  <2>2. \A h \in Jobs : GetNextPendingJob(h) \/ JobStep(h) => runs' = runs
    BY DEF GetNextPendingJob, JobStep, RequestInput, SetWaiting, TakeInput, InputTimeout,
           SetStarted, SaveResult, LeaveRunningJobs, history
  <2>3. AddJob \/ Crash \/ Destroy => runs' = runs
    BY DEF AddJob, Crash, Destroy, history
  <2> QED
    BY <2>1, <2>2, <2>3, MovesJobs DEF rows
<1>2. /\ executor # <<>> /\ runs' = [runs EXCEPT ![Head(executor)] = @ + 1]
  BY <1>1 DEF RunNextJob
<1>3. /\ Head(executor) = executor[1] /\ Head(executor) \in Jobs
      /\ Len(executor) \in Nat \ {0}
  BY <1>t, <1>2
<1>4. j = executor[1]
  BY <1>t, <1>2, <1>3
<1>5. pc[j] = "queued"
  BY <1>3, <1>4 DEF IInv, ExecutorInv
<1>6. status[k] # "PENDING"
  BY <1>t, <1>5 DEF OrderInv
<1>7. ASSUME pc[k] = "queued" PROVE FALSE
  <2>1. PICK i \in 1..Len(executor) : executor[i] = k
    BY <1>7 DEF IInv, ExecutorInv
  <2>2. i # 1
    BY <1>t, <1>4, <2>1
  <2>3. created[j] <= created[k]
    BY <1>3, <1>4, <2>1, <2>2 DEF OrderInv
  <2> QED
    BY <1>t, <2>3
<1> QED
  BY <1>6, <1>7

(* Jobs received in an earlier second start first, through the table, the  *)
(* scheduler and the executor's queue, across crashes and restarts.        *)
THEOREM StartsAreOrderly == Spec => StartsInOrder
<1>1. Init => OrderInv
  BY DEF Init, OrderInv
<1>2. IInv /\ OrderInv /\ [Next]_vars => [\A j, k \in Jobs :
       /\ runs'[j] > runs[j]
       /\ status[k] # "absent" /\ created[k] < created[j]
       => status[k] # "PENDING" /\ pc[k] # "queued"]_vars
  BY OrderlyStart
<1> QED
  BY <1>1, <1>2, InitInv, NextInv, NextOrder, PTL DEF Spec, StartsInOrder

(* A GET that reaches a job blocked on input is told the open request: a   *)
(* 102 without one is only sent when the wait has just ended (_get).       *)
LEMMA AnswerableStep ==
  ASSUME IInv, [Next]_vars, NEW j \in Jobs, wire'[j] = Append(wire[j], Msg("102"))
  PROVE  pc[j] # "waiting"
<1> DEFINE m == Msg("102")
<1>t. wire \in [Jobs -> Seq(Message)] /\ Len(wire[j]) \in Nat /\ m \in Message
  <2>1. wire \in [Jobs -> Seq(Message)]
    BY DEF IInv, TypeOK, HistoryOK
  <2>2. m \in Message
    BY ConstantsAssumption DEF Message, Msg, Codes
  <2> QED
    BY <2>1, <2>2
<1>0. wire'[j] = Append(wire[j], m)
  OBVIOUS
<1> HIDE DEF m
<1>1. wire'[j] # wire[j] /\ Len(wire'[j]) = Len(wire[j]) + 1 /\ wire'[j][Len(wire[j]) + 1] = m
  BY <1>t, <1>0
<1>s. ASSUME NEW h \in Jobs, NEW s \in Message, Send(h, s) PROVE h = j /\ s = m
  <2>1. wire' = [wire EXCEPT ![h] = Append(wire[h], s)]
    BY <1>s DEF Send
  <2>2. h = j
    BY <1>t, <1>1, <2>1
  <2>3. wire'[j] = Append(wire[j], s)
    BY <1>t, <2>1, <2>2
  <2>4. wire'[j][Len(wire[j]) + 1] = s
    BY <1>s, <1>t, <2>3
  <2> QED
    BY <1>1, <2>2, <2>4
<1>2. ~AckJob
  <2>1. Msg("201") \in Message /\ Msg("201") # m
    BY ConstantsAssumption DEF Msg, Message, Codes, m
  <2> QED
    BY <1>s, <2>1 DEF AckJob, IInv, TypeOK, HandlersOK
<1>3. ~SendEvent
  <2> SUFFICES ASSUME SendEvent PROVE FALSE
    OBVIOUS
  <2> DEFINE e == Head(event_queue)
  <2>1. event_queue \in Seq(Jobs \X Message) /\ event_queue # <<>> /\ Send(e[1], e[2])
    BY DEF SendEvent, IInv, TypeOK, QueuesOK
  <2>2. e = event_queue[1] /\ 1 \in 1..Len(event_queue) /\ e \in Jobs \X Message
    BY <2>1
  <2>3. e[2].code \in {"input_request", "completed"}
    BY <2>2 DEF IInv, HandlerInv
  <2>4. e[2] = m
    BY <1>s, <2>1, <2>2
  <2> QED
    BY <2>3, <2>4 DEF m, Msg
<1>4. SendReply
  BY <1>1, <1>2, <1>3, MovesMessages DEF MessageMoves
<1>5. getting \in Jobs \X Statuses /\ Send(getting[1], ReplyTo(getting[1], getting[2]))
  BY <1>4 DEF SendReply, IInv, TypeOK, HandlersOK
<1> DEFINE st == getting[2]
           r == ReplyTo(getting[1], st)
<1>6. r \in Message
  <2>1. pending_input_request[getting[1]] \in 0..MaxAsks /\ result[getting[1]] \in {"none"} \cup Terminal
    BY <1>5 DEF IInv, TypeOK, TaskOK, TableOK
  <2> QED
    BY <1>5, <2>1, ConstantsAssumption DEF ReplyTo, Message, Msg, Asking, Codes, Statuses
<1>7. getting[1] = j /\ r = m
  BY <1>5, <1>6, <1>s
<1>8. st = "WAITING_CLIENT_INPUT"
  BY <1>5, <1>7 DEF m, ReplyTo, Msg, Statuses, Terminal
<1>9. pending_input_request[j] = 0
  BY <1>7, <1>8 DEF m, ReplyTo, Asking, Msg
<1> QED
  BY <1>9, ConstantsAssumption DEF IInv, RowInv, RowOf, Requests

(* A job that waits for input can be answered by every client that asks.   *)
THEOREM AnswersAreUsable == Spec => WaitingIsAnswerable
<1>1. IInv /\ [Next]_vars
        => [\A j \in Jobs : wire'[j] = Append(wire[j], Msg("102")) => pc[j] # "waiting"]_vars
  BY AnswerableStep
<1> QED
  BY <1>1, InitInv, NextInv, PTL DEF Spec, WaitingIsAnswerable

-----------------------------------------------------------------------------
(* The refinement of JobService.                                           *)
AbstractLevel == [j \in Jobs |-> LevelOf(status[j])]

(* The level the mapping gives a row is the level of the invariant.        *)
LEMMA SameLevel == \A st : LevelOf(st) = Level(st)
  BY DEF LevelOf, Level

(* The levels of the statuses, one by one.                                 *)
LEMMA LevelValues ==
  /\ LevelOf("absent") = 0
  /\ LevelOf("PENDING") = 1 /\ LevelOf("STARTED") = 1 /\ LevelOf("WAITING_CLIENT_INPUT") = 1
  /\ \A st \in Terminal : LevelOf(st) = 2
  BY DEF LevelOf, Terminal

(* Which steps touch the rows of the table.                                *)
TableMoves ==
  \/ UNCHANGED <<status, result>>
  \/ AddJob
  \/ \E j \in Jobs : GetNextPendingJob(j) \/ SetWaiting(j) \/ SetStarted(j)
  \/ \E j \in Jobs, outcome \in Terminal : SaveResult(j, outcome)

(* Every other step leaves the rows as they are.                           *)
LEMMA MovesTable == [Next]_vars => TableMoves
<1> SUFFICES ASSUME [Next]_vars PROVE TableMoves
  OBVIOUS
<1> USE DEF table, TableMoves
<1>1. ASSUME Take PROVE UNCHANGED <<status, result>>
  BY <1>1 DEF Take
<1>2. (\E j \in Jobs : RecvPost(j) \/ RecvGet(j)) => TableMoves
  BY <1>1 DEF RecvPost, RecvGet
<1>3. (\E j \in Jobs, n \in Requests : RecvPut(j, n)) => TableMoves
  BY <1>1 DEF RecvPut
<1>4. AckJob \/ ReadJob \/ SendReply \/ DeliverInput \/ SendEvent \/ RunNextJob => TableMoves
  BY DEF AckJob, ReadJob, SendReply, DeliverInput, SendEvent, RunNextJob
<1>5. ASSUME NEW j \in Jobs,
             RequestInput(j) \/ TakeInput(j) \/ InputTimeout(j) \/ LeaveRunningJobs(j)
      PROVE  TableMoves
  BY <1>5 DEF RequestInput, TakeInput, InputTimeout, LeaveRunningJobs
<1>6. Crash \/ SetExitEvent \/ Destroy => TableMoves
  BY DEF Crash, SetExitEvent, Destroy
<1>7. Restart \/ Idle \/ UNCHANGED vars => TableMoves
  BY DEF Restart, TableAtStart, Idle, vars
<1> QED
  BY <1>2, <1>3, <1>4, <1>5, <1>6, <1>7 DEF Next, JobStep

(* A step that writes no message is an Accept, a Finish or no step at all. *)
LEMMA QuietStep ==
  IInv /\ [Next]_vars /\ wire' = wire => Service!Next \/ UNCHANGED <<AbstractLevel, result, wire>>
<1> SUFFICES ASSUME IInv, [Next]_vars, wire' = wire
             PROVE  Service!Next \/ UNCHANGED <<AbstractLevel, result, wire>>
  OBVIOUS
<1>t. /\ status \in [Jobs -> Statuses] /\ result \in [Jobs -> {"none"} \cup Terminal]
      /\ RowInv /\ post_queue \in Seq(Jobs)
      /\ pc \in [Jobs -> {"none", "queued", "running", "asking", "waiting", "resolved", "saved"}]
  BY DEF IInv, TypeOK, TableOK, QueuesOK, TaskOK
<1> USE <1>t
<1>1. CASE UNCHANGED <<status, result>>
  BY <1>1 DEF AbstractLevel
<1>2. CASE AddJob
  <2>1. CASE UNCHANGED <<status, result>>
    BY <1>1, <2>1
  <2>2. CASE ~UNCHANGED <<status, result>>
    <3> DEFINE j == Head(post_queue)
    <3>1. /\ j \in Jobs /\ status[j] = "absent" /\ result' = result
          /\ status' = [status EXCEPT ![j] = "PENDING"]
      BY <1>2, <2>2 DEF AddJob, InsertSucceeds
    <3>2. AbstractLevel[j] = 0 /\ AbstractLevel' = [AbstractLevel EXCEPT ![j] = 1]
      BY <3>1, LevelValues DEF AbstractLevel
    <3>3. Service!Accept(j)
      BY <3>1, <3>2
      DEF Service!Accept, Service!Unknown, Service!Accepted, AbstractLevel
    <3> QED
      BY <3>1, <3>3 DEF Service!Next
  <2> QED
    BY <2>1, <2>2
<1>3. ASSUME NEW j \in Jobs, GetNextPendingJob(j) \/ SetWaiting(j) \/ SetStarted(j)
      PROVE  UNCHANGED <<AbstractLevel, result, wire>>
  <2>1. /\ result' = result
        /\ status[j] \in {"PENDING", "STARTED", "WAITING_CLIENT_INPUT"}
        /\ \E st \in {"PENDING", "STARTED", "WAITING_CLIENT_INPUT"} :
             status' = [status EXCEPT ![j] = st]
    <3>1. GetNextPendingJob(j) => status[j] = "PENDING" /\ result' = result
                                    /\ status' = [status EXCEPT ![j] = "STARTED"]
      BY DEF GetNextPendingJob, OldestPending, Picked
    <3>2. SetWaiting(j) => /\ status[j] = "STARTED" /\ result' = result
                           /\ status' = [status EXCEPT ![j] = "WAITING_CLIENT_INPUT"]
      BY DEF SetWaiting, RowInv, RowOf
    <3>3. SetStarted(j) => /\ status[j] = "WAITING_CLIENT_INPUT" /\ result' = result
                           /\ status' = [status EXCEPT ![j] = "STARTED"]
      BY DEF SetStarted, RowInv, RowOf
    <3> QED
      BY <1>3, <3>1, <3>2, <3>3
  <2>2. \A k \in Jobs : LevelOf(status'[k]) = LevelOf(status[k])
    <3>1. LevelOf(status[j]) = 1
      BY <2>1, LevelValues
    <3>2. LevelOf(status'[j]) = 1
      BY <2>1, LevelValues
    <3> QED
      BY <2>1, <3>1, <3>2
  <2> QED
    BY <2>1, <2>2 DEF AbstractLevel
<1>4. ASSUME NEW j \in Jobs, NEW outcome \in Terminal, SaveResult(j, outcome)
      PROVE  Service!Next
  <2>1. /\ status[j] = "STARTED"
        /\ status' = [status EXCEPT ![j] = outcome]
        /\ result' = [result EXCEPT ![j] = outcome]
    BY <1>4 DEF SaveResult, StoredResult, RowInv, RowOf
  <2>2. AbstractLevel[j] = 1 /\ AbstractLevel' = [AbstractLevel EXCEPT ![j] = 2]
    <3>1. LevelOf("STARTED") = 1 /\ LevelOf(outcome) = 2
      BY LevelValues
    <3> QED
      BY <2>1, <3>1 DEF AbstractLevel
  <2>3. Service!Finish(j, outcome)
    BY <2>1, <2>2 DEF Service!Finish, Service!Accepted, Service!Finished, AbstractLevel
  <2> QED
    BY <2>3 DEF Service!Next
<1> QED
  BY <1>1, <1>2, <1>3, <1>4, MovesTable DEF TableMoves

(* A message that says what the table says, or what it said when the row   *)
(* was read, is one the abstract worker may tell.                          *)
LEMMA TellStep ==
  ASSUME IInv, NEW j \in Jobs, NEW m \in Message, Send(j, m), UNCHANGED <<status, result>>,
         m.code = "201" => status[j] # "absent",
         m.code \in {"completed", "200"} => status[j] \in Terminal,
         m.code = "200" => m.outcome = result[j],
         IsStatusReply(m) => Progress(m) = NextLevel(j)
  PROVE  Service!Next
<1>t. /\ status[j] \in Statuses /\ wire[j] \in Seq(Message)
      /\ getting # <<>> => getting[1] \in Jobs /\ getting[2] \in Statuses
  BY DEF IInv, TypeOK, TableOK, HistoryOK, HandlersOK
<1>l. AbstractLevel[j] = Level(status[j]) /\ Level(status[j]) \in 0..2
  BY <1>t, SameLevel, Levels DEF AbstractLevel
<1>1. m.code = "201" => AbstractLevel[j] # 0
  BY <1>t, <1>l, Levels
<1>2. m.code \in {"completed", "200"} => AbstractLevel[j] = 2
  BY <1>t, <1>l, Levels
<1>3. NextLevel(j) \in 0..2 /\ NextLevel(j) <= Level(status[j])
  <2>1. CASE getting # <<>> /\ getting[1] = j
    BY <1>t, <1>l, <2>1, Levels DEF NextLevel, IInv, HandlerInv
  <2>2. CASE ~(getting # <<>> /\ getting[1] = j)
    BY <1>l, <2>2 DEF NextLevel
  <2> QED
    BY <2>1, <2>2
<1>4. ASSUME NEW n \in Message
      PROVE  /\ n.code \in Service!StatusReplies <=> IsStatusReply(n)
             /\ IsStatusReply(n) => Service!Says(n) = Progress(n) /\ Progress(n) \in 0..2
  BY DEF Service!StatusReplies, IsStatusReply, Service!Says, Progress,
         Service!Unknown, Service!Accepted, Service!Finished
<1>5. IsStatusReply(m) => Service!Says(m) <= AbstractLevel[j]
  BY <1>3, <1>4, <1>l
<1>6. ASSUME NEW i \in 1..Len(wire[j]), IsStatusReply(wire[j][i]), IsStatusReply(m)
      PROVE  Service!Says(wire[j][i]) <= Service!Says(m)
  <2>1. wire[j][i] \in Message
    BY <1>t
  <2>2. Progress(wire[j][i]) <= NextLevel(j)
    BY <1>6 DEF IInv, WireInv
  <2> QED
    BY <1>4, <1>6, <2>1, <2>2
<1>7. \A i \in 1..Len(wire[j]) : wire[j][i] \in Message
  BY <1>t
<1>8. Service!MayTell(j, m)
  BY <1>1, <1>2, <1>4, <1>5, <1>6, <1>7
  DEF Service!MayTell, Service!Unknown, Service!Finished, AbstractLevel
<1>9. AbstractLevel' = AbstractLevel
  BY DEF AbstractLevel
<1>10. Service!Tell(j, m)
  BY <1>8, <1>9 DEF Service!Tell, Send, AbstractLevel
<1> QED
  BY <1>10 DEF Service!Next

(* The three senders tell the truth.                                       *)
LEMMA SendStep == IInv /\ (AckJob \/ SendReply \/ SendEvent) => Service!Next
<1> SUFFICES ASSUME IInv, AckJob \/ SendReply \/ SendEvent PROVE Service!Next
  OBVIOUS
<1>1. CASE AckJob
  <2>1. /\ posting \in Jobs /\ Send(posting, Msg("201")) /\ UNCHANGED <<status, result>>
        /\ status[posting] # "absent"
    BY <1>1 DEF AckJob, table, IInv, TypeOK, HandlersOK, HandlerInv
  <2>2. Msg("201") \in Message /\ Msg("201").code = "201"
    BY ConstantsAssumption DEF Msg, Message, Codes
  <2>3. ~IsStatusReply(Msg("201"))
    BY <2>2 DEF IsStatusReply
  <2> QED
    BY <2>1, <2>2, <2>3, TellStep
<1>2. CASE SendReply
  <2> DEFINE j == getting[1]
             st == getting[2]
             m == ReplyTo(j, st)
  <2>1. /\ j \in Jobs /\ st \in Statuses /\ getting # <<>> /\ Send(j, m)
        /\ UNCHANGED <<status, result>>
    BY <1>2 DEF SendReply, table, IInv, TypeOK, HandlersOK
  <2>2. m \in Message /\ IsStatusReply(m) /\ Progress(m) = Level(st)
        /\ m.code # "201" /\ m.code # "completed"
    BY <2>1, ConstantsAssumption
    DEF IInv, TypeOK, TableOK, TaskOK, Statuses, Terminal, ReplyTo, Msg, Asking, Message,
        Codes, IsStatusReply, Progress, Level
  <2>3. m.code = "200" => st \in Terminal /\ m.outcome = result[j]
    BY <2>1 DEF Statuses, Terminal, ReplyTo, Msg, Asking
  <2>4. st \in Terminal => status[j] = st
    BY <2>1 DEF IInv, HandlerInv
  <2>5. NextLevel(j) = Level(st)
    BY <2>1 DEF NextLevel
  <2> QED
    BY <2>1, <2>2, <2>3, <2>4, <2>5, TellStep
<1>3. CASE SendEvent
  <2> DEFINE j == Head(event_queue)[1]
             m == Head(event_queue)[2]
  <2>1. event_queue # <<>> /\ Send(j, m) /\ UNCHANGED <<status, result>>
    BY <1>3 DEF SendEvent, table
  <2>2. /\ j \in Jobs /\ m \in Message
        /\ 1 \in 1..Len(event_queue) /\ Head(event_queue) = event_queue[1]
    BY <2>1 DEF IInv, TypeOK, QueuesOK
  <2>3. /\ m.code \in {"input_request", "completed"}
        /\ m.code = "completed" => status[j] \in Terminal
    BY <2>2 DEF IInv, HandlerInv
  <2>4. ~IsStatusReply(m) /\ m.code # "201" /\ m.code # "200"
    BY <2>3 DEF IsStatusReply
  <2> QED
    BY <2>1, <2>2, <2>3, <2>4, TellStep
<1> QED
  BY <1>1, <1>2, <1>3

(* Every behaviour of the worker is, through the mapping, a behaviour of   *)
(* the abstract one: it accepts, finishes and tells the truth.             *)
THEOREM WorkerImplementsService == Spec => ImplementsJobService
<1>1. Init => Service!Init
  <2> SUFFICES ASSUME Init PROVE Service!Init
    OBVIOUS
  <2>1. AbstractLevel = [j \in Jobs |-> 0]
    BY LevelValues DEF Init, AbstractLevel
  <2> QED
    BY <2>1 DEF Init, Service!Init, Service!Unknown, AbstractLevel
<1>2. IInv /\ [Next]_vars => [Service!Next]_<<AbstractLevel, result, wire>>
  <2> SUFFICES ASSUME IInv, [Next]_vars
               PROVE  Service!Next \/ UNCHANGED <<AbstractLevel, result, wire>>
    OBVIOUS
  <2>1. CASE wire' = wire
    BY <2>1, QuietStep
  <2>2. CASE AckJob \/ SendReply \/ SendEvent
    BY <2>2, SendStep
  <2> QED
    BY <2>1, <2>2, MovesMessages DEF MessageMoves
<1> QED
  BY <1>1, <1>2, Invariance, PTL DEF Spec, ImplementsJobService, Service!Spec, AbstractLevel
=============================================================================
