-------------------------- MODULE JobProtocol_proofs --------------------------
(* Proofs of the safety properties of JobProtocolProps, for every set of   *)
(* workers and all bounds.                                                 *)
EXTENDS JobProtocolProps, TLAPS

-----------------------------------------------------------------------------
(* The inductive invariant: what is on its way is true, and stays true.    *)

(* What a reply code says of the worker it comes from.                     *)
TrueOf(code, w) ==
  /\ code \in {"201", "300", "102"} => level[w] # 0
  /\ code = "200" => level[w] = 2

WireTrue == \A w \in Workers : \A i \in 1..Len(wire[w]) : TrueOf(wire[w][i].code, w)
AnswersTrue ==
  \A i \in 1..Len(to_client) :
    /\ \A w \in to_client[i].workers : TrueOf(to_client[i].code, w)
    /\ to_client[i].code = "202" => to_client[i].workers \subseteq posted_to
PollsTrue ==
  \A i \in 1..Len(to_broker) :
    to_broker[i].command = "GET" => to_broker[i].target \subseteq posted_to

IInv ==
  /\ TypeOK /\ WireTrue /\ AnswersTrue /\ PollsTrue
  /\ CompletedIsReal /\ OnlyPostedWorkersArePolled

-----------------------------------------------------------------------------
(* Init makes the whole invariant true.                                    *)
LEMMA InitInv == Init => IInv
<1> SUFFICES ASSUME Init PROVE IInv
  OBVIOUS
<1> USE DEF Init
<1>1. RowOK /\ ClientOK /\ SocketsOK /\ HistoryOK
  <2>1. RowOK /\ ClientOK
    BY DEF RowOK, ClientOK, Statuses
  <2>2. SocketsOK
    BY DEF SocketsOK
  <2>3. HistoryOK
    BY DEF HistoryOK
  <2> QED
    BY <2>1, <2>2, <2>3
<1>2. BrokerOK
  BY DEF BrokerOK
<1>3. WorkersOK
  BY DEF WorkersOK, Worker!Init, Worker!Unknown
<1>4. BoundsOK
  BY ConstantsAssumption DEF BoundsOK
<1>5. TypeOK
  BY <1>1, <1>2, <1>3, <1>4 DEF TypeOK
<1>6. WireTrue /\ AnswersTrue /\ PollsTrue
  BY DEF WireTrue, AnswersTrue, PollsTrue, Worker!Init
<1>7. CompletedIsReal /\ OnlyPostedWorkersArePolled
  BY DEF CompletedIsReal, OnlyPostedWorkersArePolled
<1> QED
  BY <1>5, <1>6, <1>7 DEF IInv

-----------------------------------------------------------------------------
(* Workers only move forward, and only RunJob, StorePost, AckPost and      *)
(* AnswerGet touch them.                                                   *)
Forwards == \A w \in Workers : level[w] <= level'[w] /\ level'[w] \in 0..2

(* The fields of a reply.                                                  *)
LEMMA ReplyCodes == \A m \in Replies :
    m.code \in {"201", "404", "300", "102", "200"} /\ m.outcome \in {"none", "ran"}
  BY DEF Replies, Reply

(* One step of one worker keeps its shape and the truth of what it said.   *)
LEMMA WorkerStep ==
  ASSUME WorkersOK, WireTrue, NEW w \in Workers,
         \/ Worker!Accept(w) \/ Worker!Finish(w, "ran")
         \/ \E code \in {"201", "404", "300", "102", "200"} : Worker!Tell(w, Reply(code))
         \/ UNCHANGED workers
  PROVE  WorkersOK' /\ Forwards /\ WireTrue'
<1> USE DEF WorkersOK, Worker!Unknown, Worker!Accepted, Worker!Finished
<1>1. CASE UNCHANGED workers
  BY <1>1 DEF workers, Forwards, WireTrue, TrueOf
<1>2. CASE Worker!Accept(w) \/ Worker!Finish(w, "ran")
  <2>1. wire' = wire /\ WorkersOK' /\ Forwards
    <3>1. CASE Worker!Accept(w)
      BY <3>1 DEF Worker!Accept, Forwards
    <3>2. CASE Worker!Finish(w, "ran")
      BY <3>2 DEF Worker!Finish, Forwards
    <3> QED
      BY <1>2, <3>1, <3>2
  <2>2. WireTrue'
    BY <2>1 DEF WireTrue, TrueOf, Forwards
  <2> QED
    BY <2>1, <2>2
<1>3. ASSUME NEW code \in {"201", "404", "300", "102", "200"}, Worker!Tell(w, Reply(code))
      PROVE  WorkersOK' /\ Forwards /\ WireTrue'
  <2>1. /\ level' = level /\ result' = result /\ Reply(code) \in Replies
        /\ wire' = [wire EXCEPT ![w] = Append(@, Reply(code))]
    BY <1>3 DEF Worker!Tell, Replies
  <2>2. WorkersOK' /\ Forwards
    BY <2>1 DEF Forwards
  <2>3. Reply(code).code = code
    BY DEF Reply
  <2>4. TrueOf(code, w)
    <3> DEFINE m == Reply(code)
    <3>1. /\ m.code = "201" => level[w] # 0
          /\ m.code \in {"404", "300", "102", "200"} => Worker!Says(m) <= level[w]
      BY <1>3 DEF Worker!Tell, Worker!MayTell, Worker!StatusReplies
    <3>2. level[w] \in {0, 1, 2}
      OBVIOUS
    <3>3. CASE code = "201" \/ code = "404"
      BY <2>3, <3>1, <3>3 DEF TrueOf
    <3>4. CASE code = "300" \/ code = "102"
      BY <2>3, <3>1, <3>2, <3>4 DEF TrueOf, Worker!Says
    <3>5. CASE code = "200"
      BY <2>3, <3>1, <3>2, <3>5 DEF TrueOf, Worker!Says
    <3> QED
      BY <3>3, <3>4, <3>5
  <2>5. ASSUME NEW v \in Workers, NEW i \in 1..Len(wire'[v])
        PROVE  TrueOf(wire'[v][i].code, v)
    <3>1. CASE v # w \/ i \in 1..Len(wire[v])
      <4>1. i \in 1..Len(wire[v]) /\ wire'[v][i] = wire[v][i]
        BY <2>1, <3>1
      <4> QED
        BY <4>1 DEF WireTrue
    <3>2. CASE v = w /\ i = Len(wire[w]) + 1
      <4>1. wire'[v][i] = Reply(code)
        BY <2>1, <3>2
      <4> QED
        BY <2>3, <2>4, <3>2, <4>1
    <3>3. v # w \/ i \in 1..Len(wire[v]) \/ i = Len(wire[w]) + 1
      BY <2>1
    <3> QED
      BY <3>1, <3>2, <3>3
  <2>6. WireTrue'
    BY <2>1, <2>5 DEF WireTrue, TrueOf
  <2> QED
    BY <2>2, <2>6
<1> QED
  BY <1>1, <1>2, <1>3

(* What is true of a worker stays true.                                    *)
LEMMA StaysTrue ==
  ASSUME WorkersOK, Forwards, NEW w \in Workers, NEW code, TrueOf(code, w)
  PROVE  TrueOf(code, w)'
  BY DEF WorkersOK, Forwards, TrueOf

(* A step that only moves workers, or nothing, keeps the invariant.        *)
LEMMA OnlyWorkers ==
  ASSUME IInv, WorkersOK', Forwards, WireTrue', BrokerOK', BoundsOK',
         UNCHANGED <<row, client, to_broker, to_client, history>>
  PROVE  IInv'
<1>1. TypeOK'
  BY DEF IInv, TypeOK, row, client, history, RowOK, ClientOK, SocketsOK, HistoryOK
<1>2. AnswersTrue'
  <2> SUFFICES ASSUME NEW i \in 1..Len(to_client)
               PROVE  /\ \A w \in to_client[i].workers : TrueOf(to_client[i].code, w)'
                      /\ to_client[i].code = "202" => to_client[i].workers \subseteq posted_to
    BY DEF AnswersTrue, history, TrueOf
  <2>1. to_client[i].workers \subseteq Workers
    <3>1. to_client[i] \in Answers
      BY DEF IInv, TypeOK, SocketsOK
    <3> QED
      BY <3>1 DEF Answers
  <2>2. ASSUME NEW w \in to_client[i].workers PROVE TrueOf(to_client[i].code, w)'
    <3>1. TrueOf(to_client[i].code, w) /\ w \in Workers
      BY <2>1 DEF IInv, AnswersTrue
    <3> QED
      BY <3>1, StaysTrue DEF IInv, TypeOK
  <2> QED
    BY <2>2 DEF IInv, AnswersTrue
<1>3. PollsTrue' /\ OnlyPostedWorkersArePolled'
  BY DEF IInv, PollsTrue, OnlyPostedWorkersArePolled, row, history
<1>4. CompletedIsReal'
  <2>1. \A w \in Workers : level[w] \in 0..2 /\ level'[w] \in 0..2 /\ level[w] <= level'[w]
    BY DEF IInv, TypeOK, WorkersOK, Forwards
  <2>2. workers_completed \subseteq Workers /\ workers_started \subseteq Workers
    BY DEF IInv, TypeOK, RowOK
  <2> QED
    BY <2>1, <2>2 DEF IInv, CompletedIsReal, row, Worker!Finished, Worker!Unknown
<1> QED
  BY <1>1, <1>2, <1>3, <1>4 DEF IInv

(* Steps of workers, and of what the broker knows of them.                 *)
LEMMA WorkersInv ==
  ASSUME IInv, NEW w \in Workers,
         \/ StorePost(w) \/ AckPost(w) \/ AnswerGet(w) \/ RunJob(w) \/ RestartWorker(w)
         \/ ChangeRegistered(w)
  PROVE  IInv'
<1>t. WorkersOK /\ BrokerOK /\ BoundsOK /\ WireTrue
  BY DEF IInv, TypeOK
<1>1. \/ Worker!Accept(w) \/ Worker!Finish(w, "ran")
      \/ \E code \in {"201", "404", "300", "102", "200"} : Worker!Tell(w, Reply(code))
      \/ UNCHANGED workers
  BY DEF StorePost, AckPost, AnswerGet, RunJob, RestartWorker, ChangeRegistered
<1>2. WorkersOK' /\ Forwards /\ WireTrue'
  BY <1>t, <1>1, WorkerStep
<1>3. BrokerOK' /\ BoundsOK'
  <2>1. CASE StorePost(w) \/ AnswerGet(w)
    BY <1>t, <2>1, ConstantsAssumption DEF StorePost, AnswerGet, BrokerOK, BoundsOK, bounds
  <2>2. CASE AckPost(w) \/ RunJob(w)
    BY <1>t, <2>2 DEF AckPost, RunJob, BrokerOK, BoundsOK, broker, bounds
  <2>3. CASE RestartWorker(w)
    BY <1>t, <2>3, ConstantsAssumption DEF RestartWorker, BrokerOK, BoundsOK, WorkersOK
  <2>4. CASE ChangeRegistered(w)
    BY <1>t, <2>4, ConstantsAssumption DEF ChangeRegistered, BrokerOK, BoundsOK
  <2> QED
    BY <2>1, <2>2, <2>3, <2>4
<1>4. UNCHANGED <<row, client, to_broker, to_client, history>>
  BY DEF StorePost, AckPost, AnswerGet, RunJob, RestartWorker, ChangeRegistered
<1> QED
  BY <1>2, <1>3, <1>4, OnlyWorkers

(* Steps of the client's dispatcher, its deadline and its restart.         *)
LEMMA ClientInv ==
  ASSUME IInv,
         \/ DispatchNew \/ WriteSubmitting \/ PollActive \/ FindLate \/ WriteStale
         \/ DeadlinePasses \/ RestartClient
  PROVE  IInv'
<1>t. RowOK /\ ClientOK /\ SocketsOK /\ BoundsOK /\ HistoryOK
  BY DEF IInv, TypeOK
<1>1. /\ UNCHANGED <<workers_dispatched, workers_started, workers_completed, posted_to>>
      /\ UNCHANGED <<broker, workers>>
  <2>1. CASE DispatchNew \/ FindLate \/ DeadlinePasses
    BY <2>1 DEF DispatchNew, FindLate, DeadlinePasses, row, history
  <2>2. CASE WriteSubmitting \/ WriteStale
    BY <2>2 DEF WriteSubmitting, WriteStale, history
  <2>3. CASE PollActive
    BY <2>3 DEF PollActive, row, history
  <2>4. CASE RestartClient
    BY <2>4 DEF RestartClient, history
  <2> QED
    BY <2>1, <2>2, <2>3, <2>4
<1>2. status' = status \/ status' \in {"SUBMITTING", "STALE", "NEW"}
  <2>1. CASE DispatchNew \/ FindLate \/ DeadlinePasses \/ PollActive
    BY <2>1 DEF DispatchNew, FindLate, DeadlinePasses, PollActive, row
  <2>2. CASE WriteSubmitting \/ WriteStale
    BY <2>2 DEF WriteSubmitting, WriteStale
  <2>3. CASE RestartClient
    BY <2>3 DEF RestartClient, Recovered
  <2> QED
    BY <2>1, <2>2, <2>3
<1>r. RowOK'
  BY <1>t, <1>1, <1>2 DEF RowOK, Statuses, Active, Ended
<1>3. ClientOK' /\ BoundsOK' /\ HistoryOK'
  <2>1. CASE DispatchNew \/ FindLate \/ DeadlinePasses
    BY <1>t, <2>1 DEF DispatchNew, FindLate, DeadlinePasses, ClientOK, BoundsOK, HistoryOK,
                      bounds, history
  <2>5. CASE WriteSubmitting
    BY <1>t, <2>5 DEF WriteSubmitting, ClientOK, BoundsOK, HistoryOK, bounds
  <2>2. CASE PollActive
    BY <1>t, <2>2, ConstantsAssumption
    DEF PollActive, ClientOK, BoundsOK, HistoryOK, client, history
  <2>3. CASE WriteStale
    BY <1>t, <2>3 DEF WriteStale, MarkDone, ClientOK, BoundsOK, HistoryOK, bounds, history
  <2>4. CASE RestartClient
    <3>1. future' \in {"open", "none"} /\ dispatcher' = "idle" /\ deadline' = deadline
      BY <2>4 DEF RestartClient
    <3>2. crashes' \in 0..MaxCrashes /\ polls' = polls /\ changes' = changes
      BY <1>t, <2>4, ConstantsAssumption DEF RestartClient, BoundsOK
    <3>3. UNCHANGED history
      BY <2>4 DEF RestartClient
    <3> QED
      BY <1>t, <3>1, <3>2, <3>3 DEF ClientOK, BoundsOK, HistoryOK, history
  <2> QED
    BY <2>1, <2>2, <2>3, <2>4, <2>5
<1>4. to_broker' \in Seq(Requests) /\ PollsTrue'
  <2>1. CASE to_broker' = to_broker
    BY <1>t, <1>1, <2>1 DEF SocketsOK, IInv, PollsTrue
  <2>2. CASE to_broker' = <<>>
    BY <2>2 DEF PollsTrue
  <2>3. ASSUME NEW m \in Requests, to_broker' = Append(to_broker, m),
               m.command = "GET" => m.target \subseteq posted_to
        PROVE  to_broker' \in Seq(Requests) /\ PollsTrue'
    <3>1. to_broker' \in Seq(Requests)
      BY <1>t, <2>3 DEF SocketsOK
    <3>2. ASSUME NEW i \in 1..Len(to_broker'), to_broker'[i].command = "GET"
          PROVE  to_broker'[i].target \subseteq posted_to
      <4>1. CASE i \in 1..Len(to_broker)
        <5>1. to_broker'[i] = to_broker[i]
          BY <1>t, <2>3, <4>1 DEF SocketsOK
        <5> QED
          BY <3>2, <4>1, <5>1 DEF IInv, PollsTrue
      <4>2. CASE i = Len(to_broker) + 1
        <5>1. to_broker'[i] = m
          BY <1>t, <2>3, <4>2 DEF SocketsOK
        <5> QED
          BY <2>3, <3>2, <5>1
      <4> QED
        BY <1>t, <2>3, <4>1, <4>2 DEF SocketsOK
    <3> QED
      BY <1>1, <3>1, <3>2 DEF PollsTrue
  <2>4. CASE DispatchNew
    <3>1. [command |-> "POST", target |-> Workers] \in Requests
      BY DEF Requests
    <3> QED
      BY <2>3, <2>4, <3>1 DEF DispatchNew
  <2>5. CASE PollActive
    <3>1. [command |-> "GET", target |-> workers_dispatched] \in Requests
      BY <1>t DEF Requests, RowOK
    <3> QED
      BY <2>3, <2>5, <3>1 DEF PollActive, IInv, OnlyPostedWorkersArePolled
  <2>6. CASE WriteSubmitting \/ FindLate \/ WriteStale \/ DeadlinePasses
    BY <2>1, <2>6 DEF WriteSubmitting, FindLate, WriteStale, DeadlinePasses
  <2>7. CASE RestartClient
    BY <2>1, <2>2, <2>7 DEF RestartClient
  <2> QED
    BY <2>4, <2>5, <2>6, <2>7
<1>5. to_client' \in Seq(Answers) /\ AnswersTrue'
  <2>1. CASE to_client' = to_client
    BY <1>t, <1>1, <2>1 DEF SocketsOK, IInv, AnswersTrue, TrueOf, workers
  <2>2. CASE to_client' = <<>>
    BY <2>2 DEF AnswersTrue
  <2>3. CASE DispatchNew \/ WriteSubmitting \/ PollActive \/ FindLate \/ WriteStale \/ DeadlinePasses
    BY <2>1, <2>3 DEF DispatchNew, WriteSubmitting, PollActive, FindLate, WriteStale,
                      DeadlinePasses
  <2>4. CASE RestartClient
    BY <2>2, <2>4 DEF RestartClient
  <2> QED
    BY <2>3, <2>4
<1>6. BrokerOK' /\ WorkersOK'
  BY <1>1 DEF IInv, TypeOK, BrokerOK, WorkersOK, broker, workers
<1>7. TypeOK'
  BY <1>r, <1>3, <1>4, <1>5, <1>6 DEF TypeOK, SocketsOK
<1>8. WireTrue'
  BY <1>1 DEF IInv, WireTrue, TrueOf, workers
<1>9. CompletedIsReal' /\ OnlyPostedWorkersArePolled'
  BY <1>1, <1>2 DEF IInv, CompletedIsReal, OnlyPostedWorkersArePolled, workers
<1> QED
  BY <1>4, <1>5, <1>7, <1>8, <1>9 DEF IInv

(* Steps of the client's receiver.                                         *)
LEMMA ReceiverInv ==
  ASSUME IInv, HandleReply
  PROVE  IInv'
<1> DEFINE m == Head(to_client)
<1>t. RowOK /\ ClientOK /\ SocketsOK /\ WorkersOK
  BY DEF IInv, TypeOK
<1>1. /\ to_client # <<>> /\ to_client' = Tail(to_client)
      /\ UNCHANGED <<dispatcher, deadline, to_broker, broker, workers, bounds, history>>
      /\ future' \in {future, "done"}
  BY DEF HandleReply, HandleDispatched, HandleStarted, HandleWaiting, HandleResult,
         HandleError, TakeReply, MarkDone
<1>2. m \in Answers /\ m = to_client[1] /\ 1 \in 1..Len(to_client)
  BY <1>t, <1>1 DEF SocketsOK
<1>3. /\ m.workers \subseteq Workers
      /\ \A w \in m.workers : TrueOf(m.code, w)
      /\ m.code = "202" => m.workers \subseteq posted_to
  BY <1>2 DEF Answers, IInv, AnswersTrue
<1>4. to_client' \in Seq(Answers) /\ AnswersTrue'
  <2>1. /\ to_client' \in Seq(Answers) /\ Len(to_client') = Len(to_client) - 1
        /\ \A i \in 1..Len(to_client') : to_client'[i] = to_client[i + 1]
    BY <1>t, <1>1 DEF SocketsOK
  <2>2. ASSUME NEW i \in 1..Len(to_client')
        PROVE  /\ \A w \in to_client'[i].workers : TrueOf(to_client'[i].code, w)
               /\ to_client'[i].code = "202" => to_client'[i].workers \subseteq posted_to
    <3>1. i + 1 \in 1..Len(to_client)
      BY <1>t, <2>1 DEF SocketsOK
    <3> QED
      BY <2>1, <3>1 DEF IInv, AnswersTrue
  <2> QED
    BY <1>1, <2>1, <2>2 DEF AnswersTrue, TrueOf, workers, history
<1>5. RowOK' /\ CompletedIsReal' /\ OnlyPostedWorkersArePolled'
  <2> USE <1>t, <1>1, <1>3 DEF RowOK, Statuses, Active, Ended, TakeReply, IInv,
        CompletedIsReal, OnlyPostedWorkersArePolled, Worker!Finished, Worker!Unknown,
        TrueOf, workers, history
  <2>1. CASE HandleDispatched
    BY <2>1 DEF HandleDispatched
  <2>2. CASE HandleStarted
    BY <2>2 DEF HandleStarted
  <2>3. CASE HandleWaiting
    BY <2>3 DEF HandleWaiting, WaitingStatus
  <2>4. CASE HandleResult
    BY <2>4 DEF HandleResult, Merged, IsComplete
  <2>5. CASE HandleError
    BY <2>5 DEF HandleError
  <2> QED
    BY <2>1, <2>2, <2>3, <2>4, <2>5 DEF HandleReply
<1>6. TypeOK'
  BY <1>1, <1>4, <1>5
  DEF IInv, TypeOK, ClientOK, SocketsOK, BrokerOK, WorkersOK, BoundsOK, HistoryOK, broker,
      workers, bounds, history
<1>7. WireTrue' /\ PollsTrue'
  BY <1>1 DEF IInv, WireTrue, TrueOf, PollsTrue, workers, history
<1> QED
  BY <1>4, <1>5, <1>6, <1>7 DEF IInv

(* Appending to the client's socket something true keeps it true.          *)
LEMMA Answered ==
  ASSUME to_client \in Seq(Answers), AnswersTrue, NEW m \in Answers,
         to_client' = Append(to_client, m), UNCHANGED workers,
         posted_to \subseteq posted_to',
         \A w \in m.workers : TrueOf(m.code, w),
         m.code = "202" => m.workers \subseteq posted_to'
  PROVE  to_client' \in Seq(Answers) /\ AnswersTrue'
<1>1. to_client' \in Seq(Answers) /\ Len(to_client') = Len(to_client) + 1
  OBVIOUS
<1>2. ASSUME NEW i \in 1..Len(to_client')
      PROVE  /\ \A w \in to_client'[i].workers : TrueOf(to_client'[i].code, w)
             /\ to_client'[i].code = "202" => to_client'[i].workers \subseteq posted_to'
  <2>1. CASE i \in 1..Len(to_client)
    <3>1. to_client'[i] = to_client[i]
      BY <2>1
    <3> QED
      BY <2>1, <3>1 DEF AnswersTrue
  <2>2. CASE i = Len(to_client) + 1
    <3>1. to_client'[i] = m
      BY <2>2
    <3> QED
      BY <3>1
  <2> QED
    BY <1>1, <2>1, <2>2
<1> QED
  BY <1>1, <1>2 DEF AnswersTrue, TrueOf, workers

(* The broker answers a request and sends it on.                           *)
LEMMA DispatchInv ==
  ASSUME IInv, Dispatch
  PROVE  IInv'
<1> DEFINE m == Head(to_broker)
           found == Found(m)
           one(w) == IF w \in found THEN 1 ELSE 0
           counted(queue) == [w \in Workers |-> queue[w] + one(w)]
<1>t. RowOK /\ ClientOK /\ SocketsOK /\ BrokerOK /\ WorkersOK /\ BoundsOK /\ HistoryOK
  BY DEF IInv, TypeOK
<1>1. /\ to_broker # <<>> /\ to_broker' = Tail(to_broker)
      /\ UNCHANGED <<row, client, registered, forwarded, workers, bounds, overwritten, unanswered>>
  BY DEF Dispatch
<1>2. m \in Requests /\ m = to_broker[1] /\ 1 \in 1..Len(to_broker)
  BY <1>t, <1>1 DEF SocketsOK
<1>3. found \subseteq Workers /\ found \subseteq m.target
  BY <1>2 DEF Requests, Found
<1>4. m.command \in {"POST", "GET"} /\ (m.command = "GET" => m.target \subseteq posted_to)
  BY <1>2 DEF IInv, PollsTrue, Requests
<1>5. \/ to_client' = Append(to_client, FromBroker("400", {})) /\ UNCHANGED <<posts, gets, posted_to>>
      \/ /\ to_client' = Append(to_client, FromBroker("202", found))
         /\ \/ /\ posts' = counted(posts) /\ gets' = gets
               /\ posted_to' = posted_to \cup found
            \/ /\ m.command = "GET" /\ gets' = counted(gets)
               /\ posts' = posts /\ posted_to' = posted_to
  BY <1>4 DEF Dispatch
<1>6. posted_to \subseteq posted_to' /\ posted_to' \subseteq Workers
  BY <1>t, <1>3, <1>5 DEF HistoryOK
<1>7. to_client' \in Seq(Answers) /\ AnswersTrue'
  <2>1. CASE to_client' = Append(to_client, FromBroker("400", {}))
    <3>1. FromBroker("400", {}) \in Answers
      BY DEF FromBroker, Answers
    <3>2. FromBroker("400", {}).workers = {} /\ FromBroker("400", {}).code = "400"
      BY DEF FromBroker
    <3> QED
      BY <1>t, <1>1, <1>6, <2>1, <3>1, <3>2, Answered DEF SocketsOK, IInv
  <2>2. CASE to_client' = Append(to_client, FromBroker("202", found)) /\ found \subseteq posted_to'
    <3>1. FromBroker("202", found) \in Answers
      BY <1>3 DEF FromBroker, Answers
    <3>2. FromBroker("202", found).workers = found /\ FromBroker("202", found).code = "202"
      BY DEF FromBroker
    <3>3. \A w \in found : TrueOf("202", w)
      BY DEF TrueOf
    <3> QED
      BY <1>t, <1>1, <1>6, <2>2, <3>1, <3>2, <3>3, Answered DEF SocketsOK, IInv
  <2> QED
    BY <1>3, <1>4, <1>5, <2>1, <2>2
<1>8. to_broker' \in Seq(Requests) /\ PollsTrue'
  <2>1. /\ to_broker' \in Seq(Requests) /\ Len(to_broker') = Len(to_broker) - 1
        /\ \A i \in 1..Len(to_broker') : to_broker'[i] = to_broker[i + 1]
    BY <1>t, <1>1 DEF SocketsOK
  <2>2. ASSUME NEW i \in 1..Len(to_broker'), to_broker'[i].command = "GET"
        PROVE  to_broker'[i].target \subseteq posted_to'
    <3>1. i + 1 \in 1..Len(to_broker)
      BY <1>t, <2>1 DEF SocketsOK
    <3>2. to_broker[i + 1].target \subseteq posted_to
      BY <2>1, <2>2, <3>1 DEF IInv, PollsTrue
    <3> QED
      BY <1>6, <2>1, <3>2
  <2> QED
    BY <2>1, <2>2 DEF PollsTrue
<1>9. BrokerOK'
  <2>1. \A queue \in [Workers -> Nat] : counted(queue) \in [Workers -> Nat]
    OBVIOUS
  <2>2. posts' \in [Workers -> Nat] /\ gets' \in [Workers -> Nat]
    <3> HIDE DEF counted
    <3> QED
      BY <1>t, <1>5, <2>1 DEF BrokerOK
  <2> QED
    BY <1>t, <1>1, <2>2 DEF BrokerOK
<1>10. TypeOK'
  <2>1. RowOK' /\ ClientOK'
    BY <1>t, <1>1 DEF RowOK, ClientOK, row, client
  <2>2. WorkersOK' /\ BoundsOK' /\ HistoryOK'
    BY <1>t, <1>1, <1>6 DEF WorkersOK, BoundsOK, HistoryOK, workers, bounds
  <2> QED
    BY <1>7, <1>8, <1>9, <2>1, <2>2 DEF TypeOK, SocketsOK
<1>11. WireTrue'
  BY <1>1 DEF IInv, WireTrue, TrueOf, workers
<1>12. CompletedIsReal' /\ OnlyPostedWorkersArePolled'
  BY <1>1, <1>6 DEF IInv, CompletedIsReal, OnlyPostedWorkersArePolled, row, workers
<1> QED
  BY <1>7, <1>8, <1>10, <1>11, <1>12 DEF IInv

(* The broker passes on what a worker said, or drops it.                   *)
LEMMA ForwardInv ==
  ASSUME IInv, NEW w \in Workers, Forward(w)
  PROVE  IInv'
<1> DEFINE m == wire[w][forwarded[w] + 1]
<1>t. SocketsOK /\ BrokerOK /\ WorkersOK
  BY DEF IInv, TypeOK
<1>1. /\ forwarded[w] < Len(wire[w])
      /\ forwarded' = [forwarded EXCEPT ![w] = @ + 1]
      /\ to_client' = to_client \/ to_client' = Append(to_client, FromWorker(w, m))
      /\ UNCHANGED <<row, client, to_broker, registered, posts, gets, workers, bounds, history>>
  BY DEF Forward
<1>2. forwarded[w] + 1 \in 1..Len(wire[w]) /\ m \in Replies
  BY <1>t, <1>1 DEF BrokerOK, WorkersOK
<1>3. TrueOf(m.code, w) /\ m.code \in {"201", "404", "300", "102", "200"}
  BY <1>2, ReplyCodes DEF IInv, WireTrue
<1>4. to_client' \in Seq(Answers) /\ AnswersTrue'
  <2> HIDE DEF m
  <2>1. CASE to_client' = to_client
    BY <1>t, <1>1, <2>1 DEF SocketsOK, IInv, AnswersTrue, TrueOf, workers, history
  <2>2. CASE to_client' = Append(to_client, FromWorker(w, m))
    <3>1. FromWorker(w, m) \in Answers
      BY <1>3 DEF FromWorker, Answers
    <3>2. FromWorker(w, m).workers = {w} /\ FromWorker(w, m).code = m.code
      BY DEF FromWorker
    <3>3. \A v \in FromWorker(w, m).workers : TrueOf(FromWorker(w, m).code, v)
      BY <1>3, <3>2
    <3>4. posted_to' = posted_to
      BY <1>1 DEF history
    <3> QED
      BY <1>t, <1>1, <1>3, <2>2, <3>1, <3>2, <3>3, <3>4, Answered DEF SocketsOK, IInv
  <2> QED
    BY <1>1, <2>1, <2>2
<1>5. TypeOK'
  <2>1. RowOK' /\ ClientOK' /\ HistoryOK'
    BY <1>1 DEF IInv, TypeOK, RowOK, ClientOK, HistoryOK, row, client, history
  <2>2. WorkersOK' /\ BoundsOK'
    BY <1>1 DEF IInv, TypeOK, WorkersOK, BoundsOK, workers, bounds
  <2>3. BrokerOK'
    BY <1>t, <1>1 DEF BrokerOK
  <2> QED
    BY <1>t, <1>1, <1>4, <2>1, <2>2, <2>3 DEF TypeOK, SocketsOK
<1>6. WireTrue' /\ PollsTrue'
  BY <1>1 DEF IInv, WireTrue, TrueOf, PollsTrue, workers, history
<1>7. CompletedIsReal' /\ OnlyPostedWorkersArePolled'
  BY <1>1 DEF IInv, CompletedIsReal, OnlyPostedWorkersArePolled, row, workers, history
<1> QED
  BY <1>4, <1>5, <1>6, <1>7 DEF IInv

(* A restart of the broker takes messages from the front of one socket and *)
(* from the end of the other.                                              *)
LEMMA RestartBrokerInv ==
  ASSUME IInv, RestartBroker
  PROVE  IInv'
<1>t. SocketsOK /\ BrokerOK /\ WorkersOK /\ BoundsOK /\ HistoryOK
  BY DEF IInv, TypeOK
<1>1. UNCHANGED <<row, client, workers, polls, changes, posted_to, overwritten>>
  BY DEF RestartBroker
<1>2. PICK n \in 0..Len(to_broker), k \in 0..Len(to_client) :
        /\ to_broker' = SubSeq(to_broker, n + 1, Len(to_broker))
        /\ to_client' = SubSeq(to_client, 1, k)
        /\ unanswered' = (unanswered \/ LostBy(n, k))
  BY DEF RestartBroker
<1>3. to_broker' \in Seq(Requests) /\ PollsTrue'
  <2>1. /\ to_broker' \in Seq(Requests) /\ Len(to_broker') = Len(to_broker) - n
        /\ \A i \in 1..Len(to_broker') : to_broker'[i] = to_broker[n + i]
    BY <1>t, <1>2 DEF SocketsOK
  <2>2. \A i \in 1..Len(to_broker') : n + i \in 1..Len(to_broker)
    BY <1>t, <2>1 DEF SocketsOK
  <2> QED
    BY <1>1, <2>1, <2>2 DEF IInv, PollsTrue
<1>4. to_client' \in Seq(Answers) /\ AnswersTrue'
  <2>1. /\ to_client' \in Seq(Answers) /\ Len(to_client') = k
        /\ \A i \in 1..Len(to_client') : to_client'[i] = to_client[i]
    BY <1>t, <1>2 DEF SocketsOK
  <2>2. \A i \in 1..Len(to_client') : i \in 1..Len(to_client)
    BY <1>t, <2>1 DEF SocketsOK
  <2> QED
    BY <1>1, <2>1, <2>2 DEF IInv, AnswersTrue, TrueOf, workers
<1>5. BrokerOK'
  <2>1. registered' \in SUBSET Workers
    BY DEF RestartBroker
  <2>2. posts' \in [Workers -> Nat] /\ gets' \in [Workers -> Nat]
    BY ConstantsAssumption DEF RestartBroker, Remaining
  <2>3. /\ forwarded' \in [Workers -> Nat]
        /\ \A w \in Workers : forwarded'[w] <= Len(wire[w])
    BY ConstantsAssumption DEF RestartBroker
  <2> QED
    BY <1>1, <2>1, <2>2, <2>3 DEF BrokerOK, workers
<1>6. BoundsOK' /\ HistoryOK'
  <2>1. crashes' \in 0..MaxCrashes
    BY <1>t, ConstantsAssumption DEF RestartBroker, BoundsOK
  <2>2. unanswered' \in BOOLEAN
    BY <1>t, <1>2 DEF HistoryOK, LostBy
  <2> QED
    BY <1>t, <1>1, <2>1, <2>2 DEF BoundsOK, HistoryOK
<1>7. TypeOK'
  BY <1>1, <1>3, <1>4, <1>5, <1>6
  DEF IInv, TypeOK, RowOK, ClientOK, SocketsOK, WorkersOK, row, client, workers
<1>8. WireTrue' /\ CompletedIsReal' /\ OnlyPostedWorkersArePolled'
  BY <1>1 DEF IInv, WireTrue, TrueOf, CompletedIsReal, OnlyPostedWorkersArePolled, row, workers
<1> QED
  BY <1>3, <1>4, <1>7, <1>8 DEF IInv

-----------------------------------------------------------------------------
(* Every step of the specification keeps the invariant.                    *)
LEMMA NextInv == IInv /\ [Next]_vars => IInv'
<1> SUFFICES ASSUME IInv, [Next]_vars PROVE IInv'
  OBVIOUS
<1>1. CASE UNCHANGED vars
  <2>1. UNCHANGED <<row, client, to_broker, to_client, broker, workers, bounds, history>>
    BY <1>1 DEF vars
  <2>2. WorkersOK' /\ Forwards /\ WireTrue'
    BY <2>1 DEF IInv, TypeOK, WorkersOK, WireTrue, TrueOf, Forwards, workers
  <2>3. BrokerOK' /\ BoundsOK'
    BY <2>1 DEF IInv, TypeOK, BrokerOK, BoundsOK, broker, bounds
  <2> QED
    BY <2>1, <2>2, <2>3, OnlyWorkers
<1>2. CASE \/ DispatchNew \/ WriteSubmitting \/ PollActive \/ FindLate \/ WriteStale
           \/ DeadlinePasses \/ RestartClient
  BY <1>2, ClientInv
<1>3. CASE HandleReply
  BY <1>3, ReceiverInv
<1>4. CASE Dispatch \/ RestartBroker
  BY <1>4, DispatchInv, RestartBrokerInv
<1>5. ASSUME NEW w \in Workers,
             \/ Forward(w) \/ ChangeRegistered(w)
             \/ StorePost(w) \/ AckPost(w) \/ AnswerGet(w) \/ RunJob(w) \/ RestartWorker(w)
      PROVE  IInv'
  BY <1>5, ForwardInv, WorkersInv
<1> QED
  BY <1>1, <1>2, <1>3, <1>4, <1>5 DEF Next

(* The invariant holds in every state the job can reach.                   *)
THEOREM Invariance == Spec => []IInv
  BY InitInv, NextInv, PTL DEF Spec

(* The client's row, threads, sockets, the broker's and the workers' state *)
(* keep their shape.                                                       *)
THEOREM TypeCorrect == Spec => []TypeOK
<1>1. IInv => TypeOK
  BY DEF IInv
<1> QED
  BY <1>1, Invariance, PTL

(* handle_response writes COMPLETED only for results the workers have.     *)
THEOREM CompletedJobsAreReal == Spec => []CompletedIsReal
<1>1. IInv => CompletedIsReal
  BY DEF IInv
<1> QED
  BY <1>1, Invariance, PTL

(* poll_active_jobs asks only workers that dispatch sent the POST to.      *)
THEOREM PolledWorkersWerePosted == Spec => []OnlyPostedWorkersArePolled
<1>1. IInv => OnlyPostedWorkersArePolled
  BY DEF IInv
<1> QED
  BY <1>1, Invariance, PTL

(* No step of any party removes a stored result from the client's row.     *)
THEOREM StoredResultsStay == Spec => ResultsAreKept
<1>1. [Next]_vars => [workers_completed \subseteq workers_completed']_vars
  <2> SUFFICES ASSUME Next PROVE workers_completed \subseteq workers_completed'
    BY DEF vars
  <2>1. CASE DispatchNew \/ PollActive \/ FindLate \/ DeadlinePasses
    BY <2>1 DEF DispatchNew, PollActive, FindLate, DeadlinePasses, row
  <2>2. CASE WriteSubmitting \/ WriteStale
    BY <2>2 DEF WriteSubmitting, WriteStale
  <2>3. CASE RestartClient
    BY <2>3 DEF RestartClient
  <2>4. CASE HandleReply
    BY <2>4 DEF HandleReply, HandleDispatched, HandleStarted, HandleWaiting, HandleResult,
                HandleError, Merged
  <2>5. CASE Dispatch \/ RestartBroker
    BY <2>5 DEF Dispatch, RestartBroker, row
  <2>6. ASSUME NEW w \in Workers,
               \/ Forward(w) \/ ChangeRegistered(w)
               \/ StorePost(w) \/ AckPost(w) \/ AnswerGet(w) \/ RunJob(w) \/ RestartWorker(w)
        PROVE  UNCHANGED row
    BY <2>6 DEF Forward, ChangeRegistered, StorePost, AckPost, AnswerGet, RunJob, RestartWorker
  <2> QED
    BY <2>1, <2>2, <2>3, <2>4, <2>5, <2>6 DEF Next, row
<1> QED
  BY <1>1, PTL DEF Spec, ResultsAreKept
=============================================================================
