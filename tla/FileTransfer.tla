---------------------------- MODULE FileTransfer ----------------------------
(***************************************************************************)
(* One download: NFPClient.fetch_file with handle_stream in the client's   *)
(* recv thread (core/client.py), and the fetch_file task of the file       *)
(* sharing worker, which sends a chunk for every offset it is given and    *)
(* gets the offsets by PUT (core/worker.py, filesharing_worker.py).        *)
(*                                                                         *)
(* A chunk is its number and the version of the file it was read from.     *)
(* The job is that of JobProtocol after its POST, seen from its one        *)
(* worker: STARTED stands for every status that is polled, the timeout of  *)
(* run_job for the deadline too, and one poll is under way at a time.      *)
(***************************************************************************)
EXTENDS Naturals, Sequences, FiniteSets

CONSTANTS
  Chunks,     \* size_bytes of file_details, in chunks
  Pipeline,   \* the pipeline argument of fetch_file
  MaxFaults   \* bound: lost or refused messages, changes of the file

ASSUME FileTransferAssumption ==
  Chunks \in Nat \ {0} /\ Pipeline \in Nat \ {0} /\ MaxFaults \in Nat

VARIABLES
  (* client: file_transfers[uuid], the job's row and future, and the caller *)
  credit, offset, chunk_requests_remaining,
  received, destination,   \* the chunks written to the file, "open" or "closed"
  status, done, failed,    \* of the job; failed is that of the worker's result
  polled,                  \* where the GET is: "no", "worker" or, answered, "answer"
  receiver,                \* the recv thread, "dead" after an exception
  caller,                  \* "waiting", "checking", or what fetch_file ended with
  (* messages *)
  puts, to_client,
  (* worker: the task and its file *)
  task, position, size, client_input_queue, outcome,
  version, length,
  faults

transfer == <<credit, offset, chunk_requests_remaining, received, destination, receiver>>
job      == <<status, done, failed, polled>>
reader   == <<task, position, size, client_input_queue, outcome>>
file     == <<version, length>>
vars == <<transfer, job, caller, puts, to_client, reader, file, faults>>

Chunk(n, v) == [type |-> "STREAM", number |-> n, version |-> v]
Result(failure) == [type |-> "RESULT", failed |-> failure]
Refusal == [type |-> "400"]
Accepted == [type |-> "202"]
Pending == [type |-> "300"]

Whole == received = [n \in 1..Chunks |-> Chunk(n - 1, 1)]

Init ==
  /\ credit = Pipeline /\ offset = 0
  /\ chunk_requests_remaining = Chunks - 1
  /\ received = <<>> /\ destination = "open"
  /\ status = "STARTED" /\ done = FALSE /\ failed = FALSE /\ polled = "no"
  /\ receiver = "alive" /\ caller = "waiting"
  /\ puts = <<>> /\ to_client = <<>>
  /\ task = "queued" /\ position = 0 /\ size = 0
  /\ client_input_queue = <<>> /\ outcome = "none"
  /\ version = 1 /\ length = Chunks
  /\ faults = 0

-----------------------------------------------------------------------------
(***************************************************************************)
(* Worker.                                                                 *)
(***************************************************************************)
StartTask ==
  /\ task = "queued"
  /\ task' = "reading" /\ size' = length
  /\ UNCHANGED <<transfer, job, caller, puts, to_client, position, client_input_queue, outcome,
                 file, faults>>

End(how) == task' = "ended" /\ outcome' = how

OneShort(tell) == tell + 1 >= size               \* mutant: the last chunk is not sent
AtEnd(tell) == tell >= size

(* Read at the position, stream what was read, stop at the end.  (A file   *)
(* that is missing ends the task at once, which is left out.)              *)
SendChunk ==
  /\ task = "reading"
  /\ to_client' = IF position < length
                  THEN Append(to_client, Chunk(position, version)) ELSE to_client
  /\ LET tell == IF position < length THEN position + 1 ELSE position
     IN  IF AtEnd(tell) THEN End("ok") ELSE task' = "waiting" /\ UNCHANGED outcome
  /\ UNCHANGED <<transfer, job, caller, puts, position, size, client_input_queue, file, faults>>

(* _put: the offset reaches the job, if it is still running.               *)
PutInput ==
  /\ puts # <<>>
  /\ puts' = Tail(puts)
  /\ client_input_queue' = IF task = "ended" THEN client_input_queue
                           ELSE Append(client_input_queue, Head(puts))
  /\ UNCHANGED <<transfer, job, caller, to_client, task, position, size, outcome, file, faults>>

NextOffset ==
  /\ task = "waiting"
  /\ client_input_queue # <<>>
  /\ position' = Head(client_input_queue)
  /\ client_input_queue' = Tail(client_input_queue)
  /\ task' = "reading"
  /\ UNCHANGED <<transfer, job, caller, puts, to_client, size, outcome, file, faults>>

Forever == FALSE                                 \* mutant: wait without a timeout
NothingAsked == client_input_queue = <<>>

ChunkTimeout ==
  /\ task = "waiting"
  /\ NothingAsked
  /\ End("failed")
  /\ UNCHANGED <<transfer, job, caller, puts, to_client, position, size, client_input_queue,
                 file, faults>>

(* _get: the stored result if there is one, and 300 if not.                *)
AnswerPoll ==
  /\ polled = "worker"
  /\ to_client' = Append(to_client, IF task = "ended" THEN Result(outcome = "failed") ELSE Pending)
  /\ polled' = "answer"
  /\ UNCHANGED <<transfer, status, done, failed, caller, puts, reader, file, faults>>

-----------------------------------------------------------------------------
(***************************************************************************)
(* Client, recv thread.  A transfer is known until fetch_file returns; if  *)
(* it is left by an exception, it stays.                                   *)
(***************************************************************************)
Known == caller \in {"waiting", "checking", "raised"}

TakeFromBroker(type) ==
  /\ receiver = "alive"
  /\ to_client # <<>> /\ Head(to_client).type = type
  /\ to_client' = Tail(to_client)
  /\ UNCHANGED <<caller, reader, file, faults>>

OnlyCredit(m, n) == m                            \* mutant: past the end of the file
Smaller(m, n) == IF m < n THEN m ELSE n

Lavish == credit + 2                             \* mutant: two credits for a chunk
Earned == credit + 1

Offsets(n) == [i \in 1..n |-> offset + i]

Announced(chunks) == Len(chunks) + 1 >= Chunks   \* mutant: closed one chunk early
AllThere(chunks) == Len(chunks) >= Chunks

LastChunk ==
  /\ destination' = "closed"
  /\ credit' = Earned
  /\ IF Whole' THEN UNCHANGED <<status, done>> ELSE status' = "FAILED" /\ done' = TRUE
  /\ UNCHANGED <<offset, chunk_requests_remaining, puts>>

RequestMore ==
  LET n == Smaller(Earned, chunk_requests_remaining)
  IN  /\ puts' = puts \o Offsets(n)
      /\ offset' = offset + n
      /\ credit' = Earned - n
      /\ chunk_requests_remaining' = chunk_requests_remaining - n
      /\ UNCHANGED <<destination, status, done>>

WriteChunk ==
  /\ received' = Append(received, Head(to_client))
  /\ \/ AllThere(received') /\ LastChunk
     \/ ~AllThere(received') /\ RequestMore
  /\ UNCHANGED receiver

(* Writing to a closed file raises, and nothing in recv catches it.        *)
HandleStream ==
  /\ TakeFromBroker("STREAM")
  /\ UNCHANGED <<failed, polled>>
  /\ IF Known /\ destination = "open" THEN WriteChunk
     ELSE /\ receiver' = IF Known THEN "dead" ELSE receiver
          /\ UNCHANGED <<credit, offset, chunk_requests_remaining, received, destination,
                         status, done, puts>>

(* A poll, which the broker answers with 202 before it passes it on.       *)
Poll ==
  /\ status = "STARTED" /\ polled = "no"
  /\ polled' = "worker"
  /\ to_client' = Append(to_client, Accepted)
  /\ UNCHANGED <<transfer, status, done, failed, caller, puts, reader, file, faults>>

(* handle_response writes the status of the answer, whatever it was.       *)
HandleAccepted ==
  /\ TakeFromBroker("202")
  /\ status' = "STARTED"
  /\ UNCHANGED <<done, failed, polled, transfer, puts>>

HandlePending ==
  /\ TakeFromBroker("300")
  /\ status' = "STARTED" /\ polled' = "no"
  /\ UNCHANGED <<done, failed, transfer, puts>>

HandleResult ==
  /\ TakeFromBroker("RESULT")
  /\ status' = "COMPLETED" /\ done' = TRUE
  /\ failed' = Head(to_client).failed /\ polled' = "no"
  /\ UNCHANGED <<transfer, puts>>

HandleRefusal ==
  /\ TakeFromBroker("400")
  /\ status' = "FAILED" /\ done' = TRUE
  /\ UNCHANGED <<failed, polled, transfer, puts>>

-----------------------------------------------------------------------------
(***************************************************************************)
(* Client, the thread in fetch_file: it waits for run_job, whose result is *)
(* None and not subscriptable unless the job is COMPLETED, and then looks  *)
(* at the job again.                                                       *)
(***************************************************************************)
TakeResult ==
  /\ caller = "waiting" /\ done
  /\ caller' = CASE status # "COMPLETED" -> "raised"
                 [] status = "COMPLETED" /\ failed -> "404"
                 [] status = "COMPLETED" /\ ~failed -> "checking"
  /\ UNCHANGED <<transfer, job, puts, to_client, reader, file, faults>>

CheckJob ==
  /\ caller = "checking"
  /\ caller' = IF status = "FAILED" THEN "400" ELSE "200"
  /\ UNCHANGED <<transfer, job, puts, to_client, reader, file, faults>>

(* The timeout of run_job.                                                 *)
GiveUp ==
  /\ caller = "waiting" /\ ~done
  /\ caller' = "raised"
  /\ UNCHANGED <<transfer, job, puts, to_client, reader, file, faults>>

-----------------------------------------------------------------------------
(***************************************************************************)
(* Faults: messages are lost when the worker is not registered or a socket *)
(* is closed, the broker refuses the PUT of an unregistered worker, and    *)
(* the file is written while it is sent.                                   *)
(***************************************************************************)
Fault == faults < MaxFaults /\ faults' = faults + 1

LosePut ==
  /\ Fault
  /\ puts # <<>> /\ puts' = Tail(puts)
  /\ to_client' \in {to_client, Append(to_client, Refusal)}
  /\ UNCHANGED <<transfer, job, caller, reader, file>>

LoseStream ==
  /\ Fault
  /\ to_client # <<>> /\ Head(to_client).type = "STREAM"
  /\ to_client' = Tail(to_client)
  /\ UNCHANGED <<transfer, job, caller, puts, reader, file>>

ChangeFile ==
  /\ Fault
  /\ version' = version + 1
  /\ length' \in {0, length, length + 1}
  /\ UNCHANGED <<transfer, job, caller, puts, to_client, reader>>

-----------------------------------------------------------------------------
Next ==
  \/ StartTask \/ SendChunk \/ PutInput \/ NextOffset \/ ChunkTimeout \/ AnswerPoll
  \/ Poll \/ HandleStream \/ HandleAccepted \/ HandlePending \/ HandleResult \/ HandleRefusal
  \/ TakeResult \/ CheckJob \/ GiveUp
  \/ LosePut \/ LoseStream \/ ChangeFile

Spec == Init /\ [][Next]_vars

(* The threads of worker and client run, the sockets deliver and the wait  *)
(* of the worker for an offset times out.  Nobody has to give up.          *)
Fairness ==
  /\ WF_vars(StartTask \/ SendChunk \/ NextOffset) /\ WF_vars(AnswerPoll)
  /\ WF_vars(PutInput) /\ WF_vars(ChunkTimeout)
  /\ WF_vars(Poll)
  /\ WF_vars(HandleStream \/ HandleAccepted \/ HandlePending \/ HandleResult \/ HandleRefusal)
  /\ WF_vars(TakeResult) /\ WF_vars(CheckJob)

FairSpec == Spec /\ Fairness

-----------------------------------------------------------------------------
(* Every variable keeps its shape.                                         *)
ChunksOf == [type : {"STREAM"}, number : Nat, version : Nat]
Replies == ChunksOf \cup [type : {"RESULT"}, failed : BOOLEAN] \cup {Refusal, Accepted, Pending}
TypeOK ==
  /\ credit \in Nat /\ offset \in Nat /\ chunk_requests_remaining \in Nat
  /\ received \in Seq(ChunksOf) /\ destination \in {"open", "closed"}
  /\ status \in {"STARTED", "COMPLETED", "FAILED"} /\ done \in BOOLEAN /\ failed \in BOOLEAN
  /\ polled \in {"no", "worker", "answer"}
  /\ receiver \in {"alive", "dead"}
  /\ caller \in {"waiting", "checking", "200", "400", "404", "raised"}
  /\ puts \in Seq(Nat) /\ client_input_queue \in Seq(Nat)
  /\ to_client \in Seq(Replies)
  /\ task \in {"queued", "reading", "waiting", "ended"}
  /\ outcome \in {"none", "ok", "failed"}
  /\ position \in Nat /\ size \in Nat /\ version \in Nat /\ length \in Nat
  /\ faults \in 0..MaxFaults

(* The chunks under way, asked for and not written yet, are never more     *)
(* than the pipeline and the one the POST asks for, and all that was asked *)
(* for is below the end of the file (handle_stream).                       *)
Streams(messages) == {i \in 1..Len(messages) : messages[i].type = "STREAM"}
Reading == IF task \in {"queued", "reading"} THEN 1 ELSE 0
UnderWay == Len(puts) + Len(client_input_queue) + Cardinality(Streams(to_client)) + Reading
WindowIsKept == UnderWay <= Pipeline + 1 /\ offset < Chunks

InOrder == \A i, k \in 1..Len(received) : i < k => received[i].number < received[k].number

(* No chunk arrives after the file was closed: the recv thread survives,   *)
(* also when the file on the worker grows or shrinks (handle_stream).      *)
ReceiverLives == receiver = "alive"

(* The file is written in order and no chunk twice, whatever is lost; and  *)
(* if nothing was lost and the file did not change, what fetch_file        *)
(* returns as good is the file.                                            *)
GoodIsWhole == InOrder /\ (caller = "200" /\ faults = 0 => Whole)

(* fetch_file ends without its timeout, whatever is lost: the worker gives *)
(* up waiting for an offset.                                               *)
FetchEnds == caller = "waiting" ~> caller # "waiting"
=============================================================================
