------------------------- MODULE FileTransfer_proofs -------------------------
(* Proofs of the safety properties of FileTransfer that rest on the        *)
(* account of credits and chunks, for every file, pipeline and number of   *)
(* faults.                                                                 *)
EXTENDS FileTransfer, FiniteSetTheorems, Functions, TLAPS

-----------------------------------------------------------------------------
(* How many chunks a socket holds, when a message is added or taken.       *)
IsStream(m) == IF m.type = "STREAM" THEN 1 ELSE 0

(* The chunks of a socket can be counted.                                  *)
LEMMA StreamsFinite ==
  ASSUME NEW s \in Seq(Replies)
  PROVE  IsFiniteSet(Streams(s)) /\ Cardinality(Streams(s)) \in Nat
<1>1. IsFiniteSet(1..Len(s)) /\ Streams(s) \in SUBSET (1..Len(s))
  BY FS_Interval DEF Streams
<1>2. IsFiniteSet(Streams(s))
  BY <1>1, FS_Subset
<1> QED
  BY <1>2, FS_CardinalityType

(* A message that is sent adds itself.                                     *)
LEMMA StreamsAppend ==
  ASSUME NEW s \in Seq(Replies), NEW m \in Replies
  PROVE  Cardinality(Streams(Append(s, m))) = Cardinality(Streams(s)) + IsStream(m)
<1>1. Streams(Append(s, m)) =
        IF m.type = "STREAM" THEN Streams(s) \cup {Len(s) + 1} ELSE Streams(s)
  BY DEF Streams
<1>2. Len(s) + 1 \notin Streams(s)
  BY DEF Streams
<1>3. IsFiniteSet(Streams(s)) /\ Cardinality(Streams(s)) \in Nat
  BY StreamsFinite
<1>4. Cardinality(Streams(s) \cup {Len(s) + 1}) = Cardinality(Streams(s)) + 1
  BY <1>2, <1>3, FS_AddElement
<1> QED
  BY <1>1, <1>3, <1>4 DEF IsStream

(* A message that is taken takes only itself away.                         *)
LEMMA StreamsTail ==
  ASSUME NEW s \in Seq(Replies), s # <<>>
  PROVE  Cardinality(Streams(s)) = Cardinality(Streams(Tail(s))) + IsStream(Head(s))
<1> DEFINE Rest == Streams(s) \ {1}
           f == [i \in Streams(Tail(s)) |-> i + 1]
<1>1. /\ Tail(s) \in Seq(Replies) /\ Len(s) \in Nat \ {0} /\ Len(Tail(s)) = Len(s) - 1
      /\ \A i \in 1..Len(Tail(s)) : Tail(s)[i] = s[i + 1]
  OBVIOUS
<1>2. Streams(Tail(s)) \subseteq Nat
  BY <1>1 DEF Streams
<1>3. \A i \in Streams(Tail(s)) : i + 1 \in Rest
  BY <1>1 DEF Streams
<1>4. \A i \in Rest : i - 1 \in Streams(Tail(s))
  <2> SUFFICES ASSUME NEW i \in Rest PROVE i - 1 \in Streams(Tail(s))
    OBVIOUS
  <2>1. i \in 2..Len(s) /\ s[i].type = "STREAM"
    BY <1>1 DEF Streams
  <2>2. i - 1 \in 1..Len(Tail(s)) /\ Tail(s)[i - 1] = s[i]
    BY <1>1, <2>1
  <2> QED
    BY <2>1, <2>2 DEF Streams
<1>5. f \in Bijection(Streams(Tail(s)), Rest)
  <2>1. f \in [Streams(Tail(s)) -> Rest]
    BY <1>3
  <2>2. \A a, b \in Streams(Tail(s)) : f[a] = f[b] => a = b
    BY <1>2
  <2>3. \A i \in Rest : \E a \in Streams(Tail(s)) : f[a] = i
    <3> SUFFICES ASSUME NEW i \in Rest PROVE \E a \in Streams(Tail(s)) : f[a] = i
      OBVIOUS
    <3>1. i \in Nat
      BY DEF Streams
    <3>2. i - 1 \in Streams(Tail(s)) /\ f[i - 1] = i
      BY <1>4, <3>1
    <3> QED
      BY <3>2
  <2> QED
    BY <2>1, <2>2, <2>3 DEF Bijection, Injection, Surjection, IsInjective
<1>6. Cardinality(Rest) = Cardinality(Streams(Tail(s)))
  BY <1>1, <1>5, StreamsFinite, FS_Bijection DEF ExistsBijection
<1>7. 1 \in Streams(s) <=> Head(s).type = "STREAM"
  BY <1>1 DEF Streams
<1>8. Cardinality(Rest) = IF 1 \in Streams(s) THEN Cardinality(Streams(s)) - 1
                                             ELSE Cardinality(Streams(s))
  BY StreamsFinite, FS_RemoveElement
<1> QED
  BY <1>1, <1>6, <1>7, <1>8, StreamsFinite DEF IsStream

-----------------------------------------------------------------------------
(* The inductive invariant: every credit is spent on a chunk under way,    *)
(* every chunk received or under way was asked for once, and the file is   *)
(* closed only with all of them.                                           *)
Account ==
  /\ offset + chunk_requests_remaining = Chunks - 1
  /\ credit + UnderWay <= Pipeline + 1
  /\ Len(received) + UnderWay <= offset + 1
  /\ destination = "closed" => Len(received) >= Chunks

IInv == TypeOK /\ Account /\ ReceiverLives

-----------------------------------------------------------------------------
(* Nothing is under way at the start but the chunk the POST asks for.      *)
LEMMA InitInv == Init => IInv
<1> SUFFICES ASSUME Init PROVE IInv
  OBVIOUS
<1>1. TypeOK
  <2>1. received \in Seq(ChunksOf) /\ to_client \in Seq(Replies)
    BY DEF Init
  <2>2. puts \in Seq(Nat) /\ client_input_queue \in Seq(Nat)
    BY DEF Init
  <2>3. chunk_requests_remaining \in Nat /\ credit \in Nat /\ length \in Nat
    BY FileTransferAssumption DEF Init
  <2>4. done \in BOOLEAN /\ failed \in BOOLEAN
    BY DEF Init
  <2>5. faults \in 0..MaxFaults
    BY FileTransferAssumption DEF Init
  <2> QED
    BY <2>1, <2>2, <2>3, <2>4, <2>5, FileTransferAssumption DEF Init, TypeOK
<1>2. Streams(to_client) = {}
  BY DEF Init, Streams
<1>3. UnderWay = 1
  BY <1>2, FS_EmptySet DEF Init, UnderWay, Reading
<1>4. Account /\ ReceiverLives
  BY <1>3, FileTransferAssumption DEF Init, Account, ReceiverLives
<1> QED
  BY <1>1, <1>4 DEF IInv

-----------------------------------------------------------------------------
(* The variables keep their shape.                                         *)
LEMMA TypeStep == TypeOK /\ [Next]_vars => TypeOK'
<1> SUFFICES ASSUME TypeOK, [Next]_vars PROVE TypeOK'
  OBVIOUS
<1> USE FileTransferAssumption
        DEF TypeOK, transfer, job, reader, file
<1>1. CASE StartTask
  BY <1>1 DEF StartTask
<1>2. CASE SendChunk
  <2>1. Chunk(position, version) \in Replies
    BY DEF Chunk, Replies, ChunksOf
  <2>2. to_client' \in Seq(Replies)
    BY <1>2, <2>1 DEF SendChunk
  <2>3. task' \in {"waiting", "ended"} /\ outcome' \in {"none", "ok", "failed"}
    BY <1>2 DEF SendChunk, End
  <2> QED
    BY <1>2, <2>2, <2>3 DEF SendChunk
<1>3. CASE PutInput
  BY <1>3 DEF PutInput
<1>4. CASE NextOffset
  BY <1>4 DEF NextOffset
<1>5. CASE ChunkTimeout
  BY <1>5 DEF ChunkTimeout, End
<1>6. CASE AnswerPoll
  BY <1>6 DEF AnswerPoll, Result, Replies
<1>7. CASE Poll
  BY <1>7 DEF Poll, Replies
<1>8. CASE HandleStream
  <2>1. to_client # <<>> /\ Head(to_client) \in ChunksOf /\ to_client' \in Seq(Replies)
    BY <1>8 DEF HandleStream, TakeFromBroker, Replies, ChunksOf, Refusal, Accepted, Pending
  <2>2. UNCHANGED <<failed, polled, caller, task, position, size, client_input_queue, outcome,
                    version, length, faults>>
    BY <1>8 DEF HandleStream, TakeFromBroker
  <2>3. received' \in Seq(ChunksOf) /\ destination' \in {"open", "closed"}
    <3>1. Append(received, Head(to_client)) \in Seq(ChunksOf)
      BY <2>1
    <3>2. received' \in {received, Append(received, Head(to_client))}
      BY <1>8 DEF HandleStream, WriteChunk
    <3>3. destination' \in {"open", "closed"}
      BY <1>8 DEF HandleStream, WriteChunk, LastChunk, RequestMore
    <3> QED
      BY <3>1, <3>2, <3>3
  <2>4. status' \in {"STARTED", "COMPLETED", "FAILED"} /\ done' \in BOOLEAN
        /\ receiver' \in {"alive", "dead"}
    BY <1>8 DEF HandleStream, WriteChunk, LastChunk, RequestMore
  <2>5. credit' \in Nat /\ offset' \in Nat /\ chunk_requests_remaining' \in Nat
        /\ puts' \in Seq(Nat)
    <3>1. CASE RequestMore
      <4> DEFINE n == Smaller(Earned, chunk_requests_remaining)
      <4>1. n \in Nat /\ n <= credit + 1 /\ n <= chunk_requests_remaining
        BY DEF Smaller, Earned
      <4>2. Offsets(n) \in Seq(Nat)
        <5>1. Offsets(n) \in [1..n -> Nat]
          BY <4>1 DEF Offsets
        <5> QED
          BY <4>1, <5>1
      <4> HIDE DEF n
      <4>3. puts \o Offsets(n) \in Seq(Nat)
        BY <4>2
      <4> QED
        BY <3>1, <4>1, <4>3 DEF RequestMore, Earned, n
    <3>2. CASE ~RequestMore
      BY <1>8, <3>2 DEF HandleStream, WriteChunk, LastChunk, Earned
    <3> QED
      BY <3>1, <3>2
  <2> QED
    BY <2>1, <2>2, <2>3, <2>4, <2>5
<1>9. CASE HandleAccepted
  BY <1>9 DEF HandleAccepted, TakeFromBroker
<1>10. CASE HandlePending
  BY <1>10 DEF HandlePending, TakeFromBroker
<1>11. CASE HandleResult
  BY <1>11 DEF HandleResult, TakeFromBroker, Replies, ChunksOf, Refusal, Accepted, Pending
<1>12. CASE HandleRefusal
  BY <1>12 DEF HandleRefusal, TakeFromBroker
<1>13. CASE TakeResult
  BY <1>13 DEF TakeResult
<1>14. CASE CheckJob
  BY <1>14 DEF CheckJob
<1>15. CASE GiveUp
  BY <1>15 DEF GiveUp
<1>16. CASE LosePut
  <2>1. Append(to_client, Refusal) \in Seq(Replies)
    BY DEF Replies
  <2>2. to_client' \in Seq(Replies)
    BY <1>16, <2>1 DEF LosePut
  <2>3. puts' \in Seq(Nat) /\ faults' \in 0..MaxFaults
    BY <1>16 DEF LosePut, Fault
  <2> QED
    BY <1>16, <2>2, <2>3 DEF LosePut
<1>17. CASE LoseStream
  BY <1>17 DEF LoseStream, Fault
<1>18. CASE ChangeFile
  BY <1>18 DEF ChangeFile, Fault
<1>19. CASE UNCHANGED vars
  BY <1>19 DEF vars
<1> QED
  BY <1>1, <1>2, <1>3, <1>4, <1>5, <1>6, <1>7, <1>8, <1>9, <1>10, <1>11, <1>12, <1>13, <1>14,
     <1>15, <1>16, <1>17, <1>18, <1>19 DEF Next

-----------------------------------------------------------------------------
(* How each action moves what is under way.                                *)
CountsOK ==
  /\ Len(puts) \in Nat /\ Len(client_input_queue) \in Nat
  /\ Cardinality(Streams(to_client)) \in Nat

(* What is counted are numbers, before and after a step.                   *)
LEMMA CountsAreNumbers ==
  ASSUME TypeOK, TypeOK'
  PROVE  CountsOK /\ CountsOK' /\ Reading \in 0..1 /\ Reading' \in 0..1
<1>1. /\ puts \in Seq(Nat) /\ client_input_queue \in Seq(Nat) /\ to_client \in Seq(Replies)
      /\ (puts \in Seq(Nat) /\ client_input_queue \in Seq(Nat) /\ to_client \in Seq(Replies))'
  BY DEF TypeOK
<1>2. CountsOK
  BY <1>1, StreamsFinite DEF CountsOK
<1>3. CountsOK'
  BY <1>1, StreamsFinite DEF CountsOK
<1>4. Reading \in 0..1 /\ Reading' \in 0..1
  BY DEF Reading
<1> QED
  BY <1>2, <1>3, <1>4

(* A message that is no chunk counts for nothing, sent or taken.           *)
LEMMA OtherMessages ==
  ASSUME NEW s \in Seq(Replies), NEW m \in Replies, m.type # "STREAM"
  PROVE  Cardinality(Streams(Append(s, m))) = Cardinality(Streams(s))
BY StreamsAppend, StreamsFinite DEF IsStream

(* The steps of the worker, of the sockets and of the faults do not add to *)
(* what is under way.                                                      *)
LEMMA WorkerSteps ==
  ASSUME TypeOK, TypeOK',
         \/ StartTask \/ SendChunk \/ PutInput \/ NextOffset \/ ChunkTimeout \/ AnswerPoll
         \/ LosePut \/ LoseStream \/ ChangeFile
  PROVE  UnderWay' <= UnderWay /\ UNCHANGED transfer
<1> USE DEF CountsOK, UnderWay
<1>0. CountsOK /\ CountsOK' /\ Reading \in 0..1 /\ Reading' \in 0..1
  BY CountsAreNumbers
<1>t. puts \in Seq(Nat) /\ client_input_queue \in Seq(Nat) /\ to_client \in Seq(Replies)
  BY DEF TypeOK
<1>1. CASE StartTask
  <2>1. Reading' = Reading
    BY <1>1 DEF StartTask, Reading
  <2> QED
    BY <1>0, <1>1, <2>1 DEF StartTask
<1>2. CASE SendChunk
  <2>1. Chunk(position, version) \in Replies /\ IsStream(Chunk(position, version)) = 1
    BY DEF TypeOK, Chunk, Replies, ChunksOf, IsStream
  <2>2. Cardinality(Streams(to_client')) <= Cardinality(Streams(to_client)) + 1
    <3>1. CASE position < length
      BY <1>0, <1>2, <1>t, <2>1, <3>1, StreamsAppend DEF SendChunk
    <3>2. CASE ~(position < length)
      BY <1>0, <1>2, <3>2 DEF SendChunk
    <3> QED
      BY <3>1, <3>2
  <2>3. Reading = 1 /\ Reading' = 0
    BY <1>2 DEF SendChunk, End, Reading
  <2>4. UNCHANGED <<puts, client_input_queue, transfer>>
    BY <1>2 DEF SendChunk
  <2> QED
    BY <1>0, <2>2, <2>3, <2>4
<1>3. CASE PutInput
  <2>1. Len(puts') = Len(puts) - 1 /\ Len(client_input_queue') <= Len(client_input_queue) + 1
    BY <1>3, <1>t DEF PutInput
  <2>2. UNCHANGED <<to_client, transfer, task>>
    BY <1>3 DEF PutInput
  <2> QED
    BY <1>0, <2>1, <2>2 DEF Reading
<1>4. CASE NextOffset
  <2>1. Len(client_input_queue') = Len(client_input_queue) - 1
    BY <1>4, <1>t DEF NextOffset
  <2>2. UNCHANGED <<to_client, transfer, puts>>
    BY <1>4 DEF NextOffset
  <2>3. Reading = 0
    BY <1>4 DEF NextOffset, Reading
  <2> QED
    BY <1>0, <2>1, <2>2, <2>3
<1>5. CASE ChunkTimeout
  <2>1. UNCHANGED <<to_client, transfer, puts, client_input_queue>> /\ Reading' = 0
    BY <1>5 DEF ChunkTimeout, End, Reading
  <2> QED
    BY <1>0, <2>1
<1>6. CASE AnswerPoll
  <2> DEFINE m == IF task = "ended" THEN Result(outcome = "failed") ELSE Pending
  <2>1. m \in Replies /\ m.type # "STREAM" /\ to_client' = Append(to_client, m)
    BY <1>6 DEF AnswerPoll, Result, Pending, Replies
  <2>2. UNCHANGED <<transfer, puts, client_input_queue, task>>
    BY <1>6 DEF AnswerPoll, reader
  <2> QED
    BY <1>0, <1>t, <2>1, <2>2, OtherMessages DEF Reading
<1>7. CASE LosePut
  <2>1. Refusal \in Replies /\ Refusal.type # "STREAM"
    BY DEF Refusal, Replies
  <2>2. Cardinality(Streams(to_client')) = Cardinality(Streams(to_client))
    BY <1>7, <1>t, <2>1, OtherMessages DEF LosePut
  <2>3. Len(puts') = Len(puts) - 1
    BY <1>7, <1>t DEF LosePut
  <2>4. UNCHANGED <<transfer, client_input_queue, task>>
    BY <1>7 DEF LosePut, reader
  <2> QED
    BY <1>0, <2>2, <2>3, <2>4 DEF Reading
<1>8. CASE LoseStream
  <2>1. Cardinality(Streams(to_client)) >= Cardinality(Streams(to_client'))
    BY <1>0, <1>8, <1>t, StreamsTail DEF LoseStream, IsStream
  <2>2. UNCHANGED <<transfer, puts, client_input_queue, task>>
    BY <1>8 DEF LoseStream, reader
  <2> QED
    BY <1>0, <2>1, <2>2 DEF Reading
<1>9. CASE ChangeFile
  BY <1>0, <1>9 DEF ChangeFile, reader, Reading
<1> QED
  BY <1>1, <1>2, <1>3, <1>4, <1>5, <1>6, <1>7, <1>8, <1>9

-----------------------------------------------------------------------------
(* The client's steps other than HandleStream leave the account alone too. *)
LEMMA ClientSteps ==
  ASSUME TypeOK, TypeOK',
         \/ Poll \/ HandleAccepted \/ HandlePending \/ HandleResult \/ HandleRefusal
         \/ TakeResult \/ CheckJob \/ GiveUp
  PROVE  UnderWay' = UnderWay /\ UNCHANGED transfer
<1>0. CountsOK /\ CountsOK'
  BY CountsAreNumbers
<1>t. to_client \in Seq(Replies)
  BY DEF TypeOK
<1>1. UNCHANGED <<transfer, puts, client_input_queue, task>>
  BY DEF Poll, HandleAccepted, HandlePending, HandleResult, HandleRefusal, TakeResult, CheckJob,
         GiveUp, TakeFromBroker, reader
<1>2. Cardinality(Streams(to_client')) = Cardinality(Streams(to_client))
  <2>1. CASE Poll
    <3>1. Accepted \in Replies /\ Accepted.type # "STREAM"
      BY DEF Accepted, Replies
    <3> QED
      BY <1>t, <2>1, <3>1, OtherMessages DEF Poll
  <2>2. CASE HandleAccepted \/ HandlePending \/ HandleResult \/ HandleRefusal
    <3>1. to_client # <<>> /\ Head(to_client).type # "STREAM" /\ to_client' = Tail(to_client)
      BY <2>2 DEF HandleAccepted, HandlePending, HandleResult, HandleRefusal, TakeFromBroker
    <3> QED
      BY <1>0, <1>t, <3>1, StreamsTail DEF IsStream, CountsOK
  <2>3. CASE TakeResult \/ CheckJob \/ GiveUp
    BY <2>3 DEF TakeResult, CheckJob, GiveUp
  <2> QED
    BY <2>1, <2>2, <2>3
<1> QED
  BY <1>1, <1>2 DEF UnderWay, Reading

(* A step that leaves the transfer alone keeps the account, if no more is  *)
(* under way after it.                                                     *)
LEMMA AccountStays ==
  ASSUME TypeOK, TypeOK', Account, UnderWay' <= UnderWay,
         UNCHANGED <<credit, offset, chunk_requests_remaining, received, destination>>
  PROVE  Account'
<1>1. UnderWay \in Nat /\ UnderWay' \in Nat
  BY CountsAreNumbers DEF UnderWay, CountsOK
<1>2. credit \in Nat /\ offset \in Nat /\ Len(received) \in Nat
  BY DEF TypeOK
<1>3. credit + UnderWay' <= Pipeline + 1 /\ Len(received) + UnderWay' <= offset + 1
  <2>1. credit + UnderWay <= Pipeline + 1 /\ Len(received) + UnderWay <= offset + 1
    BY DEF Account
  <2>2. \A u, w, c, r, p, o \in Nat :
          w <= u /\ c + u <= p + 1 /\ r + u <= o + 1 => c + w <= p + 1 /\ r + w <= o + 1
    OBVIOUS
  <2> QED
    BY <1>1, <1>2, <2>1, <2>2, FileTransferAssumption
<1> QED
  BY <1>3 DEF Account

(* The account balances when a chunk is handled, and it shows that the     *)
(* file is still open.                                                     *)
LEMMA ChunkStep ==
  ASSUME IInv, TypeOK', HandleStream
  PROVE  Account' /\ ReceiverLives'
<1> USE FileTransferAssumption
<1>0. CountsOK /\ CountsOK' /\ Reading \in 0..1 /\ Reading' = Reading
  BY CountsAreNumbers DEF IInv, HandleStream, TakeFromBroker, reader, Reading
<1>1. /\ credit \in Nat /\ offset \in Nat /\ chunk_requests_remaining \in Nat
      /\ received \in Seq(ChunksOf) /\ destination \in {"open", "closed"}
      /\ puts \in Seq(Nat) /\ to_client \in Seq(Replies)
  BY DEF IInv, TypeOK
<1>2. Cardinality(Streams(to_client)) = Cardinality(Streams(to_client')) + 1
  BY <1>0, <1>1, StreamsTail DEF HandleStream, TakeFromBroker, IsStream, CountsOK
<1>3. UNCHANGED client_input_queue
  BY DEF HandleStream, TakeFromBroker, reader
<1>4. Account /\ ReceiverLives
  BY DEF IInv
<1>u. UnderWay \in Nat \ {0} /\ UnderWay' \in Nat
  BY <1>0, <1>2 DEF UnderWay, CountsOK
<1>5. Len(received) \in Nat /\ Len(received) < Chunks
  <2>1. Len(received) \in Nat
    BY <1>1
  <2>2. Len(received) + UnderWay <= offset + 1 /\ offset <= Chunks - 1
    BY <1>1, <1>4 DEF Account
  <2> QED
    BY <1>1, <1>u, <2>1, <2>2
<1>6. destination = "open"
  BY <1>1, <1>4, <1>5 DEF Account
<1>7. ReceiverLives'
  BY <1>4, <1>6 DEF HandleStream, WriteChunk, ReceiverLives
<1>8. CASE ~WriteChunk
  <2>1. UNCHANGED <<credit, offset, chunk_requests_remaining, received, destination, puts>>
    BY <1>8, <1>6 DEF HandleStream
  <2>2. UnderWay' <= UnderWay
    BY <1>0, <1>2, <1>3, <2>1 DEF UnderWay, CountsOK
  <2>3. TypeOK
    BY DEF IInv
  <2> QED
    BY <1>4, <1>7, <2>1, <2>2, <2>3, AccountStays
<1>9. CASE WriteChunk
  <2>1. Len(received') = Len(received) + 1
    BY <1>1, <1>9, StreamsTail DEF WriteChunk, HandleStream, TakeFromBroker
  <2>2. CASE AllThere(received') /\ LastChunk
    <3>1. UNCHANGED <<offset, chunk_requests_remaining, puts>> /\ credit' = credit + 1
      BY <2>2 DEF LastChunk, Earned
    <3>2. UnderWay' = UnderWay - 1
      BY <1>0, <1>2, <1>3, <3>1 DEF UnderWay, CountsOK
    <3>3. Len(received') >= Chunks
      BY <2>2 DEF AllThere
    <3>4. /\ offset + chunk_requests_remaining = Chunks - 1
          /\ credit + UnderWay <= Pipeline + 1
          /\ Len(received) + UnderWay <= offset + 1
      BY <1>4 DEF Account
    <3>5. credit' + UnderWay' <= Pipeline + 1 /\ Len(received') + UnderWay' <= offset + 1
      BY <1>1, <1>5, <1>u, <2>1, <3>1, <3>2, <3>4
    <3> QED
      BY <1>7, <3>1, <3>3, <3>4, <3>5 DEF Account
  <2>3. CASE ~AllThere(received') /\ RequestMore
    <3> DEFINE n == Smaller(Earned, chunk_requests_remaining)
    <3>1. n \in Nat /\ n <= credit + 1 /\ n <= chunk_requests_remaining
      BY <1>1 DEF Smaller, Earned
    <3>2. /\ offset' = offset + n /\ credit' = Earned - n
          /\ chunk_requests_remaining' = chunk_requests_remaining - n
          /\ puts' = puts \o Offsets(n) /\ destination' = destination
      BY <2>3 DEF RequestMore
    <3>e. Earned = credit + 1
      BY DEF Earned
    <3>3. Len(puts') = Len(puts) + n
      <4>1. Offsets(n) \in [1..n -> Nat]
        BY <1>1, <3>1 DEF Offsets
      <4>2. Offsets(n) \in Seq(Nat) /\ Len(Offsets(n)) = n
        BY <3>1, <4>1
      <4>3. \A t \in Seq(Nat) : Len(puts \o t) = Len(puts) + Len(t)
        BY <1>1
      <4> HIDE DEF n
      <4>4. Len(puts \o Offsets(n)) = Len(puts) + Len(Offsets(n))
        BY <4>2, <4>3
      <4> QED
        BY <3>2, <4>2, <4>4
    <3> HIDE DEF n
    <3>4. UnderWay' = UnderWay - 1 + n
      <4>1. /\ Len(puts) \in Nat /\ Len(client_input_queue) \in Nat /\ n \in Nat
            /\ Cardinality(Streams(to_client')) \in Nat /\ Reading \in 0..1
        BY <1>0, <3>1 DEF CountsOK
      <4>2. UnderWay' = Len(puts) + n + Len(client_input_queue)
                        + Cardinality(Streams(to_client')) + Reading
        BY <1>0, <1>3, <3>3 DEF UnderWay
      <4> QED
        BY <1>2, <4>1, <4>2, SMTT(30) DEF UnderWay
    <3>5. UnderWay \in Nat
      BY <1>0 DEF UnderWay, CountsOK
    <3> QED
      BY <1>1, <1>4, <1>5, <1>6, <1>7, <2>1, <3>1, <3>2, <3>e, <3>4, <3>5 DEF Account
  <2> QED
    BY <1>9, <2>2, <2>3 DEF WriteChunk
<1> QED
  BY <1>8, <1>9

-----------------------------------------------------------------------------
(* Every step keeps the invariant.                                         *)
LEMMA StepInv == IInv /\ [Next]_vars => IInv'
<1> SUFFICES ASSUME IInv, [Next]_vars PROVE IInv'
  OBVIOUS
<1>0. TypeOK /\ TypeOK' /\ Account /\ ReceiverLives
  BY TypeStep DEF IInv
<1>1. ASSUME UNCHANGED transfer, UnderWay' <= UnderWay PROVE Account' /\ ReceiverLives'
  <2>1. UNCHANGED <<credit, offset, chunk_requests_remaining, received, destination, receiver>>
    BY <1>1 DEF transfer
  <2> QED
    BY <1>0, <1>1, <2>1, AccountStays DEF ReceiverLives
<1>2. CASE HandleStream
  BY <1>0, <1>2, ChunkStep DEF IInv
<1>3. CASE \/ StartTask \/ SendChunk \/ PutInput \/ NextOffset \/ ChunkTimeout \/ AnswerPoll
           \/ LosePut \/ LoseStream \/ ChangeFile
  BY <1>0, <1>1, <1>3, WorkerSteps DEF IInv
<1>4. CASE \/ Poll \/ HandleAccepted \/ HandlePending \/ HandleResult \/ HandleRefusal
           \/ TakeResult \/ CheckJob \/ GiveUp
  <2>1. UNCHANGED transfer /\ UnderWay' = UnderWay
    BY <1>0, <1>4, ClientSteps
  <2>2. UnderWay \in Nat
    BY <1>0, CountsAreNumbers DEF UnderWay, CountsOK
  <2> QED
    BY <1>0, <1>1, <2>1, <2>2 DEF IInv
<1>5. CASE UNCHANGED vars
  <2>1. UNCHANGED <<transfer, puts, client_input_queue, to_client, task>>
    BY <1>5 DEF vars, reader
  <2>2. UnderWay' = UnderWay
    BY <2>1 DEF UnderWay, Reading
  <2>3. UnderWay \in Nat
    BY <1>0, CountsAreNumbers DEF UnderWay, CountsOK
  <2> QED
    BY <1>0, <1>1, <2>1, <2>2, <2>3 DEF IInv
<1> QED
  BY <1>2, <1>3, <1>4, <1>5 DEF Next

(* The invariant holds in every behaviour.                                 *)
LEMMA InvAlways == Spec => []IInv
BY InitInv, StepInv, PTL DEF Spec

-----------------------------------------------------------------------------
(* Every variable keeps its shape.                                         *)
THEOREM TypeCorrect == Spec => []TypeOK
<1>1. IInv => TypeOK
  BY DEF IInv
<1> QED
  BY <1>1, InvAlways, PTL

(* At most the pipeline and one more chunk are under way, and no chunk is  *)
(* asked for past the end of the file (handle_stream's credits).           *)
THEOREM WindowKept == Spec => []WindowIsKept
<1>1. IInv => WindowIsKept
  <2> SUFFICES ASSUME IInv PROVE WindowIsKept
    OBVIOUS
  <2>1. credit \in Nat /\ offset \in Nat /\ chunk_requests_remaining \in Nat
    BY DEF IInv, TypeOK
  <2>2. UnderWay \in Nat
    <3>1. puts \in Seq(Nat) /\ client_input_queue \in Seq(Nat) /\ to_client \in Seq(Replies)
      BY DEF IInv, TypeOK
    <3> QED
      BY <3>1, StreamsFinite DEF UnderWay, Reading
  <2> QED
    BY <2>1, <2>2, FileTransferAssumption DEF IInv, Account, WindowIsKept
<1> QED
  BY <1>1, InvAlways, PTL

(* The recv thread never writes to a file it has closed, whatever is lost  *)
(* and however the file on the worker changes (handle_stream).             *)
THEOREM ReceiverSurvives == Spec => []ReceiverLives
<1>1. IInv => ReceiverLives
  BY DEF IInv
<1> QED
  BY <1>1, InvAlways, PTL

-----------------------------------------------------------------------------
(* The inductive invariant of GoodIsWhole.  The numbers rise along the     *)
(* whole way of a chunk: written, on its way, being read, and the offsets  *)
(* asked for and not read yet.                                             *)
IsChunk(m) == m.type = "STREAM"
Rising(s) == \A i, k \in 1..Len(s) : i < k => s[i] < s[k]

(* The first number that was not sent yet.                                 *)
Ahead == IF task \in {"queued", "reading"} THEN position ELSE position + 1

ChunksRise ==
  /\ InOrder
  /\ \A i, k \in 1..Len(to_client) :
       i < k /\ IsChunk(to_client[i]) /\ IsChunk(to_client[k])
         => to_client[i].number < to_client[k].number
  /\ \A i \in 1..Len(received), k \in 1..Len(to_client) :
       IsChunk(to_client[k]) => received[i].number < to_client[k].number
  /\ \A i \in 1..Len(received) : received[i].number < Ahead
  /\ \A k \in 1..Len(to_client) : IsChunk(to_client[k]) => to_client[k].number < Ahead

OffsetsRise ==
  /\ position <= offset
  /\ Rising(client_input_queue) /\ Rising(puts)
  /\ \A i \in 1..Len(client_input_queue) :
       position < client_input_queue[i] /\ client_input_queue[i] <= offset
  /\ \A i \in 1..Len(puts) : position < puts[i] /\ puts[i] <= offset
  /\ \A i \in 1..Len(client_input_queue), k \in 1..Len(puts) : client_input_queue[i] < puts[k]

(* Without a fault the file stays as it was.                               *)
FileStays ==
  faults = 0 =>
    /\ version = 1 /\ length = Chunks /\ (task # "queued" => size = Chunks)
    /\ \A i \in 1..Len(received) : received[i].version = 1
    /\ \A k \in 1..Len(to_client) : IsChunk(to_client[k]) => to_client[k].version = 1

(* The result comes after all chunks.                                      *)
ResultIsLast ==
  /\ \A i \in 1..Len(to_client) : to_client[i].type = "RESULT" =>
       /\ task = "ended" /\ (~to_client[i].failed => outcome = "ok")
       /\ \A k \in 1..Len(to_client) : i < k => ~IsChunk(to_client[k])
  /\ task = "ended" <=> outcome # "none"
  /\ faults = 0 /\ outcome = "ok" => position + 1 >= Chunks

(* Without a fault no number is missing on that way, unless the worker     *)
(* gave up.                                                                *)
Somewhere(n) ==
  \/ \E k \in 1..Len(to_client) : IsChunk(to_client[k]) /\ to_client[k].number = n
  \/ task \in {"queued", "reading"} /\ n = position
  \/ \E i \in 1..Len(client_input_queue) : client_input_queue[i] = n
  \/ \E i \in 1..Len(puts) : puts[i] = n

NothingIsMissing ==
  faults = 0 /\ outcome # "failed" /\ caller = "waiting" =>
    /\ \A i \in 1..Len(received) : received[i].number = i - 1
    /\ \A n \in Nat : Len(received) <= n /\ n <= offset => Somewhere(n)

CompletedIsWhole ==
  /\ faults = 0 /\ status = "COMPLETED" /\ ~failed /\ caller = "waiting" => Whole
  /\ faults = 0 /\ caller \in {"checking", "200"} => Whole

WholeInv ==
  ChunksRise /\ OffsetsRise /\ FileStays /\ ResultIsLast /\ NothingIsMissing /\ CompletedIsWhole

-----------------------------------------------------------------------------
(* The rest of a sequence, and a sequence with one more.                   *)
LEMMA TailElements ==
  ASSUME NEW S, NEW s \in Seq(S), s # <<>>
  PROVE  /\ Tail(s) \in Seq(S) /\ Len(s) \in Nat \ {0} /\ Len(Tail(s)) = Len(s) - 1
         /\ Head(s) = s[1] /\ s[1] \in S
         /\ \A i \in 1..Len(Tail(s)) : i + 1 \in 1..Len(s) /\ Tail(s)[i] = s[i + 1]
OBVIOUS

LEMMA AppendElements ==
  ASSUME NEW S, NEW s \in Seq(S), NEW m \in S
  PROVE  /\ Append(s, m) \in Seq(S) /\ Len(s) \in Nat /\ Len(Append(s, m)) = Len(s) + 1
         /\ Append(s, m)[Len(s) + 1] = m
         /\ \A i \in 1..Len(s) : Append(s, m)[i] = s[i]
OBVIOUS

LEMMA RisingTail ==
  ASSUME NEW s \in Seq(Nat), s # <<>>, Rising(s)
  PROVE  Rising(Tail(s)) /\ \A i \in 1..Len(Tail(s)) : Head(s) < Tail(s)[i]
BY TailElements DEF Rising

(* What the types say of the two sequences of chunks.                      *)
LEMMA ChunkTypes ==
  ASSUME TypeOK
  PROVE  /\ received \in Seq(ChunksOf) /\ to_client \in Seq(Replies)
         /\ Len(received) \in Nat /\ Len(to_client) \in Nat
         /\ \A i \in 1..Len(received) : received[i].number \in Nat /\ received[i].type = "STREAM"
         /\ \A k \in 1..Len(to_client) : IsChunk(to_client[k]) => to_client[k].number \in Nat
         /\ \A k \in 1..Len(to_client) : IsChunk(to_client[k]) => to_client[k] \in ChunksOf
         /\ position \in Nat /\ offset \in Nat /\ Ahead \in Nat
<1>1. \A m \in Replies : IsChunk(m) => m \in ChunksOf /\ m.number \in Nat
  BY DEF Replies, ChunksOf, IsChunk, Refusal, Accepted, Pending
<1>2. \A m \in ChunksOf : m.number \in Nat /\ m.type = "STREAM"
  BY DEF ChunksOf
<1>3. /\ received \in Seq(ChunksOf) /\ to_client \in Seq(Replies)
      /\ position \in Nat /\ offset \in Nat
  BY DEF TypeOK
<1>4. /\ \A i \in 1..Len(received) : received[i] \in ChunksOf
      /\ \A k \in 1..Len(to_client) : to_client[k] \in Replies
  BY <1>3
<1> QED
  BY <1>1, <1>2, <1>3, <1>4 DEF Ahead

-----------------------------------------------------------------------------
(* A message that is taken, and one that is no chunk and is sent, leave    *)
(* the order of the chunks as it was.                                      *)
LEMMA TakenKeepsOrder ==
  ASSUME TypeOK, ChunksRise, to_client # <<>>, to_client' = Tail(to_client),
         received' = received, Ahead' = Ahead
  PROVE  ChunksRise'
BY ChunkTypes, TailElements DEF ChunksRise, InOrder

LEMMA SentKeepsOrder ==
  ASSUME TypeOK, ChunksRise, NEW m \in Replies, ~IsChunk(m), to_client' = Append(to_client, m),
         received' = received, Ahead' = Ahead
  PROVE  ChunksRise'
BY ChunkTypes, AppendElements DEF ChunksRise, InOrder

(* No step breaks the order of the chunks.                                 *)
LEMMA ChunksStep ==
  ASSUME IInv, ChunksRise, OffsetsRise, Next
  PROVE  ChunksRise'
<1>t. TypeOK
  BY DEF IInv
<1>0. ASSUME UNCHANGED <<to_client, received>>, Ahead' \in Nat, Ahead <= Ahead'
      PROVE  ChunksRise'
  BY <1>t, <1>0, ChunkTypes DEF ChunksRise, InOrder
<1>s. ASSUME UNCHANGED <<to_client, received, position>>,
             task' = task \/ {task, task'} \subseteq {"queued", "reading"}
                          \/ {task, task'} \subseteq {"waiting", "ended"}
      PROVE  ChunksRise'
  <2>1. Ahead' = Ahead
    BY <1>s DEF Ahead
  <2> QED
    BY <1>0, <1>s, <1>t, <2>1, ChunkTypes
<1>1. CASE StartTask
  BY <1>s, <1>1 DEF StartTask, transfer
<1>2. CASE SendChunk
  <2>1. received' = received /\ position' = position /\ Ahead = position /\ Ahead' = position + 1
    BY <1>2 DEF SendChunk, transfer, Ahead, End
  <2>2. CASE position < length
    <3>1. Chunk(position, version) \in Replies /\ Chunk(position, version).number = position
      BY <1>t DEF TypeOK, Chunk, Replies, ChunksOf
    <3>2. to_client' = Append(to_client, Chunk(position, version))
      BY <1>2, <2>2 DEF SendChunk
    <3> DEFINE m == Chunk(position, version)
    <3>3. /\ Len(to_client') = Len(to_client) + 1 /\ to_client'[Len(to_client) + 1] = m
          /\ \A i \in 1..Len(to_client) : to_client'[i] = to_client[i]
      BY <1>t, <3>1, <3>2, ChunkTypes, AppendElements
    <3>4. \A k \in 1..Len(to_client') : k \in 1..Len(to_client) \/ k = Len(to_client) + 1
      BY <1>t, <3>3, ChunkTypes
    <3> HIDE DEF m
    <3>5. m.number = position
      BY <3>1 DEF m
    <3>6. \A i, k \in 1..Len(to_client') :
             i < k /\ IsChunk(to_client'[i]) /\ IsChunk(to_client'[k])
               => to_client'[i].number < to_client'[k].number
      <4> SUFFICES ASSUME NEW i \in 1..Len(to_client'), NEW k \in 1..Len(to_client'), i < k,
                          IsChunk(to_client'[i]), IsChunk(to_client'[k])
                   PROVE  to_client'[i].number < to_client'[k].number
        OBVIOUS
      <4>1. i \in 1..Len(to_client)
        BY <1>t, <3>3, <3>4, ChunkTypes
      <4>2. to_client[i].number < position
        BY <2>1, <3>3, <4>1 DEF ChunksRise
      <4>3. CASE k = Len(to_client) + 1
        BY <3>3, <3>5, <4>1, <4>2, <4>3
      <4>4. CASE k \in 1..Len(to_client)
        BY <3>3, <4>1, <4>4 DEF ChunksRise
      <4> QED
        BY <3>4, <4>3, <4>4
    <3>7. \A i \in 1..Len(received), k \in 1..Len(to_client') :
             IsChunk(to_client'[k]) => received[i].number < to_client'[k].number
      BY <2>1, <3>3, <3>4, <3>5 DEF ChunksRise
    <3>8. \A i \in 1..Len(received) : received[i].number < Ahead'
      BY <1>t, <2>1, ChunkTypes DEF ChunksRise
    <3>9. \A k \in 1..Len(to_client') : IsChunk(to_client'[k]) => to_client'[k].number < Ahead'
      <4> SUFFICES ASSUME NEW k \in 1..Len(to_client'), IsChunk(to_client'[k])
                   PROVE  to_client'[k].number < position + 1
        BY <2>1
      <4>1. position \in Nat
        BY <1>t, ChunkTypes
      <4>2. CASE k = Len(to_client) + 1
        BY <3>3, <3>5, <4>1, <4>2
      <4>3. CASE k \in 1..Len(to_client)
        <5>1. to_client'[k] = to_client[k]
          BY <3>3, <4>3
        <5>2. to_client[k].number \in Nat /\ to_client[k].number < position
          BY <1>t, <2>1, <4>3, <5>1, ChunkTypes DEF ChunksRise
        <5> QED
          BY <4>1, <5>1, <5>2
      <4> QED
        BY <3>4, <4>2, <4>3
    <3> QED
      BY <2>1, <3>6, <3>7, <3>8, <3>9 DEF ChunksRise, InOrder, IsChunk
  <2>3. CASE ~(position < length)
    <3>1. to_client' = to_client
      BY <1>2, <2>3 DEF SendChunk
    <3> QED
      BY <1>0, <1>t, <2>1, <3>1, ChunkTypes
  <2> QED
    BY <2>2, <2>3
<1>3. CASE PutInput
  BY <1>s, <1>3 DEF PutInput, transfer
<1>4. CASE NextOffset
  <2>1. UNCHANGED <<to_client, received>> /\ Ahead = position + 1 /\ Ahead' = position'
    BY <1>4 DEF NextOffset, transfer, Ahead
  <2>2. position' \in Nat /\ position < position'
    BY <1>t, <1>4 DEF NextOffset, OffsetsRise, TypeOK
  <2> QED
    BY <1>0, <1>t, <2>1, <2>2, ChunkTypes
<1>5. CASE ChunkTimeout
  BY <1>s, <1>5 DEF ChunkTimeout, End, transfer
<1>6. CASE AnswerPoll \/ Poll
  <2>1. UNCHANGED <<received, position, task>>
    BY <1>6 DEF AnswerPoll, Poll, transfer, reader
  <2>2. PICK m \in Replies : ~IsChunk(m) /\ to_client' = Append(to_client, m)
    BY <1>6 DEF AnswerPoll, Poll, IsChunk, Replies, Result, Pending, Accepted
  <2> QED
    BY <1>t, <2>1, <2>2, SentKeepsOrder DEF Ahead
<1>7. CASE LosePut
  <2>1. UNCHANGED <<received, position, task>>
    BY <1>7 DEF LosePut, transfer, reader
  <2>2. Refusal \in Replies /\ ~IsChunk(Refusal)
    BY DEF Refusal, Replies, IsChunk
  <2>3. CASE to_client' = Append(to_client, Refusal)
    BY <1>t, <2>1, <2>2, <2>3, SentKeepsOrder DEF Ahead
  <2> QED
    BY <1>s, <1>7, <2>1, <2>3 DEF LosePut
<1>8. CASE HandleAccepted \/ HandlePending \/ HandleResult \/ HandleRefusal \/ LoseStream
  <2>1. UNCHANGED <<received, position, task>>
    BY <1>8 DEF HandleAccepted, HandlePending, HandleResult, HandleRefusal, LoseStream,
                TakeFromBroker, transfer, reader
  <2>2. to_client # <<>> /\ to_client' = Tail(to_client)
    BY <1>8 DEF HandleAccepted, HandlePending, HandleResult, HandleRefusal, LoseStream,
                TakeFromBroker
  <2> QED
    BY <1>t, <2>1, <2>2, TakenKeepsOrder DEF Ahead
<1>9. CASE HandleStream
  <2>1. /\ to_client # <<>> /\ to_client' = Tail(to_client) /\ IsChunk(Head(to_client))
        /\ Ahead' = Ahead
    BY <1>9 DEF HandleStream, TakeFromBroker, IsChunk, reader, Ahead
  <2>2. CASE received' = received
    BY <1>t, <2>1, <2>2, TakenKeepsOrder
  <2>3. CASE received' = Append(received, Head(to_client))
    <3> DEFINE m == Head(to_client)
    <3>1. /\ m = to_client[1] /\ Len(to_client) \in Nat \ {0} /\ Len(to_client') = Len(to_client) - 1
          /\ \A i \in 1..Len(to_client') : i + 1 \in 1..Len(to_client) /\ to_client'[i] = to_client[i + 1]
      BY <1>t, <2>1, ChunkTypes, TailElements
    <3>2. m \in ChunksOf /\ m.number \in Nat
      BY <1>t, <2>1, <3>1, ChunkTypes
    <3>3. /\ Len(received') = Len(received) + 1 /\ received'[Len(received) + 1] = m
          /\ \A i \in 1..Len(received) : received'[i] = received[i]
      BY <1>t, <2>3, <3>2, ChunkTypes, AppendElements
    <3>4. \A k \in 1..Len(received') : k \in 1..Len(received) \/ k = Len(received) + 1
      BY <1>t, <3>3, ChunkTypes
    <3>5. /\ \A i \in 1..Len(received) : received[i].number < m.number
          /\ m.number < Ahead
          /\ \A k \in 1..Len(to_client') : IsChunk(to_client'[k]) => m.number < to_client'[k].number
      <4>1. 1 \in 1..Len(to_client)
        BY <3>1
      <4>2. \A k \in 1..Len(to_client') : 1 < k + 1
        BY <3>1
      <4> QED
        BY <2>1, <3>1, <4>1, <4>2 DEF ChunksRise
    <3> HIDE DEF m
    <3>6. InOrder'
      BY <1>t, <3>2, <3>3, <3>4, <3>5, ChunkTypes DEF ChunksRise, InOrder
    <3>7. \A i, k \in 1..Len(to_client') :
             i < k /\ IsChunk(to_client'[i]) /\ IsChunk(to_client'[k])
               => to_client'[i].number < to_client'[k].number
      <4> SUFFICES ASSUME NEW i \in 1..Len(to_client'), NEW k \in 1..Len(to_client'), i < k,
                          IsChunk(to_client'[i]), IsChunk(to_client'[k])
                   PROVE  to_client'[i].number < to_client'[k].number
        OBVIOUS
      <4>1. i + 1 < k + 1 /\ i + 1 \in 1..Len(to_client) /\ k + 1 \in 1..Len(to_client)
        BY <3>1
      <4> QED
        BY <3>1, <4>1 DEF ChunksRise
    <3>8. \A i \in 1..Len(received'), k \in 1..Len(to_client') :
             IsChunk(to_client'[k]) => received'[i].number < to_client'[k].number
      BY <1>t, <3>1, <3>3, <3>4, <3>5, ChunkTypes DEF ChunksRise
    <3>9. \A i \in 1..Len(received') : received'[i].number < Ahead'
      BY <2>1, <3>3, <3>4, <3>5 DEF ChunksRise
    <3>10. \A k \in 1..Len(to_client') : IsChunk(to_client'[k]) => to_client'[k].number < Ahead'
      BY <2>1, <3>1 DEF ChunksRise
    <3> QED
      BY <3>6, <3>7, <3>8, <3>9, <3>10 DEF ChunksRise, IsChunk
  <2> QED
    BY <1>9, <2>2, <2>3 DEF HandleStream, WriteChunk
<1>10. CASE TakeResult \/ CheckJob \/ GiveUp \/ ChangeFile
  BY <1>s, <1>10 DEF TakeResult, CheckJob, GiveUp, ChangeFile, transfer, reader
<1> QED
  BY <1>1, <1>2, <1>3, <1>4, <1>5, <1>6, <1>7, <1>8, <1>9, <1>10 DEF Next

-----------------------------------------------------------------------------
(* More is asked for by a sequence of offsets, one after the other.        *)
LEMMA AskedElements ==
  ASSUME TypeOK, NEW n \in Nat
  PROVE  /\ Offsets(n) \in Seq(Nat) /\ Len(Offsets(n)) = n
         /\ \A i \in 1..n : Offsets(n)[i] = offset + i
<1>1. offset \in Nat
  BY DEF TypeOK
<1>2. Offsets(n) \in [1..n -> Nat]
  BY <1>1 DEF Offsets
<1> QED
  BY <1>2 DEF Offsets

LEMMA ConcatElements ==
  ASSUME NEW s \in Seq(Nat), NEW t \in Seq(Nat)
  PROVE  /\ s \o t \in Seq(Nat) /\ Len(s) \in Nat /\ Len(t) \in Nat /\ Len(s \o t) = Len(s) + Len(t)
         /\ \A i \in 1..Len(s \o t) : (s \o t)[i] = IF i <= Len(s) THEN s[i] ELSE t[i - Len(s)]
OBVIOUS

(* No step breaks the order of the offsets.                                *)
LEMMA OffsetsStep ==
  ASSUME IInv, OffsetsRise, Next
  PROVE  OffsetsRise'
<1>t. /\ TypeOK /\ position \in Nat /\ offset \in Nat
      /\ puts \in Seq(Nat) /\ client_input_queue \in Seq(Nat)
  BY DEF IInv, TypeOK
<1>0. ASSUME UNCHANGED <<position, offset, client_input_queue, puts>>
      PROVE  OffsetsRise'
  BY <1>0 DEF OffsetsRise, Rising
<1>1. CASE PutInput
  <2>1. UNCHANGED <<position, offset>> /\ puts # <<>> /\ puts' = Tail(puts)
    BY <1>1 DEF PutInput, transfer
  <2>2. /\ Len(puts) \in Nat \ {0} /\ Len(puts') = Len(puts) - 1 /\ Head(puts) = puts[1]
        /\ \A i \in 1..Len(puts') : i + 1 \in 1..Len(puts) /\ puts'[i] = puts[i + 1]
    BY <1>t, <2>1, TailElements
  <2>3. Rising(puts') /\ \A i \in 1..Len(puts') : Head(puts) < puts'[i]
    BY <1>t, <2>1, RisingTail DEF OffsetsRise
  <2>4. \A i \in 1..Len(puts') : position < puts'[i] /\ puts'[i] <= offset
    BY <2>2 DEF OffsetsRise
  <2>5. \A i \in 1..Len(client_input_queue), k \in 1..Len(puts') : client_input_queue[i] < puts'[k]
    BY <2>2 DEF OffsetsRise
  <2>6. CASE client_input_queue' = client_input_queue
    BY <2>1, <2>3, <2>4, <2>5, <2>6 DEF OffsetsRise, Rising
  <2>7. CASE client_input_queue' = Append(client_input_queue, Head(puts))
    <3> DEFINE q == client_input_queue
               m == Head(puts)
    <3>1. 1 \in 1..Len(puts) /\ m \in Nat
      BY <1>t, <2>2
    <3>2. position < m /\ m <= offset /\ \A i \in 1..Len(q) : q[i] < m
      BY <2>2, <3>1 DEF OffsetsRise
    <3>3. /\ Len(q') = Len(q) + 1 /\ q'[Len(q) + 1] = m /\ Len(q) \in Nat
          /\ \A i \in 1..Len(q) : q'[i] = q[i]
      BY <1>t, <2>7, <3>1, AppendElements
    <3>4. \A i \in 1..Len(q') : i \in 1..Len(q) \/ i = Len(q) + 1
      BY <3>3
    <3>5. Rising(q')
      <4> SUFFICES ASSUME NEW i \in 1..Len(q'), NEW k \in 1..Len(q'), i < k PROVE q'[i] < q'[k]
        BY DEF Rising
      <4>1. i \in 1..Len(q)
        BY <3>3, <3>4
      <4>2. CASE k = Len(q) + 1
        BY <3>2, <3>3, <4>1, <4>2
      <4>3. CASE k \in 1..Len(q)
        BY <3>3, <4>1, <4>3 DEF OffsetsRise, Rising
      <4> QED
        BY <3>4, <4>2, <4>3
    <3>6. \A i \in 1..Len(q') : position < q'[i] /\ q'[i] <= offset
      BY <3>2, <3>3, <3>4 DEF OffsetsRise
    <3>7. \A i \in 1..Len(q'), k \in 1..Len(puts') : q'[i] < puts'[k]
      BY <2>3, <2>5, <3>3, <3>4
    <3> QED
      BY <2>1, <2>3, <2>4, <3>5, <3>6, <3>7 DEF OffsetsRise, Rising
  <2> QED
    BY <1>1, <2>6, <2>7 DEF PutInput
<1>2. CASE NextOffset
  <2>1. /\ UNCHANGED <<offset, puts>> /\ client_input_queue # <<>>
        /\ client_input_queue' = Tail(client_input_queue) /\ position' = Head(client_input_queue)
    BY <1>2 DEF NextOffset, transfer
  <2> DEFINE q == client_input_queue
  <2>2. /\ Len(q) \in Nat \ {0} /\ Len(q') = Len(q) - 1 /\ Head(q) = q[1] /\ 1 \in 1..Len(q)
        /\ \A i \in 1..Len(q') : i + 1 \in 1..Len(q) /\ q'[i] = q[i + 1]
    BY <1>t, <2>1, TailElements
  <2>3. Rising(q') /\ \A i \in 1..Len(q') : position' < q'[i]
    BY <1>t, <2>1, RisingTail DEF OffsetsRise
  <2>4. position' <= offset /\ \A i \in 1..Len(q') : q'[i] <= offset
    BY <2>1, <2>2 DEF OffsetsRise
  <2>5. \A i \in 1..Len(puts) : position' < puts[i] /\ puts[i] <= offset
    BY <2>1, <2>2 DEF OffsetsRise
  <2>6. \A i \in 1..Len(q'), k \in 1..Len(puts) : q'[i] < puts[k]
    BY <2>2 DEF OffsetsRise
  <2> QED
    BY <2>1, <2>3, <2>4, <2>5, <2>6 DEF OffsetsRise, Rising
<1>3. CASE LosePut
  <2>1. UNCHANGED <<position, offset, client_input_queue>> /\ puts # <<>> /\ puts' = Tail(puts)
    BY <1>3 DEF LosePut, transfer, reader
  <2>2. /\ \A i \in 1..Len(puts') : i + 1 \in 1..Len(puts) /\ puts'[i] = puts[i + 1]
    BY <1>t, <2>1, TailElements
  <2>3. Rising(puts')
    BY <1>t, <2>1, RisingTail DEF OffsetsRise
  <2> QED
    BY <2>1, <2>2, <2>3 DEF OffsetsRise, Rising
<1>4. CASE HandleStream
  <2>1. UNCHANGED <<position, client_input_queue>>
    BY <1>4 DEF HandleStream, TakeFromBroker, reader
  <2>2. CASE RequestMore
    <3> DEFINE n == Smaller(Earned, chunk_requests_remaining)
    <3>1. n \in Nat
      <4>1. credit \in Nat /\ chunk_requests_remaining \in Nat
        BY <1>t DEF TypeOK
      <4> QED
        BY <4>1 DEF Smaller, Earned
    <3>2. puts' = puts \o Offsets(n) /\ offset' = offset + n
      BY <2>2 DEF RequestMore
    <3>3. /\ Offsets(n) \in Seq(Nat) /\ Len(Offsets(n)) = n
          /\ \A i \in 1..n : Offsets(n)[i] = offset + i
      BY <1>t, <3>1, AskedElements
    <3> HIDE DEF n
    <3>4. /\ Len(puts) \in Nat /\ Len(puts') = Len(puts) + n
          /\ \A i \in 1..Len(puts') :
               puts'[i] = IF i <= Len(puts) THEN puts[i] ELSE offset + (i - Len(puts))
      <4>1. /\ Len(puts) \in Nat /\ Len(puts') = Len(puts) + n
            /\ \A i \in 1..Len(puts') :
                 puts'[i] = IF i <= Len(puts) THEN puts[i] ELSE Offsets(n)[i - Len(puts)]
        BY <1>t, <3>2, <3>3, ConcatElements
      <4>2. \A i \in 1..Len(puts') : ~(i <= Len(puts)) => i - Len(puts) \in 1..n
        BY <3>1, <4>1
      <4> QED
        BY <3>3, <4>1, <4>2
    <3>5. \A i \in 1..Len(puts) : puts[i] \in Nat
      BY <1>t
    <3>6. Rising(puts')
      <4> SUFFICES ASSUME NEW i \in 1..Len(puts'), NEW k \in 1..Len(puts'), i < k
                   PROVE  puts'[i] < puts'[k]
        BY DEF Rising
      <4>1. CASE k <= Len(puts)
        <5>1. i \in 1..Len(puts) /\ k \in 1..Len(puts)
          BY <3>1, <3>4, <4>1
        <5> QED
          BY <3>4, <5>1 DEF OffsetsRise, Rising
      <4>2. CASE ~(k <= Len(puts)) /\ i <= Len(puts)
        <5>1. i \in 1..Len(puts) /\ puts[i] <= offset /\ puts[i] \in Nat
          BY <3>1, <3>4, <3>5, <4>2 DEF OffsetsRise
        <5> QED
          BY <1>t, <3>1, <3>4, <4>2, <5>1
      <4>3. CASE ~(i <= Len(puts))
        BY <1>t, <3>1, <3>4, <4>3
      <4> QED
        BY <3>1, <3>4, <4>1, <4>2, <4>3
    <3>7. \A i \in 1..Len(puts') : position < puts'[i] /\ puts'[i] <= offset'
      <4> SUFFICES ASSUME NEW i \in 1..Len(puts') PROVE position < puts'[i] /\ puts'[i] <= offset'
        OBVIOUS
      <4>1. CASE i <= Len(puts)
        <5>1. i \in 1..Len(puts) /\ position < puts[i] /\ puts[i] <= offset /\ puts[i] \in Nat
          BY <3>1, <3>4, <3>5, <4>1 DEF OffsetsRise
        <5> QED
          BY <1>t, <3>1, <3>2, <3>4, <4>1, <5>1
      <4>2. CASE ~(i <= Len(puts))
        <5>1. position <= offset
          BY DEF OffsetsRise
        <5> QED
          BY <1>t, <3>1, <3>2, <3>4, <4>2, <5>1
      <4> QED
        BY <3>1, <3>4, <4>1, <4>2
    <3>8. \A i \in 1..Len(client_input_queue) :
            /\ client_input_queue[i] <= offset'
            /\ \A k \in 1..Len(puts') : client_input_queue[i] < puts'[k]
      <4> SUFFICES ASSUME NEW i \in 1..Len(client_input_queue), NEW k \in 1..Len(puts')
                   PROVE  client_input_queue[i] <= offset + n /\ client_input_queue[i] < puts'[k]
        <5>1. \A i \in 1..Len(client_input_queue) : client_input_queue[i] <= offset + n
          BY <1>t, <3>1 DEF OffsetsRise
        <5> QED
          BY <3>2, <5>1
      <4>1. client_input_queue[i] <= offset /\ client_input_queue[i] \in Nat /\ offset \in Nat
        BY <1>t DEF OffsetsRise
      <4>2. CASE k <= Len(puts)
        <5>1. k \in 1..Len(puts)
          BY <3>4, <4>2
        <5>2. puts'[k] = puts[k]
          BY <3>4, <4>2
        <5>3. client_input_queue[i] < puts[k]
          BY <5>1 DEF OffsetsRise
        <5>4. client_input_queue[i] <= offset + n
          BY <3>1, <4>1
        <5> QED
          BY <5>2, <5>3, <5>4
      <4>3. CASE ~(k <= Len(puts))
        <5>1. puts'[k] = offset + (k - Len(puts))
          BY <3>4, <4>3
        <5>2. k - Len(puts) \in Nat \ {0}
          BY <3>1, <3>4, <4>3
        <5>3. client_input_queue[i] < offset + (k - Len(puts)) /\ client_input_queue[i] <= offset + n
          BY <3>1, <4>1, <5>2
        <5> QED
          BY <5>1, <5>3
      <4> QED
        BY <3>1, <3>4, <4>2, <4>3
    <3>9. position <= offset'
      BY <1>t, <3>1, <3>2 DEF OffsetsRise
    <3> QED
      BY <2>1, <3>6, <3>7, <3>8, <3>9 DEF OffsetsRise, Rising
  <2>3. CASE ~RequestMore
    BY <1>0, <1>4, <2>1, <2>3 DEF HandleStream, WriteChunk, LastChunk
  <2> QED
    BY <2>2, <2>3
<1>5. CASE \/ StartTask \/ SendChunk \/ ChunkTimeout \/ AnswerPoll \/ Poll \/ HandleAccepted
           \/ HandlePending \/ HandleResult \/ HandleRefusal \/ TakeResult \/ CheckJob \/ GiveUp
           \/ LoseStream \/ ChangeFile
  BY <1>0, <1>5 DEF StartTask, SendChunk, End, ChunkTimeout, AnswerPoll, Poll, HandleAccepted,
       HandlePending, HandleResult, HandleRefusal, TakeResult, CheckJob, GiveUp, LoseStream,
       ChangeFile, TakeFromBroker, transfer, reader
<1> QED
  BY <1>1, <1>2, <1>3, <1>4, <1>5 DEF Next

-----------------------------------------------------------------------------
(* A message that is taken, and one that is sent and no chunk of another   *)
(* version, show no other version; without a fault nothing changes the     *)
(* file.                                                                   *)
LEMMA FileStep ==
  ASSUME IInv, FileStays, Next
  PROVE  FileStays'
<1>t. /\ TypeOK /\ to_client \in Seq(Replies) /\ received \in Seq(ChunksOf) /\ faults \in Nat
      /\ Len(to_client) \in Nat
  <2>1. TypeOK /\ to_client \in Seq(Replies) /\ received \in Seq(ChunksOf) /\ faults \in 0..MaxFaults
    BY DEF IInv, TypeOK
  <2> QED
    BY <2>1, FileTransferAssumption
<1>f. SUFFICES ASSUME faults' = 0 PROVE FileStays'
  BY DEF FileStays
<1>1. faults = 0 /\ ~LosePut /\ ~LoseStream /\ ~ChangeFile
  <2>1. CASE LosePut \/ LoseStream \/ ChangeFile
    BY <1>f, <1>t, <2>1 DEF LosePut, LoseStream, ChangeFile, Fault
  <2>2. CASE ~(LosePut \/ LoseStream \/ ChangeFile)
    BY <1>f, <2>2 DEF Next, StartTask, SendChunk, PutInput, NextOffset, ChunkTimeout, AnswerPoll,
       Poll, HandleStream, HandleAccepted, HandlePending, HandleResult, HandleRefusal, TakeResult,
       CheckJob, GiveUp, TakeFromBroker
  <2> QED
    BY <2>1, <2>2
<1>2. /\ version = 1 /\ length = Chunks /\ (task # "queued" => size = Chunks)
      /\ \A i \in 1..Len(received) : received[i].version = 1
      /\ \A k \in 1..Len(to_client) : IsChunk(to_client[k]) => to_client[k].version = 1
  BY <1>1 DEF FileStays
<1>3. version' = version /\ length' = length /\ (task' # "queued" => size' = Chunks)
  BY <1>1, <1>2 DEF Next, StartTask, SendChunk, PutInput, NextOffset, ChunkTimeout, AnswerPoll,
     Poll, HandleStream, HandleAccepted, HandlePending, HandleResult, HandleRefusal, TakeResult,
     CheckJob, GiveUp, TakeFromBroker, file, reader, End
<1>4. \A k \in 1..Len(to_client') : IsChunk(to_client'[k]) => to_client'[k].version = 1
  <2>1. CASE to_client' = to_client
    BY <1>2, <2>1
  <2>2. CASE to_client # <<>> /\ to_client' = Tail(to_client)
    BY <1>2, <1>t, <2>2, TailElements
  <2>3. ASSUME NEW m \in Replies, IsChunk(m) => m.version = 1, to_client' = Append(to_client, m)
        PROVE  \A k \in 1..Len(to_client') : IsChunk(to_client'[k]) => to_client'[k].version = 1
    <3>1. /\ Len(to_client') = Len(to_client) + 1 /\ to_client'[Len(to_client) + 1] = m
          /\ \A i \in 1..Len(to_client) : to_client'[i] = to_client[i]
      BY <1>t, <2>3, AppendElements
    <3>2. \A k \in 1..Len(to_client') : k \in 1..Len(to_client) \/ k = Len(to_client) + 1
      BY <1>t, <3>1
    <3> QED
      BY <1>2, <2>3, <3>1, <3>2
  <2>4. CASE SendChunk
    <3>1. Chunk(position, version) \in Replies /\ Chunk(position, version).version = 1
      BY <1>2, <1>t DEF TypeOK, Chunk, Replies, ChunksOf
    <3> QED
      BY <2>1, <2>3, <2>4, <3>1 DEF SendChunk
  <2>5. CASE AnswerPoll \/ Poll
    <3>1. PICK m \in Replies : ~IsChunk(m) /\ to_client' = Append(to_client, m)
      BY <2>5 DEF AnswerPoll, Poll, IsChunk, Replies, Result, Pending, Accepted
    <3> QED
      BY <2>3, <3>1
  <2>6. CASE HandleStream \/ HandleAccepted \/ HandlePending \/ HandleResult \/ HandleRefusal
    BY <2>2, <2>6 DEF HandleStream, HandleAccepted, HandlePending, HandleResult, HandleRefusal,
                      TakeFromBroker
  <2>7. CASE StartTask \/ PutInput \/ NextOffset \/ ChunkTimeout \/ TakeResult \/ CheckJob \/ GiveUp
    BY <2>1, <2>7 DEF StartTask, PutInput, NextOffset, ChunkTimeout, TakeResult, CheckJob, GiveUp
  <2> QED
    BY <1>1, <2>4, <2>5, <2>6, <2>7 DEF Next
<1>5. \A i \in 1..Len(received') : received'[i].version = 1
  <2>1. CASE received' = received
    BY <1>2, <2>1
  <2>2. CASE HandleStream /\ received' = Append(received, Head(to_client))
    <3>1. Head(to_client) = to_client[1] /\ 1 \in 1..Len(to_client) /\ IsChunk(to_client[1])
      BY <1>t, <2>2, TailElements DEF HandleStream, TakeFromBroker, IsChunk
    <3>2. Head(to_client) \in ChunksOf /\ Head(to_client).version = 1
      BY <1>2, <1>t, <3>1, ChunkTypes
    <3>3. /\ Len(received) \in Nat /\ Len(received') = Len(received) + 1
          /\ received'[Len(received) + 1] = Head(to_client)
          /\ \A i \in 1..Len(received) : received'[i] = received[i]
      BY <1>t, <2>2, <3>2, AppendElements
    <3>4. \A k \in 1..Len(received') : k \in 1..Len(received) \/ k = Len(received) + 1
      BY <3>3
    <3> QED
      BY <1>2, <3>2, <3>3, <3>4
  <2>3. CASE HandleStream
    BY <2>1, <2>2, <2>3 DEF HandleStream, WriteChunk
  <2>4. CASE ~HandleStream
    <3>1. received' = received
      BY <1>1, <2>4 DEF Next, StartTask, SendChunk, PutInput, NextOffset, ChunkTimeout, AnswerPoll,
         Poll, HandleAccepted, HandlePending, HandleResult, HandleRefusal, TakeResult, CheckJob,
         GiveUp, transfer
    <3> QED
      BY <2>1, <3>1
  <2> QED
    BY <2>3, <2>4
<1> QED
  BY <1>2, <1>3, <1>4, <1>5 DEF FileStays, IsChunk

(* Nothing is streamed after the result, which tells how the task ended.   *)
LEMMA ResultStep ==
  ASSUME IInv, FileStays, ResultIsLast, Next
  PROVE  ResultIsLast'
<1>t. TypeOK /\ to_client \in Seq(Replies) /\ Len(to_client) \in Nat
  BY DEF IInv, TypeOK
<1> DEFINE Tells(m, o, t) == t = "ended" /\ (~m.failed => o = "ok")
           After(s, i) == \A k \in 1..Len(s) : i < k => ~IsChunk(s[k])
<1>0. /\ \A i \in 1..Len(to_client) : to_client[i].type = "RESULT" =>
           Tells(to_client[i], outcome, task) /\ After(to_client, i)
      /\ task = "ended" <=> outcome # "none"
      /\ faults = 0 /\ outcome = "ok" => position + 1 >= Chunks
  BY DEF ResultIsLast
<1>1. /\ task = "ended" => UNCHANGED <<task, outcome, position>>
      /\ task' = "ended" <=> outcome' # "none"
  BY <1>0 DEF Next, StartTask, SendChunk, PutInput, NextOffset, ChunkTimeout, AnswerPoll,
     Poll, HandleStream, HandleAccepted, HandlePending, HandleResult, HandleRefusal, TakeResult,
     CheckJob, GiveUp, LosePut, LoseStream, ChangeFile, TakeFromBroker, reader, End
<1>2. faults' = 0 /\ outcome' = "ok" => position' + 1 >= Chunks
  <2>1. CASE SendChunk
    <3>1. position \in Nat /\ length \in Nat /\ faults \in Nat
      BY <1>t, FileTransferAssumption DEF TypeOK
    <3>2. UNCHANGED <<faults, position>> /\ task = "reading"
      BY <2>1 DEF SendChunk
    <3>3. outcome = "none"
      BY <1>0, <3>2
    <3>4. faults' = 0 => size = Chunks
      BY <3>2 DEF FileStays
    <3>5. outcome' = "ok" =>
            AtEnd(IF position < length THEN position + 1 ELSE position)
      BY <2>1, <3>3 DEF SendChunk, End
    <3> QED
      BY <3>1, <3>2, <3>4, <3>5, FileTransferAssumption DEF AtEnd
  <2>2. CASE ~SendChunk
    <3>1. outcome' = "ok" => outcome = "ok" /\ position' = position /\ (faults' = 0 => faults = 0)
      <4>1. faults \in Nat
        BY <1>t, FileTransferAssumption DEF TypeOK
      <4>2. outcome' = "ok" => outcome = "ok"
        BY <2>2 DEF Next, StartTask, PutInput, NextOffset, ChunkTimeout, AnswerPoll,
           Poll, HandleStream, HandleAccepted, HandlePending, HandleResult, HandleRefusal,
           TakeResult, CheckJob, GiveUp, LosePut, LoseStream, ChangeFile, TakeFromBroker, reader,
           End
      <4>3. faults' = faults \/ faults' = faults + 1
        BY <2>2 DEF Next, StartTask, PutInput, NextOffset, ChunkTimeout, AnswerPoll,
           Poll, HandleStream, HandleAccepted, HandlePending, HandleResult, HandleRefusal,
           TakeResult, CheckJob, GiveUp, LosePut, LoseStream, ChangeFile, TakeFromBroker, Fault
      <4> QED
        BY <1>0, <1>1, <4>1, <4>2, <4>3
    <3> QED
      BY <1>0, <3>1
  <2> QED
    BY <2>1, <2>2
<1>3. \A i \in 1..Len(to_client') : to_client'[i].type = "RESULT" =>
        Tells(to_client'[i], outcome', task') /\ After(to_client', i)
  <2>t. \A i \in 1..Len(to_client) : to_client[i].type = "RESULT" =>
          Tells(to_client[i], outcome', task')
    BY <1>0, <1>1
  <2>1. CASE to_client' = to_client
    BY <1>0, <2>t, <2>1
  <2>2. CASE to_client # <<>> /\ to_client' = Tail(to_client)
    <3>1. /\ Len(to_client) \in Nat \ {0} /\ Len(to_client') = Len(to_client) - 1
          /\ \A i \in 1..Len(to_client') : i + 1 \in 1..Len(to_client) /\ to_client'[i] = to_client[i + 1]
      BY <1>t, <2>2, TailElements
    <3> SUFFICES ASSUME NEW i \in 1..Len(to_client'), to_client'[i].type = "RESULT"
                 PROVE  Tells(to_client'[i], outcome', task') /\ After(to_client', i)
      OBVIOUS
    <3>2. After(to_client, i + 1)
      BY <1>0, <3>1
    <3>3. \A k \in 1..Len(to_client') : i < k => i + 1 < k + 1
      BY <3>1
    <3> QED
      BY <2>t, <3>1, <3>2, <3>3
  <2>3. ASSUME NEW m \in Replies, to_client' = Append(to_client, m),
               m.type = "RESULT" => Tells(m, outcome', task'),
               IsChunk(m) => task # "ended"
        PROVE  \A i \in 1..Len(to_client') : to_client'[i].type = "RESULT" =>
                 Tells(to_client'[i], outcome', task') /\ After(to_client', i)
    <3>1. /\ Len(to_client') = Len(to_client) + 1 /\ to_client'[Len(to_client) + 1] = m
          /\ \A i \in 1..Len(to_client) : to_client'[i] = to_client[i]
      BY <1>t, <2>3, AppendElements
    <3>2. \A k \in 1..Len(to_client') : k \in 1..Len(to_client) \/ k = Len(to_client) + 1
      BY <1>t, <3>1
    <3> SUFFICES ASSUME NEW i \in 1..Len(to_client'), to_client'[i].type = "RESULT"
                 PROVE  Tells(to_client'[i], outcome', task') /\ After(to_client', i)
      OBVIOUS
    <3>3. CASE i = Len(to_client) + 1
      <4>1. After(to_client', i)
        BY <1>t, <3>1, <3>3
      <4> QED
        BY <2>3, <3>1, <3>3, <4>1
    <3>4. CASE i \in 1..Len(to_client)
      <4>1. Tells(to_client[i], outcome, task) /\ After(to_client, i)
        BY <1>0, <3>1, <3>4
      <4>2. ~IsChunk(m)
        BY <2>3, <4>1
      <4>3. After(to_client', i)
        BY <3>1, <3>2, <4>1, <4>2
      <4> QED
        BY <2>t, <3>1, <3>4, <4>3
    <3> QED
      BY <3>2, <3>3, <3>4
  <2> HIDE DEF Tells, After
  <2>4. CASE SendChunk
    <3>1. Chunk(position, version) \in Replies /\ Chunk(position, version).type = "STREAM"
      BY <1>t DEF TypeOK, Chunk, Replies, ChunksOf
    <3> QED
      BY <2>1, <2>3, <2>4, <3>1 DEF SendChunk
  <2>5. CASE AnswerPoll
    <3> DEFINE m == IF task = "ended" THEN Result(outcome = "failed") ELSE Pending
    <3>1. m \in Replies /\ ~IsChunk(m) /\ to_client' = Append(to_client, m)
          /\ UNCHANGED <<task, outcome>>
      BY <2>5 DEF AnswerPoll, Result, Pending, Replies, IsChunk, reader
    <3>2. outcome \in {"none", "ok", "failed"}
      BY <1>t DEF TypeOK
    <3>3. m.type = "RESULT" => Tells(m, outcome', task')
      BY <1>0, <3>1, <3>2 DEF Tells, Result, Pending
    <3> QED
      BY <2>3, <3>1, <3>3
  <2>6. CASE Poll
    <3>1. Accepted \in Replies /\ ~IsChunk(Accepted) /\ Accepted.type # "RESULT"
          /\ to_client' = Append(to_client, Accepted)
      BY <2>6 DEF Poll, Accepted, Replies, IsChunk
    <3> QED
      BY <2>3, <3>1
  <2>7. CASE LosePut
    <3>1. Refusal \in Replies /\ ~IsChunk(Refusal) /\ Refusal.type # "RESULT"
          /\ to_client' \in {to_client, Append(to_client, Refusal)}
      BY <2>7 DEF LosePut, Refusal, Replies, IsChunk
    <3> QED
      BY <2>1, <2>3, <3>1
  <2>8. CASE \/ HandleStream \/ HandleAccepted \/ HandlePending \/ HandleResult \/ HandleRefusal
             \/ LoseStream
    BY <2>2, <2>8 DEF HandleStream, HandleAccepted, HandlePending, HandleResult, HandleRefusal,
                      TakeFromBroker, LoseStream
  <2>9. CASE \/ StartTask \/ PutInput \/ NextOffset \/ ChunkTimeout \/ TakeResult \/ CheckJob
             \/ GiveUp \/ ChangeFile
    BY <2>1, <2>9 DEF StartTask, PutInput, NextOffset, ChunkTimeout, TakeResult, CheckJob, GiveUp,
                      ChangeFile
  <2> QED
    BY <2>4, <2>5, <2>6, <2>7, <2>8, <2>9 DEF Next
<1> QED
  BY <1>1, <1>2, <1>3 DEF ResultIsLast, IsChunk

-----------------------------------------------------------------------------
(* A chunk that is handled belongs to the file: the file is open and not   *)
(* complete.                                                               *)
LEMMA StillOpen ==
  ASSUME IInv, HandleStream
  PROVE  destination = "open" /\ Len(received) \in Nat /\ Len(received) < Chunks
<1>1. /\ credit \in Nat /\ offset \in Nat /\ chunk_requests_remaining \in Nat
      /\ received \in Seq(ChunksOf) /\ destination \in {"open", "closed"}
      /\ puts \in Seq(Nat) /\ client_input_queue \in Seq(Nat) /\ to_client \in Seq(Replies)
  BY DEF IInv, TypeOK
<1>2. Cardinality(Streams(to_client)) \in Nat \ {0}
  <2>1. Tail(to_client) \in Seq(Replies) /\ to_client # <<>> /\ IsStream(Head(to_client)) = 1
    BY <1>1 DEF HandleStream, TakeFromBroker, IsStream
  <2>2. Cardinality(Streams(to_client)) \in Nat /\ Cardinality(Streams(Tail(to_client))) \in Nat
    BY <1>1, <2>1, StreamsFinite
  <2>3. Cardinality(Streams(to_client)) = Cardinality(Streams(Tail(to_client))) + IsStream(Head(to_client))
    BY <1>1, <2>1, StreamsTail
  <2> QED
    BY <2>1, <2>2, <2>3
<1>3. UnderWay \in Nat \ {0}
  BY <1>1, <1>2 DEF UnderWay, Reading
<1>4. Len(received) \in Nat
  BY <1>1
<1>5. Len(received) + UnderWay <= offset + 1 /\ offset <= Chunks - 1
  BY <1>1, FileTransferAssumption DEF IInv, Account
<1>6. Len(received) < Chunks
  BY <1>1, <1>3, <1>4, <1>5, FileTransferAssumption
<1> QED
  BY <1>1, <1>4, <1>6, FileTransferAssumption DEF IInv, Account

(* Without a fault the first chunk that arrives is the next one.           *)
LEMMA NextChunk ==
  ASSUME IInv, WholeInv, HandleStream, faults = 0, outcome # "failed", caller = "waiting",
         Len(received) <= offset
  PROVE  Head(to_client).number = Len(received)
<1>t. TypeOK
  BY DEF IInv
<1> DEFINE m == Head(to_client)
           L == Len(received)
<1>1. m = to_client[1] /\ 1 \in 1..Len(to_client) /\ IsChunk(m) /\ Len(to_client) \in Nat
  BY <1>t, ChunkTypes, TailElements DEF HandleStream, TakeFromBroker, IsChunk
<1>2. m.number \in Nat /\ L \in Nat /\ position \in Nat
  BY <1>t, <1>1, ChunkTypes
<1>3. m.number >= L
  <2>1. CASE L = 0
    BY <1>2, <2>1
  <2>2. CASE L > 0
    <3>1. L \in 1..Len(received)
      BY <1>2, <2>2
    <3>2. received[L].number = L - 1 /\ received[L].number < m.number
      BY <1>1, <3>1 DEF WholeInv, NothingIsMissing, ChunksRise
    <3> QED
      BY <1>2, <3>2
  <2> QED
    BY <1>2, <2>1, <2>2
<1>4. m.number < Ahead
  BY <1>1 DEF WholeInv, ChunksRise
<1>5. Somewhere(L)
  BY <1>2 DEF WholeInv, NothingIsMissing
<1> HIDE DEF m, L
<1>6. CASE \E k \in 1..Len(to_client) : IsChunk(to_client[k]) /\ to_client[k].number = L
  <2>1. PICK k \in 1..Len(to_client) : IsChunk(to_client[k]) /\ to_client[k].number = L
    BY <1>6
  <2>2. CASE k = 1
    BY <1>1, <2>1, <2>2 DEF m, L
  <2>3. CASE k # 1
    <3>1. 1 < k
      BY <1>1, <2>3
    <3>2. m.number < L
      BY <1>1, <2>1, <3>1 DEF WholeInv, ChunksRise
    <3> QED
      BY <1>2, <1>3, <3>2
  <2> QED
    BY <2>2, <2>3
<1>7. CASE task \in {"queued", "reading"} /\ L = position
  BY <1>2, <1>3, <1>4, <1>7 DEF Ahead
<1>8. CASE \E i \in 1..Len(client_input_queue) : client_input_queue[i] = L
  <2>1. position < L
    BY <1>8 DEF WholeInv, OffsetsRise
  <2> QED
    BY <1>2, <1>3, <1>4, <2>1 DEF Ahead
<1>9. CASE \E i \in 1..Len(puts) : puts[i] = L
  <2>1. position < L
    BY <1>9 DEF WholeInv, OffsetsRise
  <2> QED
    BY <1>2, <1>3, <1>4, <2>1 DEF Ahead
<1> QED
  BY <1>5, <1>6, <1>7, <1>8, <1>9 DEF Somewhere

(* Without a fault no number gets lost.                                    *)
LEMMA MissingStep ==
  ASSUME IInv, WholeInv, Next
  PROVE  NothingIsMissing'
<1> SUFFICES ASSUME faults' = 0, outcome' # "failed", caller' = "waiting"
             PROVE  NothingIsMissing'
  BY DEF NothingIsMissing
<1>t. /\ TypeOK /\ position \in Nat /\ offset \in Nat /\ Len(received) \in Nat
      /\ puts \in Seq(Nat) /\ client_input_queue \in Seq(Nat) /\ to_client \in Seq(Replies)
      /\ outcome \in {"none", "ok", "failed"}
  BY DEF IInv, TypeOK
<1>c. /\ caller = "waiting" /\ ~TakeResult /\ ~CheckJob /\ ~GiveUp
      /\ outcome # "failed" /\ ~ChunkTimeout
  <2>1. caller = "waiting" /\ ~TakeResult /\ ~CheckJob /\ ~GiveUp
    <3>1. ~TakeResult /\ ~CheckJob /\ ~GiveUp
      BY DEF TakeResult, CheckJob, GiveUp
    <3> QED
      BY <3>1 DEF Next, StartTask, SendChunk, PutInput, NextOffset, ChunkTimeout, AnswerPoll, Poll,
        HandleStream, HandleAccepted, HandlePending, HandleResult, HandleRefusal, LosePut,
        LoseStream, ChangeFile, TakeFromBroker
  <2>2. ~ChunkTimeout
    BY DEF ChunkTimeout, End
  <2>3. outcome # "failed"
    <3> SUFFICES ASSUME outcome = "failed" PROVE FALSE
      OBVIOUS
    <3>1. task = "ended"
      BY DEF WholeInv, ResultIsLast
    <3> QED
      BY <2>1, <3>1 DEF Next, StartTask, SendChunk, PutInput, NextOffset, ChunkTimeout, AnswerPoll,
        Poll, HandleStream, HandleAccepted, HandlePending, HandleResult, HandleRefusal, LosePut,
        LoseStream, ChangeFile, TakeFromBroker, reader
  <2> QED
    BY <2>1, <2>2, <2>3
<1>f. faults = 0 /\ ~LosePut /\ ~LoseStream /\ ~ChangeFile
  <2>t. faults \in Nat
    BY <1>t, FileTransferAssumption DEF TypeOK
  <2>1. CASE LosePut \/ LoseStream \/ ChangeFile
    BY <2>t, <2>1 DEF LosePut, LoseStream, ChangeFile, Fault
  <2>2. CASE ~(LosePut \/ LoseStream \/ ChangeFile)
    BY <2>2 DEF Next, StartTask, SendChunk, PutInput, NextOffset, ChunkTimeout, AnswerPoll,
       Poll, HandleStream, HandleAccepted, HandlePending, HandleResult, HandleRefusal, TakeResult,
       CheckJob, GiveUp, TakeFromBroker
  <2> QED
    BY <2>1, <2>2
<1>h. /\ \A i \in 1..Len(received) : received[i].number = i - 1
      /\ \A n \in Nat : Len(received) <= n /\ n <= offset => Somewhere(n)
  BY <1>c, <1>f DEF WholeInv, NothingIsMissing
<1>o. offset <= Chunks - 1 /\ position <= offset
  <2>1. chunk_requests_remaining \in Nat
    BY <1>t DEF TypeOK
  <2> QED
    BY <1>t, <2>1, FileTransferAssumption DEF IInv, Account, WholeInv, OffsetsRise
<1>s. ASSUME UNCHANGED <<received, offset>>, \A n \in Nat : Somewhere(n) => Somewhere(n)'
      PROVE  NothingIsMissing'
  BY <1>h, <1>s DEF NothingIsMissing
<1>1. CASE StartTask
  BY <1>s, <1>1 DEF StartTask, transfer, Somewhere
<1>2. CASE SendChunk
  <2>1. length = Chunks /\ task = "reading"
    BY <1>2, <1>f DEF WholeInv, FileStays, SendChunk
  <2>2. Chunk(position, version) \in Replies /\ IsChunk(Chunk(position, version))
        /\ Chunk(position, version).number = position
    BY <1>t DEF TypeOK, Chunk, Replies, ChunksOf, IsChunk
  <2>3. to_client' = Append(to_client, Chunk(position, version))
    BY <1>2, <1>t, <1>o, <2>1, FileTransferAssumption DEF SendChunk
  <2>4. /\ Len(to_client') = Len(to_client) + 1 /\ Len(to_client) \in Nat
        /\ to_client'[Len(to_client) + 1] = Chunk(position, version)
        /\ \A k \in 1..Len(to_client) : to_client'[k] = to_client[k]
    BY <1>t, <2>2, <2>3, AppendElements
  <2>5. Len(to_client) + 1 \in 1..Len(to_client') /\ \A k \in 1..Len(to_client) : k \in 1..Len(to_client')
    BY <2>4
  <2>6. UNCHANGED <<received, offset, client_input_queue, puts, position>>
    BY <1>2 DEF SendChunk, transfer
  <2>7. \A n \in Nat : Somewhere(n) => Somewhere(n)'
    BY <2>2, <2>4, <2>5, <2>6 DEF Somewhere, IsChunk
  <2> QED
    BY <1>s, <2>6, <2>7
<1>3. CASE PutInput
  <2>1. UNCHANGED <<received, offset, to_client, task, position>> /\ puts # <<>> /\ puts' = Tail(puts)
    BY <1>3 DEF PutInput, transfer
  <2>2. /\ Len(puts) \in Nat \ {0} /\ Len(puts') = Len(puts) - 1 /\ Head(puts) = puts[1]
        /\ Head(puts) \in Nat /\ \A i \in 1..Len(puts') : puts'[i] = puts[i + 1]
    BY <1>t, <2>1, TailElements
  <2>3. task # "ended"
    <3> SUFFICES ASSUME task = "ended" PROVE FALSE
      OBVIOUS
    <3>1. outcome = "ok"
      BY <1>c, <1>t DEF WholeInv, ResultIsLast
    <3>2. position + 1 >= Chunks
      BY <1>f, <3>1 DEF WholeInv, ResultIsLast
    <3>3. position < puts[1] /\ puts[1] <= offset /\ puts[1] \in Nat
      BY <1>t, <2>2 DEF WholeInv, OffsetsRise
    <3> QED
      BY <1>t, <1>o, <3>2, <3>3, FileTransferAssumption
  <2>4. client_input_queue' = Append(client_input_queue, Head(puts))
    BY <1>3, <2>3 DEF PutInput
  <2> DEFINE q == client_input_queue
  <2>5. /\ Len(q) \in Nat /\ Len(q') = Len(q) + 1 /\ q'[Len(q) + 1] = puts[1]
        /\ \A i \in 1..Len(q) : q'[i] = q[i] /\ i \in 1..Len(q')
        /\ Len(q) + 1 \in 1..Len(q')
    <3>1. /\ Len(q) \in Nat /\ Len(q') = Len(q) + 1 /\ q'[Len(q) + 1] = Head(puts)
          /\ \A i \in 1..Len(q) : q'[i] = q[i]
      BY <1>t, <2>2, <2>4, AppendElements
    <3> QED
      BY <2>2, <3>1
  <2>6. \A n \in Nat : Somewhere(n) => Somewhere(n)'
    <3> SUFFICES ASSUME NEW n \in Nat, Somewhere(n) PROVE Somewhere(n)'
      OBVIOUS
    <3>1. CASE \E i \in 1..Len(puts) : puts[i] = n
      <4>1. PICK i \in 1..Len(puts) : puts[i] = n
        BY <3>1
      <4>2. CASE i = 1
        BY <2>5, <4>1, <4>2 DEF Somewhere
      <4>3. CASE i # 1
        <5>1. i - 1 \in 1..Len(puts') /\ puts'[i - 1] = n
          BY <2>2, <4>1, <4>3
        <5> QED
          BY <5>1 DEF Somewhere
      <4> QED
        BY <4>2, <4>3
    <3>2. CASE \E i \in 1..Len(q) : q[i] = n
      BY <2>5, <3>2 DEF Somewhere
    <3> QED
      BY <2>1, <3>1, <3>2 DEF Somewhere
  <2> QED
    BY <1>s, <2>1, <2>6
<1>4. CASE NextOffset
  <2> DEFINE q == client_input_queue
  <2>1. /\ UNCHANGED <<received, offset, to_client, puts>> /\ task = "waiting" /\ task' = "reading"
        /\ q # <<>> /\ q' = Tail(q) /\ position' = Head(q)
    BY <1>4 DEF NextOffset, transfer
  <2>2. /\ Len(q) \in Nat \ {0} /\ Len(q') = Len(q) - 1 /\ Head(q) = q[1]
        /\ \A i \in 1..Len(q') : q'[i] = q[i + 1]
    BY <1>t, <2>1, TailElements
  <2>3. \A n \in Nat : Somewhere(n) => Somewhere(n)'
    <3> SUFFICES ASSUME NEW n \in Nat, Somewhere(n) PROVE Somewhere(n)'
      OBVIOUS
    <3>1. CASE \E i \in 1..Len(q) : q[i] = n
      <4>1. PICK i \in 1..Len(q) : q[i] = n
        BY <3>1
      <4>2. CASE i = 1
        BY <2>1, <2>2, <4>1, <4>2 DEF Somewhere
      <4>3. CASE i # 1
        <5>1. i - 1 \in 1..Len(q') /\ q'[i - 1] = n
          BY <2>2, <4>1, <4>3
        <5> QED
          BY <5>1 DEF Somewhere
      <4> QED
        BY <4>2, <4>3
    <3> QED
      BY <2>1, <3>1 DEF Somewhere
  <2> QED
    BY <1>s, <2>1, <2>3
<1>5. CASE AnswerPoll \/ Poll
  <2>1. UNCHANGED <<received, offset, task, position, client_input_queue, puts>>
    BY <1>5 DEF AnswerPoll, Poll, transfer, reader
  <2>2. PICK m \in Replies : to_client' = Append(to_client, m)
    BY <1>5 DEF AnswerPoll, Poll, Replies, Result, Pending, Accepted
  <2>3. /\ Len(to_client) \in Nat /\ Len(to_client') = Len(to_client) + 1
        /\ \A k \in 1..Len(to_client) : to_client'[k] = to_client[k]
    BY <1>t, <2>2, AppendElements
  <2>4. \A n \in Nat : Somewhere(n) => Somewhere(n)'
    BY <2>1, <2>3 DEF Somewhere, IsChunk
  <2> QED
    BY <1>s, <2>1, <2>4
<1>6. CASE HandleAccepted \/ HandlePending \/ HandleResult \/ HandleRefusal
  <2>1. UNCHANGED <<received, offset, task, position, client_input_queue, puts>>
    BY <1>6 DEF HandleAccepted, HandlePending, HandleResult, HandleRefusal, TakeFromBroker,
                transfer, reader
  <2>2. to_client # <<>> /\ ~IsChunk(Head(to_client)) /\ to_client' = Tail(to_client)
    BY <1>6 DEF HandleAccepted, HandlePending, HandleResult, HandleRefusal, TakeFromBroker, IsChunk
  <2>3. /\ Len(to_client) \in Nat \ {0} /\ Len(to_client') = Len(to_client) - 1
        /\ Head(to_client) = to_client[1]
        /\ \A k \in 1..Len(to_client') : to_client'[k] = to_client[k + 1]
    BY <1>t, <2>2, TailElements
  <2>4. \A k \in 1..Len(to_client) : IsChunk(to_client[k]) =>
          k - 1 \in 1..Len(to_client') /\ to_client'[k - 1] = to_client[k]
    BY <2>2, <2>3
  <2>5. \A n \in Nat : Somewhere(n) => Somewhere(n)'
    BY <2>1, <2>4 DEF Somewhere, IsChunk
  <2> QED
    BY <1>s, <2>1, <2>5
<1>7. CASE HandleStream
  <2> DEFINE m == Head(to_client)
  <2>1. /\ to_client # <<>> /\ to_client' = Tail(to_client) /\ IsChunk(m)
        /\ UNCHANGED <<task, position, client_input_queue>>
    BY <1>7 DEF HandleStream, TakeFromBroker, IsChunk, reader
  <2>2. destination = "open" /\ Len(received) < Chunks
    BY <1>7, StillOpen
  <2>3. WriteChunk
    BY <1>7, <1>c, <2>2 DEF HandleStream, Known
  <2>4. m = to_client[1] /\ m \in ChunksOf /\ m.number \in Nat
    <3>1. m = to_client[1] /\ 1 \in 1..Len(to_client)
      BY <1>t, <2>1, TailElements
    <3> QED
      BY <1>t, <2>1, <3>1, ChunkTypes
  <2>5. /\ Len(received') = Len(received) + 1 /\ received'[Len(received) + 1] = m
        /\ \A i \in 1..Len(received) : received'[i] = received[i]
    BY <1>t, <2>3, <2>4, ChunkTypes, AppendElements DEF WriteChunk
  <2>6. Len(received) <= offset
    <3>1. \E k \in 1..Len(to_client) : to_client[k] = m /\ IsChunk(to_client[k])
      BY <1>t, <2>1, TailElements
    <3>2. m.number < Ahead
      BY <3>1 DEF WholeInv, ChunksRise
    <3>3. m.number <= offset
      BY <1>t, <1>o, <2>4, <3>2 DEF Ahead
    <3>4. CASE Len(received) = 0
      BY <1>t, <3>4
    <3>5. CASE Len(received) > 0
      <4>1. Len(received) \in 1..Len(received)
        BY <1>t, <3>5
      <4>2. received[Len(received)].number < m.number
            /\ received[Len(received)].number = Len(received) - 1
        BY <1>h, <3>1, <4>1 DEF WholeInv, ChunksRise
      <4> QED
        BY <1>t, <2>4, <3>3, <4>2
    <3> QED
      BY <1>t, <3>4, <3>5
  <2>7. m.number = Len(received)
    BY <1>7, <1>c, <1>f, <2>6, NextChunk
  <2>8. \A i \in 1..Len(received') : received'[i].number = i - 1
    <3>1. \A i \in 1..Len(received') : i \in 1..Len(received) \/ i = Len(received) + 1
      BY <1>t, <2>5
    <3>2. \A i \in 1..Len(received) : received'[i].number = i - 1
      BY <1>h, <2>5
    <3>3. received'[Len(received) + 1].number = (Len(received) + 1) - 1
      <4>1. (Len(received) + 1) - 1 = Len(received)
        BY <1>t
      <4> QED
        BY <2>5, <2>7, <4>1
    <3> QED
      BY <3>1, <3>2, <3>3
  <2>9. \A n \in Nat : n # m.number /\ Somewhere(n) =>
          \/ \E k \in 1..Len(to_client') : IsChunk(to_client'[k]) /\ to_client'[k].number = n
          \/ task' \in {"queued", "reading"} /\ n = position'
          \/ \E i \in 1..Len(client_input_queue') : client_input_queue'[i] = n
          \/ \E i \in 1..Len(puts) : puts[i] = n
    <3>1. /\ Len(to_client) \in Nat \ {0} /\ Len(to_client') = Len(to_client) - 1
          /\ \A k \in 1..Len(to_client') : to_client'[k] = to_client[k + 1]
      BY <1>t, <2>1, TailElements
    <3>2. \A k \in 1..Len(to_client) : k # 1 =>
            k - 1 \in 1..Len(to_client') /\ to_client'[k - 1] = to_client[k]
      BY <3>1
    <3> QED
      BY <2>1, <2>4, <3>2 DEF Somewhere
  <2>10. CASE RequestMore
    <3> DEFINE n == Smaller(Earned, chunk_requests_remaining)
    <3>1. n \in Nat
      <4>1. credit \in Nat /\ chunk_requests_remaining \in Nat
        BY <1>t DEF TypeOK
      <4> QED
        BY <4>1 DEF Smaller, Earned
    <3>2. puts' = puts \o Offsets(n) /\ offset' = offset + n
      BY <2>10 DEF RequestMore
    <3>3. /\ Offsets(n) \in Seq(Nat) /\ Len(Offsets(n)) = n
          /\ \A i \in 1..n : Offsets(n)[i] = offset + i
      BY <1>t, <3>1, AskedElements
    <3> HIDE DEF n
    <3>4. /\ Len(puts) \in Nat /\ Len(puts') = Len(puts) + n
          /\ \A i \in 1..Len(puts') :
               puts'[i] = IF i <= Len(puts) THEN puts[i] ELSE Offsets(n)[i - Len(puts)]
      BY <1>t, <3>2, <3>3, ConcatElements
    <3>5. \A i \in 1..Len(puts) : i \in 1..Len(puts') /\ puts'[i] = puts[i]
      BY <3>1, <3>4
    <3>6. \A x \in Nat : offset < x /\ x <= offset' => \E i \in 1..Len(puts') : puts'[i] = x
      <4> SUFFICES ASSUME NEW x \in Nat, offset < x, x <= offset'
                   PROVE  \E i \in 1..Len(puts') : puts'[i] = x
        OBVIOUS
      <4>1. PICK d \in 1..n : x = offset + d
        BY <1>t, <3>1, <3>2
      <4>2. PICK j \in 1..Len(puts') : ~(j <= Len(puts)) /\ j - Len(puts) = d
        <5>1. Len(puts) + d \in 1..Len(puts')
          BY <3>1, <3>4
        <5>2. ~(Len(puts) + d <= Len(puts)) /\ (Len(puts) + d) - Len(puts) = d
          BY <3>1, <3>4
        <5> QED
          BY <5>1, <5>2
      <4>3. puts'[j] = Offsets(n)[d]
        BY <3>4, <4>2
      <4> QED
        BY <3>3, <4>1, <4>3
    <3>7. \A x \in Nat : Len(received') <= x /\ x <= offset' => Somewhere(x)'
      <4> SUFFICES ASSUME NEW x \in Nat, Len(received') <= x, x <= offset' PROVE Somewhere(x)'
        OBVIOUS
      <4>1. CASE x <= offset
        <5>1. Somewhere(x) /\ x # m.number
          BY <1>h, <1>t, <2>5, <2>7, <4>1
        <5> QED
          BY <2>9, <3>5, <5>1 DEF Somewhere, IsChunk
      <4>2. CASE offset < x
        BY <3>6, <4>2 DEF Somewhere
      <4> QED
        BY <1>t, <4>1, <4>2
    <3> QED
      BY <2>8, <3>7 DEF NothingIsMissing
  <2>11. CASE LastChunk
    <3>1. UNCHANGED <<puts, offset>>
      BY <2>11 DEF LastChunk
    <3>2. \A x \in Nat : Len(received') <= x /\ x <= offset' => Somewhere(x)'
      <4> SUFFICES ASSUME NEW x \in Nat, Len(received') <= x, x <= offset PROVE Somewhere(x)'
        BY <3>1
      <4>1. Somewhere(x) /\ x # m.number
        BY <1>h, <1>t, <2>5, <2>7
      <4> QED
        BY <2>9, <3>1, <4>1 DEF Somewhere, IsChunk
    <3> QED
      BY <2>8, <3>2 DEF NothingIsMissing
  <2> QED
    BY <2>3, <2>10, <2>11 DEF WriteChunk
<1> QED
  BY <1>c, <1>f, <1>1, <1>2, <1>3, <1>4, <1>5, <1>6, <1>7 DEF Next

-----------------------------------------------------------------------------
(* What is handed to the caller is whole.  When the result is taken, all   *)
(* chunks the worker sent were written, and the worker sent up to the last *)
(* one; a file that has all chunks takes no more.                          *)
LEMMA ResultMeansWhole ==
  ASSUME IInv, WholeInv, HandleResult, faults = 0, ~failed', caller = "waiting"
  PROVE  Whole
<1>t. /\ TypeOK /\ position \in Nat /\ offset \in Nat /\ Len(received) \in Nat
      /\ received \in Seq(ChunksOf) /\ chunk_requests_remaining \in Nat
  BY DEF IInv, TypeOK
<1> DEFINE m == Head(to_client)
           L == Len(received)
<1>1. m = to_client[1] /\ 1 \in 1..Len(to_client) /\ m.type = "RESULT" /\ ~m.failed
      /\ Len(to_client) \in Nat
  <2>1. to_client # <<>> /\ m.type = "RESULT" /\ ~m.failed
    BY DEF HandleResult, TakeFromBroker
  <2> QED
    BY <1>t, <2>1, ChunkTypes, TailElements
<1>2. task = "ended" /\ outcome = "ok"
  BY <1>1 DEF WholeInv, ResultIsLast
<1>3. position + 1 >= Chunks /\ position <= offset /\ offset <= Chunks - 1
  BY <1>t, <1>2, FileTransferAssumption DEF WholeInv, ResultIsLast, OffsetsRise, IInv, Account
<1>4. \A k \in 1..Len(to_client) : ~IsChunk(to_client[k])
  <2>1. \A k \in 1..Len(to_client) : 1 < k => ~IsChunk(to_client[k])
    BY <1>1 DEF WholeInv, ResultIsLast
  <2>2. \A k \in 1..Len(to_client) : 1 < k \/ k = 1
    BY <1>1
  <2> QED
    BY <1>1, <2>1, <2>2 DEF IsChunk
<1>5. ~Somewhere(L) \/ L > position
  BY <1>2, <1>4 DEF Somewhere, WholeInv, OffsetsRise
<1>6. L > offset
  <2> SUFFICES ASSUME ~(L > offset) PROVE FALSE
    OBVIOUS
  <2>1. Somewhere(L)
    BY <1>t, <1>2 DEF WholeInv, NothingIsMissing
  <2> QED
    BY <1>t, <1>3, <1>5, <2>1, FileTransferAssumption
<1>7. L = Chunks
  <2>1. L \in 1..Len(received)
    BY <1>t, <1>6
  <2>2. received[L].number = L - 1 /\ received[L].number < Ahead
    BY <1>2, <2>1 DEF WholeInv, NothingIsMissing, ChunksRise
  <2> QED
    BY <1>t, <1>2, <1>3, <1>6, <2>2, FileTransferAssumption DEF Ahead
<1>8. \A i \in 1..Chunks : received[i] = Chunk(i - 1, 1)
  <2> SUFFICES ASSUME NEW i \in 1..Chunks PROVE received[i] = Chunk(i - 1, 1)
    OBVIOUS
  <2>1. i \in 1..Len(received)
    BY <1>7
  <2>2. received[i].number = i - 1 /\ received[i].version = 1 /\ received[i] \in ChunksOf
    BY <1>t, <1>2, <2>1 DEF WholeInv, NothingIsMissing, FileStays
  <2> QED
    BY <2>2 DEF ChunksOf, Chunk
<1> QED
  BY <1>t, <1>7, <1>8 DEF Whole

LEMMA CompletedStep ==
  ASSUME IInv, WholeInv, Next
  PROVE  CompletedIsWhole'
<1>t. TypeOK /\ faults \in Nat
  BY FileTransferAssumption DEF IInv, TypeOK
<1>f. faults' = 0 => faults = 0
  BY <1>t DEF Next, StartTask, SendChunk, PutInput, NextOffset, ChunkTimeout, AnswerPoll, Poll,
     HandleStream, HandleAccepted, HandlePending, HandleResult, HandleRefusal, TakeResult,
     CheckJob, GiveUp, TakeFromBroker, LosePut, LoseStream, ChangeFile, Fault
<1>1. ASSUME UNCHANGED <<received, caller, status, failed>> PROVE CompletedIsWhole'
  BY <1>f, <1>1 DEF WholeInv, CompletedIsWhole, Whole
<1>2. CASE \/ StartTask \/ SendChunk \/ PutInput \/ NextOffset \/ ChunkTimeout \/ AnswerPoll \/ Poll
           \/ LosePut \/ LoseStream \/ ChangeFile
  BY <1>1, <1>2 DEF StartTask, SendChunk, PutInput, NextOffset, ChunkTimeout, AnswerPoll, Poll,
     LosePut, LoseStream, ChangeFile, transfer, job
<1>3. CASE HandleAccepted \/ HandlePending \/ HandleRefusal
  BY <1>f, <1>3 DEF HandleAccepted, HandlePending, HandleRefusal, TakeFromBroker, transfer,
     WholeInv, CompletedIsWhole, Whole
<1>4. CASE HandleResult
  <2>1. UNCHANGED <<received, caller>>
    BY <1>4 DEF HandleResult, TakeFromBroker, transfer
  <2> QED
    BY <1>4, <1>f, <2>1, ResultMeansWhole DEF WholeInv, CompletedIsWhole, Whole
<1>5. CASE HandleStream
  <2>1. Len(received) < Chunks /\ Len(received) \in Nat
    BY <1>5, StillOpen
  <2>2. ~Whole
    BY <2>1, FileTransferAssumption DEF Whole
  <2>3. UNCHANGED <<caller, failed>> /\ (status' = status \/ status' = "FAILED")
    BY <1>5 DEF HandleStream, TakeFromBroker, WriteChunk, LastChunk, RequestMore
  <2> QED
    BY <1>f, <2>2, <2>3 DEF WholeInv, CompletedIsWhole
<1>6. CASE TakeResult
  <2>1. UNCHANGED <<received, status, failed>> /\ caller' \in {"raised", "404", "checking"}
        /\ (caller' = "checking" => caller = "waiting" /\ status = "COMPLETED" /\ ~failed)
    BY <1>6, <1>t DEF TakeResult, transfer, job, TypeOK
  <2> QED
    BY <1>f, <2>1 DEF WholeInv, CompletedIsWhole, Whole
<1>7. CASE CheckJob \/ GiveUp
  <2>1. UNCHANGED <<received, status, failed>> /\ caller' \in {"400", "200", "raised"}
        /\ (caller' = "200" => caller = "checking")
    BY <1>7 DEF CheckJob, GiveUp, transfer, job
  <2> QED
    BY <1>f, <2>1 DEF WholeInv, CompletedIsWhole, Whole
<1> QED
  BY <1>2, <1>3, <1>4, <1>5, <1>6, <1>7 DEF Next

-----------------------------------------------------------------------------
LEMMA InitWhole == Init => WholeInv
<1> SUFFICES ASSUME Init PROVE WholeInv
  OBVIOUS
<1>1. ChunksRise
  BY DEF Init, ChunksRise, InOrder
<1>2. OffsetsRise
  BY DEF Init, OffsetsRise, Rising
<1>3. FileStays /\ ResultIsLast
  BY DEF Init, FileStays, ResultIsLast
<1>4. NothingIsMissing
  BY DEF Init, NothingIsMissing, Somewhere
<1>5. CompletedIsWhole
  BY DEF Init, CompletedIsWhole
<1> QED
  BY <1>1, <1>2, <1>3, <1>4, <1>5 DEF WholeInv

LEMMA WholeStep == IInv /\ WholeInv /\ [Next]_vars => WholeInv'
<1> SUFFICES ASSUME IInv, WholeInv, [Next]_vars PROVE WholeInv'
  OBVIOUS
<1>1. CASE Next
  BY <1>1, ChunksStep, OffsetsStep, FileStep, ResultStep, MissingStep, CompletedStep DEF WholeInv
<1>2. CASE UNCHANGED vars
  BY <1>2 DEF vars, transfer, job, reader, file, WholeInv, ChunksRise, InOrder, Ahead, OffsetsRise,
     Rising, FileStays, ResultIsLast, NothingIsMissing, Somewhere, CompletedIsWhole, Whole
<1> QED
  BY <1>1, <1>2

(* The chunks of a download are written in order and none twice, whatever  *)
(* is lost; and when nothing was lost and the file did not change, what    *)
(* fetch_file returns as good is the whole file.                           *)
THEOREM GoodIsWholeAlways == Spec => []GoodIsWhole
<1>1. Init => IInv /\ WholeInv
  BY InitInv, InitWhole
<1>2. IInv /\ WholeInv /\ [Next]_vars => (IInv /\ WholeInv)'
  BY StepInv, WholeStep
<1>3. IInv /\ WholeInv => GoodIsWhole
  BY DEF WholeInv, ChunksRise, CompletedIsWhole, GoodIsWhole
<1> QED
  BY <1>1, <1>2, <1>3, PTL DEF Spec
=============================================================================
