----------------------- MODULE ClientChannels_proofs -----------------------
(***************************************************************************)
(* AskedOnce and ReplyIsKept of the client's queues and its jobs table,    *)
(* for any messages, callers, threads, batch size and number of jobs.      *)
(* PromptInv, ReplyInv and PostInv are inductive together; each is about   *)
(* one of the three parts, which share no state.                           *)
(***************************************************************************)
EXTENDS MCClientChannels, FiniteSetTheorems, TLAPS

-----------------------------------------------------------------------------
(* Nobody is prompted twice: an input id is in input_request_ids from its  *)
(* first event on, and in one event of the buffer or one prompt.           *)
InputIds == {m.input : m \in Messages}
EventsOK ==
  /\ to_client \in Seq(Messages \cup {Result})
  /\ events_buffer \in Seq(Messages \cup {Marker})
  /\ prompted \in Seq(InputIds)
PromptInv ==
  /\ EventsOK
  /\ \A i \in 1..Len(prompted) : prompted[i] \in input_request_ids /\ prompted[i] # NoRequest
  /\ \A k \in 1..Len(events_buffer) :
       events_buffer[k].input \in input_request_ids \cup {NoRequest}
  /\ \A i, k \in 1..Len(prompted) : prompted[i] = prompted[k] => i = k
  /\ \A i, k \in 1..Len(events_buffer) :
       events_buffer[i].input = events_buffer[k].input /\ events_buffer[i].input # NoRequest
         => i = k
  /\ \A i \in 1..Len(prompted), k \in 1..Len(events_buffer) :
       prompted[i] # events_buffer[k].input

(* No reply is lost: the uuids of the waiting callers are their own.       *)
CallsOK ==
  /\ call \in [Callers -> [state : {"idle", "waiting", "200", "408"}, uuid : Nat, holds : Nat]]
  /\ calls \in Nat /\ mmi_queue \in Seq(Nat)
ReplyInv ==
  /\ CallsOK
  /\ \A c \in Callers : call[c].uuid <= calls /\ (call[c].state = "waiting" => call[c].uuid # 0)
  /\ \A c, d \in Callers : call[c].uuid = call[d].uuid /\ call[c].uuid # 0 => c = d
  /\ ReplyIsKept

(* No job is posted twice or passes another of its thread.  A row that is  *)
(* being added is its thread's last; a batch to post that has a job has    *)
(* the older ones of its thread, unless they have no future; what was      *)
(* posted is not new and comes before whatever can still be posted.        *)
Row == [status : {"NEW", "SUBMITTING", "ACTIVE", "OVER"}, thread : Submitters,
        polled : BOOLEAN, late : BOOLEAN]
RowsOK ==
  /\ rows \in Seq(Row) /\ adding \in [Submitters -> Nat]
  /\ futures \subseteq DOMAIN rows /\ batch \subseteq DOMAIN rows
  /\ posts \in Seq(Nat) /\ turn \in {"post", "poll"}
Coming(j) == j \in futures \/ \E t \in Submitters : adding[t] = j
Postable(j) == Coming(j) /\ (rows[j].status = "NEW" \/ (turn = "post" /\ j \in batch))

AddingIsLast ==
  \A t \in Submitters : adding[t] # 0 =>
    /\ adding[t] \in DOMAIN rows \ futures /\ rows[adding[t]].thread = t
    /\ \A j \in DOMAIN rows : rows[j].thread = t => j <= adding[t]
BatchIsClosed ==
  turn = "post" => \A j \in batch, k \in futures :
    k < j /\ rows[k].status = "NEW" /\ rows[k].thread = rows[j].thread => k \in batch
PostedGoFirst ==
  /\ \A i \in 1..Len(posts) :
       posts[i] \in DOMAIN rows /\ rows[posts[i]].status # "NEW" /\ ~Postable(posts[i])
  /\ \A i \in 1..Len(posts), k \in DOMAIN rows :
       Postable(k) /\ rows[k].thread = rows[posts[i]].thread => posts[i] < k
PostInv == RowsOK /\ AddingIsLast /\ BatchIsClosed /\ PostedGoFirst /\ Table!PostedOnceInOrder

-----------------------------------------------------------------------------
(* The rest of a sequence, and a sequence with one more.                   *)
LEMMA TailElements ==
  ASSUME NEW S, NEW s \in Seq(S), s # <<>>
  PROVE  /\ Tail(s) \in Seq(S) /\ Len(s) \in Nat \ {0} /\ Len(Tail(s)) = Len(s) - 1
         /\ Head(s) = s[1] /\ s[1] \in S /\ 1 \in 1..Len(s)
         /\ \A i \in 1..Len(Tail(s)) : i + 1 \in 1..Len(s) /\ Tail(s)[i] = s[i + 1]
OBVIOUS

LEMMA AppendElements ==
  ASSUME NEW S, NEW s \in Seq(S), NEW m \in S
  PROVE  /\ Append(s, m) \in Seq(S) /\ Len(s) \in Nat /\ Len(Append(s, m)) = Len(s) + 1
         /\ Append(s, m)[Len(s) + 1] = m
         /\ \A i \in 1..Len(s) : Append(s, m)[i] = s[i]
         /\ \A i \in 1..Len(Append(s, m)) : i \in 1..Len(s) \/ i = Len(s) + 1
OBVIOUS

(* Every message but the result is one of Messages, and not the marker.    *)
LEMMA Kinds ==
  /\ Result.input = NoRequest /\ Marker.input = NoRequest
  /\ \A m \in Messages : m # Marker /\ m # Result /\ m.input \in InputIds
<1>1. \A m \in Messages : m.kind \in {"EVENT", "PENDING"}
  BY ChannelsAssumption
<1> QED
  BY <1>1 DEF Result, Marker, InputIds

LEMMA PromptStep ==
  ASSUME PromptInv, EventsNext
  PROVE  PromptInv'
<1>t. /\ to_client \in Seq(Messages \cup {Result})
      /\ events_buffer \in Seq(Messages \cup {Marker})
      /\ prompted \in Seq(InputIds)
      /\ Len(prompted) \in Nat /\ Len(events_buffer) \in Nat
  BY DEF PromptInv, EventsOK
<1>0. ASSUME UNCHANGED <<events_buffer, input_request_ids, prompted>>,
             to_client' \in Seq(Messages \cup {Result})
      PROVE  PromptInv'
  BY <1>0 DEF PromptInv, EventsOK
<1>a. ASSUME NEW m \in Messages \cup {Marker}, events_buffer' = Append(events_buffer, m),
             m.input = NoRequest \/ m.input \notin input_request_ids,
             input_request_ids' = input_request_ids \cup ({m.input} \ {NoRequest}),
             prompted' = prompted, to_client' \in Seq(Messages \cup {Result})
      PROVE  PromptInv'
  <2> DEFINE b == events_buffer
             L == Len(events_buffer)
  <2>1. /\ b' \in Seq(Messages \cup {Marker}) /\ Len(b') = L + 1 /\ b'[L + 1] = m
        /\ \A i \in 1..L : b'[i] = b[i]
        /\ \A i \in 1..Len(b') : i \in 1..L \/ i = L + 1
    BY <1>t, <1>a, AppendElements
  <2>2. EventsOK'
    BY <1>a, <1>t, <2>1 DEF EventsOK
  <2>3. \A i \in 1..Len(prompted) : prompted[i] \in input_request_ids' /\ prompted[i] # NoRequest
    BY <1>a DEF PromptInv
  <2>4. \A k \in 1..Len(b') : b'[k].input \in input_request_ids' \cup {NoRequest}
    BY <1>a, <2>1 DEF PromptInv
  <2>5. \A i, k \in 1..Len(b') : b'[i].input = b'[k].input /\ b'[i].input # NoRequest => i = k
    <3> TAKE i, k \in 1..Len(b')
    <3> HAVE b'[i].input = b'[k].input /\ b'[i].input # NoRequest
    <3>1. CASE i \in 1..L /\ k \in 1..L
      BY <2>1, <3>1 DEF PromptInv
    <3>2. CASE i = L + 1 /\ k \in 1..L
      <4>1. b'[i] = m /\ b'[k] = b[k] /\ b[k].input \in input_request_ids \cup {NoRequest}
        BY <2>1, <3>2 DEF PromptInv
      <4> QED
        BY <1>a, <4>1
    <3>3. CASE i \in 1..L /\ k = L + 1
      <4>1. b'[k] = m /\ b'[i] = b[i] /\ b[i].input \in input_request_ids \cup {NoRequest}
        BY <2>1, <3>3 DEF PromptInv
      <4> QED
        BY <1>a, <4>1
    <3> QED
      BY <2>1, <3>1, <3>2, <3>3
  <2>6. \A i \in 1..Len(prompted), k \in 1..Len(b') : prompted[i] # b'[k].input
    <3> TAKE i \in 1..Len(prompted), k \in 1..Len(b')
    <3>1. CASE k \in 1..L
      BY <2>1, <3>1 DEF PromptInv
    <3>2. CASE k = L + 1
      <4>1. prompted[i] \in input_request_ids /\ prompted[i] # NoRequest
        BY DEF PromptInv
      <4> QED
        BY <1>a, <2>1, <3>2, <4>1
    <3> QED
      BY <2>1, <3>1, <3>2
  <2>7. \A i, k \in 1..Len(prompted) : prompted[i] = prompted[k] => i = k
    BY DEF PromptInv
  <2> HIDE DEF b, L
  <2> QED
    BY <1>a, <2>2, <2>3, <2>4, <2>5, <2>6, <2>7 DEF PromptInv, b
<1>1. ASSUME NEW m \in Messages \cup {Result}, Send(m) PROVE PromptInv'
  BY <1>0, <1>1, <1>t DEF Send, reader
<1>2. CASE AddEvent
  <2> DEFINE m == Head(to_client)
  <2>1. to_client # <<>> /\ m # Result /\ to_client' = Tail(to_client) /\ prompted' = prompted
    BY <1>2 DEF AddEvent, reader
  <2>2. m \in Messages /\ to_client' \in Seq(Messages \cup {Result})
    BY <1>t, <2>1, TailElements
  <2>3. CASE NewEvent(m)
    <3>1. /\ events_buffer' = Append(events_buffer, m)
          /\ input_request_ids' = input_request_ids \cup ({m.input} \ {NoRequest})
      BY <1>2, <2>3 DEF AddEvent
    <3> QED
      BY <1>a, <2>1, <2>2, <2>3, <3>1 DEF NewEvent
  <2>4. CASE ~NewEvent(m)
    BY <1>0, <1>2, <2>1, <2>2, <2>4 DEF AddEvent
  <2> QED
    BY <2>3, <2>4
<1>3. CASE RecvResult
  <2>1. to_client' \in Seq(Messages \cup {Result})
    BY <1>3, <1>t, TailElements DEF RecvResult
  <2> QED
    BY <1>0, <1>3, <2>1 DEF RecvResult, reader
<1>4. CASE DeadlinePasses \/ SendResponse
  BY <1>0, <1>4, <1>t DEF DeadlinePasses, SendResponse, future, reader
<1>5. ASSUME NEW t \in Threads, EndMark(t) PROVE PromptInv'
  <2>1. /\ events_buffer' = Append(events_buffer, Marker)
        /\ UNCHANGED <<input_request_ids, prompted, to_client>>
    BY <1>5 DEF EndMark, WithMarker, reader
  <2> QED
    BY <1>a, <1>t, <2>1, Kinds
<1>6. CASE NextEvent
  <2> DEFINE b == events_buffer
             e == Head(events_buffer)
  <2>1. /\ b # <<>> /\ b' = Tail(b) /\ UNCHANGED <<to_client, input_request_ids>>
        /\ \/ prompted' = prompted
           \/ prompted' = Append(prompted, e.input) /\ e \in Messages /\ e.input # NoRequest
    <3>1. events_buffer # <<>> /\ e \in Messages \cup {Marker}
      BY <1>6, <1>t, TailElements DEF NextEvent
    <3> QED
      BY <1>6, <3>1 DEF NextEvent
  <2>2. /\ b' \in Seq(Messages \cup {Marker}) /\ Len(b) \in Nat \ {0} /\ Len(b') = Len(b) - 1
        /\ e = b[1] /\ 1 \in 1..Len(b)
        /\ \A i \in 1..Len(b') : i + 1 \in 1..Len(b) /\ b'[i] = b[i + 1]
    <3>1. b \in Seq(Messages \cup {Marker}) /\ b # <<>>
      BY <1>t, <2>1
    <3>2. /\ Tail(b) \in Seq(Messages \cup {Marker}) /\ Len(b) \in Nat \ {0}
          /\ Len(Tail(b)) = Len(b) - 1 /\ Head(b) = b[1] /\ 1 \in 1..Len(b)
          /\ \A i \in 1..Len(Tail(b)) : i + 1 \in 1..Len(b) /\ Tail(b)[i] = b[i + 1]
      BY <3>1, TailElements
    <3> QED
      BY <2>1, <3>2
  <2>3. \A k \in 1..Len(b') : b'[k].input \in input_request_ids' \cup {NoRequest}
    BY <2>1, <2>2 DEF PromptInv
  <2>4. \A i, k \in 1..Len(b') : b'[i].input = b'[k].input /\ b'[i].input # NoRequest => i = k
    <3> TAKE i, k \in 1..Len(b')
    <3> HAVE b'[i].input = b'[k].input /\ b'[i].input # NoRequest
    <3>1. i + 1 = k + 1
      BY <2>2 DEF PromptInv
    <3> QED
      BY <2>2, <3>1
  <2>5. \A i \in 1..Len(prompted), k \in 1..Len(b') : prompted[i] # b'[k].input
    <3>1. \A i \in 1..Len(prompted), k \in 1..Len(b) : prompted[i] # b[k].input
      BY DEF PromptInv
    <3> TAKE i \in 1..Len(prompted), k \in 1..Len(b')
    <3>2. k + 1 \in 1..Len(b) /\ b'[k] = b[k + 1]
      BY <2>2
    <3> QED
      BY <3>1, <3>2
  <2>6. CASE prompted' = prompted
    BY <1>t, <2>1, <2>2, <2>3, <2>4, <2>5, <2>6 DEF PromptInv, EventsOK
  <2>7. CASE prompted' = Append(prompted, e.input) /\ e \in Messages /\ e.input # NoRequest
    <3> DEFINE L == Len(prompted)
    <3>1. /\ prompted' \in Seq(InputIds) /\ Len(prompted') = L + 1 /\ prompted'[L + 1] = e.input
          /\ \A i \in 1..L : prompted'[i] = prompted[i]
          /\ \A i \in 1..Len(prompted') : i \in 1..L \/ i = L + 1
      BY <1>t, <2>7, Kinds, AppendElements
    <3>2. e.input \in input_request_ids /\ \A i \in 1..L : prompted[i] # e.input
      BY <2>2, <2>7 DEF PromptInv
    <3>3. \A k \in 1..Len(b') : b'[k].input # e.input
      <4> TAKE k \in 1..Len(b')
      <4>1. k + 1 # 1
        BY <2>2
      <4> QED
        BY <2>2, <2>7, <4>1 DEF PromptInv
    <3>4. \A i \in 1..Len(prompted') : prompted'[i] \in input_request_ids /\ prompted'[i] # NoRequest
      BY <2>7, <3>1, <3>2 DEF PromptInv
    <3>5. \A i, k \in 1..Len(prompted') : prompted'[i] = prompted'[k] => i = k
      BY <3>1, <3>2 DEF PromptInv
    <3>6. \A i \in 1..Len(prompted'), k \in 1..Len(b') : prompted'[i] # b'[k].input
      BY <2>5, <3>1, <3>3
    <3> QED
      BY <1>t, <2>1, <2>2, <2>3, <2>4, <3>1, <3>4, <3>5, <3>6 DEF PromptInv, EventsOK
  <2> QED
    BY <2>1, <2>6, <2>7
<1> QED
  BY <1>1, <1>2, <1>3, <1>4, <1>5, <1>6 DEF EventsNext

-----------------------------------------------------------------------------
(* A caller's reply is in the queue or in the hands of a waiting caller.   *)
Somewhere(u) == Contains(mmi_queue, u)
                \/ \E d \in Callers : call[d].state = "waiting" /\ call[d].holds = u

LEMMA CallRecords ==
  ASSUME NEW r \in [state : {"idle", "waiting", "200", "408"}, uuid : Nat, holds : Nat], NEW x
  PROVE  /\ [r EXCEPT !.holds = x] = [state |-> r.state, uuid |-> r.uuid, holds |-> x]
         /\ [r EXCEPT !.state = x] = [state |-> x, uuid |-> r.uuid, holds |-> r.holds]
OBVIOUS

LEMMA ReplyStep ==
  ASSUME ReplyInv, MmiNext
  PROVE  ReplyInv'
<1>t. /\ call \in [Callers -> [state : {"idle", "waiting", "200", "408"}, uuid : Nat, holds : Nat]]
      /\ calls \in Nat /\ mmi_queue \in Seq(Nat)
  BY DEF ReplyInv, CallsOK
<1>k. \A c \in Callers :
        /\ call[c].state = "waiting" /\ call[c].uuid \notin broker_owes => Somewhere(call[c].uuid)
        /\ call[c].state = "200" => call[c].holds = call[c].uuid
  BY DEF ReplyInv, ReplyIsKept, Somewhere
<1>i. /\ \A c \in Callers : call[c].uuid <= calls /\ (call[c].state = "waiting" => call[c].uuid # 0)
      /\ \A c, d \in Callers : call[c].uuid = call[d].uuid /\ call[c].uuid # 0 => c = d
  BY DEF ReplyInv
(* A step that changes one call and keeps its uuid. *)
<1>c. ASSUME NEW c \in Callers, NEW st \in {"idle", "waiting", "200", "408"}, NEW h \in Nat,
             call' = [call EXCEPT ![c] = [state |-> st, uuid |-> call[c].uuid, holds |-> h]],
             st = "waiting" => call[c].state = "waiting",
             st = "200" => h = call[c].uuid,
             calls' = calls, broker_owes' = broker_owes, mmi_queue' \in Seq(Nat),
             \A d \in Callers : Somewhere(call[d].uuid) /\ call[d].state = "waiting"
                                  /\ (d = c => st = "waiting") => Somewhere(call[d].uuid)'
      PROVE  ReplyInv'
  <2>1. /\ call' \in [Callers -> [state : {"idle", "waiting", "200", "408"}, uuid : Nat, holds : Nat]]
        /\ \A d \in Callers : call'[d].uuid = call[d].uuid
        /\ \A d \in Callers : d # c => call'[d] = call[d]
        /\ call'[c].state = st /\ call'[c].holds = h
    BY <1>c, <1>t
  <2>2. \A d \in Callers : call'[d].state = "waiting" =>
          call[d].state = "waiting" /\ (d = c => st = "waiting")
    BY <1>c, <2>1
  <2>3. \A d \in Callers : call'[d].state = "waiting" /\ call'[d].uuid \notin broker_owes'
          => Somewhere(call[d].uuid)'
    BY <1>c, <1>k, <2>1, <2>2
  <2>4. \A d \in Callers : call'[d].state = "200" => call'[d].holds = call'[d].uuid
    BY <1>c, <1>k, <2>1
  <2>5. CallsOK'
    BY <1>c, <1>t, <2>1 DEF CallsOK
  <2>6. ReplyIsKept'
    BY <2>3, <2>4 DEF ReplyIsKept, Somewhere
  <2> QED
    BY <1>c, <1>i, <2>1, <2>2, <2>5, <2>6 DEF ReplyInv
<1>1. ASSUME NEW uuid \in Uuids, MmiService(uuid) PROVE ReplyInv'
  <2>1. /\ UNCHANGED <<call, calls>> /\ mmi_queue' = Append(mmi_queue, uuid)
        /\ broker_owes' = broker_owes \ {uuid} /\ uuid \in Nat
    BY <1>1, ChannelsAssumption DEF MmiService, Uuids
  <2>2. /\ mmi_queue' \in Seq(Nat) /\ Len(mmi_queue) \in Nat
        /\ Len(mmi_queue') = Len(mmi_queue) + 1 /\ mmi_queue'[Len(mmi_queue) + 1] = uuid
        /\ \A i \in 1..Len(mmi_queue) : mmi_queue'[i] = mmi_queue[i]
    BY <1>t, <2>1, AppendElements
  <2>3. Contains(mmi_queue', uuid) /\ \A u : Contains(mmi_queue, u) => Contains(mmi_queue', u)
    BY <2>2 DEF Contains
  <2>4. \A c \in Callers : call[c].state = "waiting" /\ call[c].uuid \notin broker_owes'
          => Somewhere(call[c].uuid)'
    BY <1>k, <2>1, <2>3 DEF Somewhere
  <2>5. ReplyIsKept'
    BY <1>k, <2>1, <2>4 DEF ReplyIsKept, Somewhere
  <2> QED
    BY <1>i, <1>t, <2>1, <2>2, <2>5 DEF ReplyInv, CallsOK
<1>2. ASSUME NEW c \in Callers, StartCall(c) PROVE ReplyInv'
  <2> DEFINE new == [state |-> "waiting", uuid |-> calls + 1, holds |-> NoMessage]
  <2>1. /\ call[c].state # "waiting" /\ calls' = calls + 1 /\ call' = [call EXCEPT ![c] = new]
        /\ broker_owes' = broker_owes \cup {calls + 1} /\ mmi_queue' = mmi_queue
    BY <1>2 DEF StartCall
  <2>2. /\ call' \in [Callers -> [state : {"idle", "waiting", "200", "408"}, uuid : Nat, holds : Nat]]
        /\ \A d \in Callers : d # c => call'[d] = call[d]
        /\ call'[c].state = "waiting" /\ call'[c].uuid = calls + 1
    BY <1>t, <2>1 DEF NoMessage
  <2>3. \A u : Somewhere(u) => Somewhere(u)'
    BY <2>1, <2>2 DEF Somewhere
  <2>4. ReplyIsKept'
    <3> SUFFICES ASSUME NEW d \in Callers
                 PROVE  /\ call'[d].state = "waiting" /\ call'[d].uuid \notin broker_owes'
                             => Somewhere(call[d].uuid)'
                        /\ call'[d].state = "200" => call'[d].holds = call'[d].uuid
      BY DEF ReplyIsKept, Somewhere
    <3>1. CASE d = c
      BY <2>1, <2>2, <3>1
    <3>2. CASE d # c
      BY <1>k, <2>1, <2>2, <2>3, <3>2
    <3> QED
      BY <3>1, <3>2
  <2>5. \A d \in Callers : call'[d].uuid <= calls' /\ (call'[d].state = "waiting" => call'[d].uuid # 0)
    BY <1>i, <1>t, <2>1, <2>2
  <2>6. \A d, e \in Callers : call'[d].uuid = call'[e].uuid /\ call'[d].uuid # 0 => d = e
    <3>1. \A d \in Callers : d # c => call'[d].uuid # calls + 1
      BY <1>i, <1>t, <2>2
    <3> QED
      BY <1>i, <2>2, <3>1
  <2> QED
    BY <1>t, <2>1, <2>2, <2>4, <2>5, <2>6 DEF ReplyInv, CallsOK
<1>3. ASSUME NEW c \in Callers, TakeReply(c) PROVE ReplyInv'
  <2> DEFINE q == mmi_queue
             h == Head(mmi_queue)
  <2>1. /\ call[c].state = "waiting" /\ call[c].holds = NoMessage /\ q # <<>> /\ q' = Tail(q)
        /\ call' = [call EXCEPT ![c].holds = h] /\ UNCHANGED <<broker_owes, calls>>
    BY <1>3 DEF TakeReply
  <2>2. /\ q' \in Seq(Nat) /\ Len(q) \in Nat \ {0} /\ Len(q') = Len(q) - 1 /\ h = q[1] /\ h \in Nat
        /\ \A i \in 1..Len(q') : q'[i] = q[i + 1]
    <3>1. q \in Seq(Nat) /\ q # <<>>
      BY <1>t, <2>1
    <3>2. /\ Tail(q) \in Seq(Nat) /\ Len(q) \in Nat \ {0} /\ Len(Tail(q)) = Len(q) - 1
          /\ Head(q) = q[1] /\ q[1] \in Nat /\ \A i \in 1..Len(Tail(q)) : Tail(q)[i] = q[i + 1]
      BY <3>1, TailElements
    <3> QED
      BY <2>1, <3>2
  <2>3. call' = [call EXCEPT ![c] = [state |-> "waiting", uuid |-> call[c].uuid, holds |-> h]]
    <3> HIDE DEF h
    <3>1. call' = [call EXCEPT ![c] = [call[c] EXCEPT !.holds = h]]
      BY <2>1
    <3>2. call[c] \in [state : {"idle", "waiting", "200", "408"}, uuid : Nat, holds : Nat]
      BY <1>t
    <3>3. [call[c] EXCEPT !.holds = h] = [state |-> call[c].state, uuid |-> call[c].uuid, holds |-> h]
      BY <3>2, CallRecords
    <3> QED
      BY <2>1, <3>1, <3>3
  <2>4. \A d \in Callers : d # c => call'[d] = call[d]
    BY <1>t, <2>3
  <2>5. call'[c].state = "waiting" /\ call'[c].holds = h
    BY <1>t, <2>3
  <2>6. \A d \in Callers : Somewhere(call[d].uuid) /\ call[d].state = "waiting"
          => Somewhere(call[d].uuid)'
    <3> SUFFICES ASSUME NEW d \in Callers, Somewhere(call[d].uuid), call[d].state = "waiting"
                 PROVE  Somewhere(call[d].uuid)'
      OBVIOUS
    <3> DEFINE u == call[d].uuid
    <3>0. u # 0 /\ u' = u
      <4>1. u # 0
        BY <1>i
      <4> QED
        BY <1>t, <2>3, <4>1
    <3>1. CASE \E e \in Callers : call[e].state = "waiting" /\ call[e].holds = u
      <4>1. PICK e \in Callers : call[e].state = "waiting" /\ call[e].holds = u
        BY <3>1
      <4>2. e # c
        BY <2>1, <3>0, <4>1 DEF NoMessage
      <4> QED
        BY <2>4, <3>0, <4>1, <4>2 DEF Somewhere
    <3>2. CASE Contains(q, u)
      <4>1. PICK i \in 1..Len(q) : q[i] = u
        BY <3>2 DEF Contains
      <4>2. CASE i = 1
        BY <2>2, <2>5, <3>0, <4>1, <4>2 DEF Somewhere
      <4>3. CASE i # 1
        <5>1. i - 1 \in 1..Len(q') /\ q'[i - 1] = u
          BY <2>2, <4>1, <4>3
        <5>2. Contains(q', u)
          BY <5>1 DEF Contains
        <5> QED
          BY <3>0, <5>2 DEF Somewhere
      <4> QED
        BY <4>2, <4>3
    <3> QED
      BY <3>1, <3>2 DEF Somewhere
  <2> HIDE DEF h
  <2> QED
    BY <1>c, <2>1, <2>2, <2>3, <2>6
<1>4. ASSUME NEW c \in Callers, CheckReply(c) PROVE ReplyInv'
  <2> DEFINE h == call[c].holds
  <2>1. call[c].state = "waiting" /\ h # NoMessage /\ UNCHANGED <<broker_owes, calls>> /\ h \in Nat
    BY <1>4, <1>t DEF CheckReply
  <2>2. CASE h = call[c].uuid
    <3>1. /\ call' = [call EXCEPT ![c] = [state |-> "200", uuid |-> call[c].uuid, holds |-> h]]
          /\ mmi_queue' = mmi_queue
      BY <1>4, <1>t, <2>2 DEF CheckReply
    <3>2. \A d \in Callers : Somewhere(call[d].uuid) /\ call[d].state = "waiting" /\ d # c
            => Somewhere(call[d].uuid)'
      <4> SUFFICES ASSUME NEW d \in Callers, Somewhere(call[d].uuid), call[d].state = "waiting", d # c
                   PROVE  Somewhere(call[d].uuid)'
        OBVIOUS
      <4>1. call'[d].uuid = call[d].uuid /\ call[d].uuid # call[c].uuid
        BY <1>i, <1>t, <3>1
      <4>2. \A e \in Callers : call[e].holds = call[d].uuid => call'[e] = call[e]
        BY <1>t, <2>2, <3>1, <4>1
      <4> QED
        BY <3>1, <4>1, <4>2 DEF Somewhere
    <3> HIDE DEF h
    <3> QED
      BY <1>c, <1>t, <2>1, <2>2, <3>1, <3>2
  <2>3. CASE h # call[c].uuid
    <3>1. /\ call' = [call EXCEPT ![c] = [state |-> "waiting", uuid |-> call[c].uuid, holds |-> 0]]
          /\ mmi_queue' = Append(mmi_queue, h)
      BY <1>4, <1>t, <2>1, <2>3 DEF CheckReply, Deferred, NoMessage
    <3> HIDE DEF h
    <3>2. /\ mmi_queue' \in Seq(Nat) /\ Len(mmi_queue) \in Nat
          /\ Len(mmi_queue') = Len(mmi_queue) + 1 /\ mmi_queue'[Len(mmi_queue) + 1] = h
          /\ \A i \in 1..Len(mmi_queue) : mmi_queue'[i] = mmi_queue[i]
      BY <1>t, <2>1, <3>1, AppendElements
    <3>3. Contains(mmi_queue', h) /\ \A u : Contains(mmi_queue, u) => Contains(mmi_queue', u)
      BY <3>2 DEF Contains
    <3>4. \A d \in Callers : Somewhere(call[d].uuid) => Somewhere(call[d].uuid)'
      <4> SUFFICES ASSUME NEW d \in Callers, Somewhere(call[d].uuid)
                   PROVE  Somewhere(call[d].uuid)'
        OBVIOUS
      <4>1. call'[d].uuid = call[d].uuid
        BY <1>t, <3>1
      <4>2. \A e \in Callers : call'[e] = call[e] \/ call[e].holds = h
        BY <1>t, <3>1 DEF h
      <4> QED
        BY <3>3, <4>1, <4>2 DEF Somewhere
    <3> QED
      BY <1>c, <1>t, <2>1, <3>1, <3>2, <3>4
  <2> QED
    BY <2>2, <2>3
<1>5. ASSUME NEW c \in Callers, CallTimeout(c) PROVE ReplyInv'
  <2>1. /\ call[c].holds = 0
        /\ call' = [call EXCEPT ![c] = [state |-> "408", uuid |-> call[c].uuid, holds |-> 0]]
        /\ UNCHANGED <<broker_owes, mmi_queue, calls>>
    <3>1. /\ call[c].holds = 0 /\ UNCHANGED <<broker_owes, mmi_queue, calls>>
          /\ call' = [call EXCEPT ![c] = [call[c] EXCEPT !.state = "408"]]
      BY <1>5 DEF CallTimeout, NoMessage
    <3> QED
      BY <1>t, <3>1, CallRecords
  <2>2. \A d \in Callers : Somewhere(call[d].uuid) /\ call[d].state = "waiting" /\ d # c
          => Somewhere(call[d].uuid)'
    <3> SUFFICES ASSUME NEW d \in Callers, Somewhere(call[d].uuid), call[d].state = "waiting", d # c
                 PROVE  Somewhere(call[d].uuid)'
      OBVIOUS
    <3>1. call'[d].uuid = call[d].uuid /\ call[d].uuid # 0
      BY <1>i, <1>t, <2>1
    <3>2. \A e \in Callers : call[e].holds = call[d].uuid => call'[e] = call[e]
      BY <1>t, <2>1, <3>1
    <3> QED
      BY <2>1, <3>1, <3>2 DEF Somewhere
  <2> QED
    BY <1>c, <1>t, <2>1, <2>2
<1> QED
  BY <1>1, <1>2, <1>3, <1>4, <1>5 DEF MmiNext

-----------------------------------------------------------------------------
(* A fetched batch has with a row all earlier ones that match.             *)
LEMMA FetchedIsClosed ==
  ASSUME NEW n \in Nat, NEW js \in SUBSET (1..n), NEW limit \in Nat
  PROVE  /\ Table!Fetched(js, limit) \subseteq js
         /\ \A j \in Table!Fetched(js, limit), k \in js : k < j => k \in Table!Fetched(js, limit)
<1> DEFINE Before(x) == {y \in js : y < x}
<1>1. Table!Fetched(js, limit) = {j \in js : Cardinality(Before(j)) < limit}
  BY DEF Table!Fetched, Table!Cardinality, Cardinality, Table!Earlier
<1>2. ASSUME NEW j \in js, NEW k \in js, k < j, Cardinality(Before(j)) < limit
      PROVE  Cardinality(Before(k)) < limit
  <2>0. j \in Int /\ k \in Int /\ \A y \in js : y \in 1..n /\ y \in Int
    OBVIOUS
  <2>1. Before(k) \subseteq Before(j) /\ Before(j) \subseteq 1..n
    <3>1. \A y \in js : y < k => y < j
      BY <1>2, <2>0
    <3> QED
      BY <3>1
  <2>2. IsFiniteSet(Before(j)) /\ IsFiniteSet(Before(k))
    <3>1. IsFiniteSet(1..n)
      BY FS_Interval
    <3>2. IsFiniteSet(Before(j))
      BY <2>1, <3>1, FS_Subset
    <3> QED
      BY <2>1, <3>2, FS_Subset
  <2>3. Cardinality(Before(k)) <= Cardinality(Before(j))
    BY <2>1, <2>2, FS_Subset
  <2>4. Cardinality(Before(k)) \in Nat /\ Cardinality(Before(j)) \in Nat
    BY <2>2, FS_CardinalityType
  <2> HIDE DEF Before
  <2> QED
    BY <1>2, <2>3, <2>4
<1> QED
  BY <1>1, <1>2

(* A step that makes no row new, keeps the threads of the rows, and lets   *)
(* nothing become postable that was not.                                   *)
LEMMA QuietJobs ==
  ASSUME PostInv, rows' \in Seq(Row), DOMAIN rows' = DOMAIN rows,
         \A j \in DOMAIN rows : rows'[j].thread = rows[j].thread,
         \A j \in DOMAIN rows : rows'[j].status = "NEW" => rows[j].status = "NEW",
         UNCHANGED <<adding, futures, posts>>, batch' \subseteq DOMAIN rows, turn' \in {"post", "poll"},
         turn' = "post" => \A j \in batch' : rows[j].status = "NEW" \/ (turn = "post" /\ j \in batch),
         BatchIsClosed'
  PROVE  PostInv'
<1>1. RowsOK'
  BY DEF PostInv, RowsOK
<1>2. AddingIsLast'
  BY DEF PostInv, AddingIsLast
<1>3. \A k \in DOMAIN rows : Postable(k)' => Postable(k)
  BY DEF Postable, Coming
<1>4. \A i \in 1..Len(posts) : posts[i] \in DOMAIN rows
  BY DEF PostInv, PostedGoFirst
<1>5. PostedGoFirst'
  BY <1>3, <1>4 DEF PostInv, PostedGoFirst
<1>6. Table!PostedOnceInOrder'
  <2>1. DOMAIN posts = 1..Len(posts)
    BY DEF PostInv, RowsOK
  <2> QED
    BY <1>4, <2>1 DEF PostInv, Table!PostedOnceInOrder
<1> QED
  BY <1>1, <1>2, <1>5, <1>6 DEF PostInv

(* A row that gets another status, poll time or deadline.                  *)
LEMMA ChangedRow ==
  ASSUME RowsOK, NEW j, NEW r \in Row, r.thread = rows[j].thread,
         rows' = [rows EXCEPT ![j] = r]
  PROVE  /\ rows' \in Seq(Row) /\ DOMAIN rows' = DOMAIN rows
         /\ \A k \in DOMAIN rows : rows'[k].thread = rows[k].thread
         /\ \A k \in DOMAIN rows : k # j => rows'[k] = rows[k]
         /\ j \in DOMAIN rows => rows'[j] = r
<1>1. rows \in Seq(Row)
  BY DEF RowsOK
<1>2. DOMAIN rows' = DOMAIN rows /\ DOMAIN rows = 1..Len(rows)
  BY <1>1
<1>3. \A k \in DOMAIN rows : rows'[k] = IF k = j THEN r ELSE rows[k]
  BY <1>1
<1>4. rows' \in Seq(Row)
  <2>1. CASE j \in DOMAIN rows
    BY <1>1, <2>1
  <2>2. CASE j \notin DOMAIN rows
    <3>1. rows' = rows
      BY <1>1, <2>2
    <3> QED
      BY <1>1, <3>1
  <2> QED
    BY <2>1, <2>2
<1> QED
  BY <1>2, <1>3, <1>4

LEMMA RowStatus ==
  ASSUME NEW r \in Row, NEW st \in {"NEW", "SUBMITTING", "ACTIVE", "OVER"}
  PROVE  /\ [r EXCEPT !.status = st] \in Row /\ [r EXCEPT !.status = st].status = st
         /\ [r EXCEPT !.status = st].thread = r.thread
BY DEF Row

LEMMA RowChanges ==
  ASSUME NEW r \in Row
  PROVE  /\ [r EXCEPT !.polled = TRUE] \in Row /\ [r EXCEPT !.polled = TRUE].status = r.status
         /\ [r EXCEPT !.polled = TRUE].thread = r.thread
         /\ [r EXCEPT !.polled = FALSE] \in Row /\ [r EXCEPT !.polled = FALSE].status = r.status
         /\ [r EXCEPT !.polled = FALSE].thread = r.thread
         /\ [r EXCEPT !.late = TRUE] \in Row /\ [r EXCEPT !.late = TRUE].status = r.status
         /\ [r EXCEPT !.late = TRUE].thread = r.thread
         /\ [r EXCEPT !.status = "SUBMITTING", !.polled = TRUE] \in Row
         /\ [r EXCEPT !.status = "SUBMITTING", !.polled = TRUE].status = "SUBMITTING"
         /\ [r EXCEPT !.status = "SUBMITTING", !.polled = TRUE].thread = r.thread
BY DEF Row

LEMMA PostStep ==
  ASSUME PostInv, Table!Next
  PROVE  PostInv'
<1>t. /\ rows \in Seq(Row) /\ adding \in [Submitters -> Nat] /\ Len(rows) \in Nat
      /\ futures \subseteq DOMAIN rows /\ batch \subseteq DOMAIN rows /\ DOMAIN rows = 1..Len(rows)
      /\ posts \in Seq(Nat) /\ turn \in {"post", "poll"} /\ Len(posts) \in Nat
      /\ DOMAIN posts = 1..Len(posts)
  BY DEF PostInv, RowsOK
<1>1. ASSUME NEW t \in Submitters, Table!AddJob(t) PROVE PostInv'
  <2> DEFINE n == Len(rows) + 1
             r == Table!NewRow(t)
  <2>1. /\ rows' = Append(rows, r) /\ adding' = [adding EXCEPT ![t] = n] /\ adding[t] = 0
        /\ UNCHANGED <<futures, batch, turn, posts>>
    BY <1>1 DEF Table!AddJob, Table!history
  <2>2. r \in Row /\ r.thread = t /\ r.status = "NEW"
    BY DEF Table!NewRow, Row
  <2> HIDE DEF r
  <2>3. /\ rows' \in Seq(Row) /\ DOMAIN rows' = 1..n /\ rows'[n] = r
        /\ \A j \in DOMAIN rows : rows'[j] = rows[j] /\ j \in DOMAIN rows'
        /\ \A j \in DOMAIN rows' : j \in DOMAIN rows \/ j = n
        /\ n \notin DOMAIN rows /\ \A j \in DOMAIN rows : j < n /\ j \in Nat
    <3>1. /\ rows' \in Seq(Row) /\ Len(rows') = n /\ rows'[n] = r
          /\ \A j \in 1..Len(rows) : rows'[j] = rows[j]
      BY <1>t, <2>1, <2>2, AppendElements
    <3>2. DOMAIN rows' = 1..n
      BY <3>1
    <3> QED
      BY <1>t, <3>1, <3>2
  <2>4. \A s \in Submitters : adding'[s] = IF s = t THEN n ELSE adding[s]
    BY <1>t, <2>1
  <2>5. RowsOK'
    <3>1. adding' \in [Submitters -> Nat]
      BY <1>t, <2>1
    <3> QED
      BY <1>t, <2>1, <2>3, <3>1 DEF RowsOK
  <2>6. AddingIsLast'
    <3> SUFFICES ASSUME NEW s \in Submitters, adding'[s] # 0
                 PROVE  /\ adding'[s] \in DOMAIN rows' \ futures /\ rows'[adding'[s]].thread = s
                        /\ \A j \in DOMAIN rows' : rows'[j].thread = s => j <= adding'[s]
      BY <2>1 DEF AddingIsLast
    <3>1. CASE s = t
      <4>1. adding'[s] = n /\ n \in DOMAIN rows' /\ n \notin futures
        BY <1>t, <2>3, <2>4, <3>1
      <4>2. \A j \in DOMAIN rows' : j <= n
        BY <1>t, <2>3
      <4> QED
        BY <2>2, <2>3, <3>1, <4>1, <4>2
    <3>2. CASE s # t
      <4>1. /\ adding'[s] = adding[s] /\ adding[s] \in DOMAIN rows \ futures
            /\ rows[adding[s]].thread = s
            /\ \A j \in DOMAIN rows : rows[j].thread = s => j <= adding[s]
        BY <2>4, <3>2 DEF PostInv, AddingIsLast
      <4> QED
        BY <2>2, <2>3, <3>2, <4>1
    <3> QED
      BY <3>1, <3>2
  <2>7. \A k \in DOMAIN rows : Postable(k)' => Postable(k)
    <3>1. \A k \in DOMAIN rows : Coming(k)' => Coming(k)
      BY <2>1, <2>3, <2>4 DEF Coming
    <3> QED
      BY <2>1, <2>3, <3>1 DEF Postable
  <2>8. BatchIsClosed'
    BY <1>t, <2>1, <2>3 DEF PostInv, BatchIsClosed
  <2>9. \A i \in 1..Len(posts) : posts[i] \in DOMAIN rows /\ rows'[posts[i]] = rows[posts[i]]
    BY <2>3 DEF PostInv, PostedGoFirst
  <2>10. PostedGoFirst'
    <3>1. \A i \in 1..Len(posts) :
            posts[i] \in DOMAIN rows' /\ rows'[posts[i]].status # "NEW" /\ ~Postable(posts[i])'
      BY <2>1, <2>3, <2>7, <2>9 DEF PostInv, PostedGoFirst
    <3>2. \A i \in 1..Len(posts), k \in DOMAIN rows' :
            Postable(k)' /\ rows'[k].thread = rows'[posts[i]].thread => posts[i] < k
      <4> TAKE i \in 1..Len(posts), k \in DOMAIN rows'
      <4>1. CASE k = n
        BY <2>3, <2>9, <4>1
      <4>2. CASE k \in DOMAIN rows
        BY <2>3, <2>7, <2>9, <4>2 DEF PostInv, PostedGoFirst
      <4> QED
        BY <2>3, <4>1, <4>2
    <3> QED
      BY <2>1, <3>1, <3>2 DEF PostedGoFirst
  <2>11. Table!PostedOnceInOrder'
    BY <1>t, <2>1, <2>9 DEF PostInv, Table!PostedOnceInOrder
  <2> QED
    BY <2>5, <2>6, <2>8, <2>10, <2>11 DEF PostInv
<1>2. ASSUME NEW t \in Submitters, Table!SubmitJob(t) PROVE PostInv'
  <2> DEFINE x == adding[t]
  <2>1. /\ x # 0 /\ futures' = futures \cup {x} /\ adding' = [adding EXCEPT ![t] = 0]
        /\ UNCHANGED <<rows, batch, turn, posts>>
    BY <1>2 DEF Table!SubmitJob, Table!history
  <2>2. /\ x \in DOMAIN rows \ futures /\ rows[x].thread = t
        /\ \A j \in DOMAIN rows : rows[j].thread = t => j <= x
    BY <2>1 DEF PostInv, AddingIsLast
  <2>3. \A s \in Submitters : adding'[s] = IF s = t THEN 0 ELSE adding[s]
    BY <1>t, <2>1
  <2>4. RowsOK'
    BY <1>t, <2>1, <2>2 DEF RowsOK
  <2>5. AddingIsLast'
    BY <2>1, <2>2, <2>3 DEF PostInv, AddingIsLast
  <2>6. BatchIsClosed'
    <3>1. \A j \in batch : x < j => rows[x].thread # rows[j].thread
      BY <1>t, <2>2
    <3>2. \A j \in batch, k \in futures' : k < j /\ rows[k].thread = rows[j].thread => k \in futures
      BY <2>1, <3>1
    <3> QED
      BY <2>1, <3>2 DEF PostInv, BatchIsClosed
  <2>7. \A k \in DOMAIN rows : Postable(k)' => Postable(k)
    <3>1. \A k \in DOMAIN rows : Coming(k)' => Coming(k)
      <4>1. \A k \in DOMAIN rows : k # 0
        BY <1>t
      <4> QED
        BY <2>1, <2>2, <2>3, <4>1 DEF Coming
    <3> QED
      BY <2>1, <3>1 DEF Postable
  <2>8. PostedGoFirst'
    BY <2>1, <2>7 DEF PostInv, PostedGoFirst
  <2>9. Table!PostedOnceInOrder'
    BY <2>1 DEF PostInv, Table!PostedOnceInOrder
  <2> QED
    BY <2>4, <2>5, <2>6, <2>8, <2>9 DEF PostInv
(* Of what is done to a row, only whether it is new matters. *)
<1>r. ASSUME NEW j, NEW r \in Row, rows' = [rows EXCEPT ![j] = r], r.thread = rows[j].thread,
             j \in DOMAIN rows => (r.status = "NEW" => rows[j].status = "NEW"),
             UNCHANGED <<adding, futures, turn, posts>>,
             batch' = batch \/ (batch' = batch \ {j} /\ r.status # "NEW")
      PROVE  PostInv'
  <2>1. /\ rows' \in Seq(Row) /\ DOMAIN rows' = DOMAIN rows
        /\ \A k \in DOMAIN rows : rows'[k].thread = rows[k].thread
        /\ \A k \in DOMAIN rows : k # j => rows'[k] = rows[k]
        /\ j \in DOMAIN rows => rows'[j] = r
    BY <1>r, ChangedRow DEF PostInv
  <2>2. \A k \in DOMAIN rows : rows'[k].status = "NEW" => rows[k].status = "NEW"
    BY <1>r, <2>1
  <2>3. BatchIsClosed'
    <3> SUFFICES ASSUME turn = "post", NEW x \in batch', NEW k \in futures, k < x,
                        rows'[k].status = "NEW", rows'[k].thread = rows'[x].thread
                 PROVE  k \in batch'
      BY <1>r DEF BatchIsClosed
    <3>1. x \in batch /\ x \in DOMAIN rows /\ k \in DOMAIN rows
      BY <1>r, <1>t
    <3>2. k \in batch
      BY <2>1, <2>2, <3>1 DEF PostInv, BatchIsClosed
    <3> QED
      BY <1>r, <2>1, <3>1, <3>2
  <2> QED
    BY <1>r, <1>t, <2>1, <2>2, <2>3, QuietJobs
(* Steps that leave the rows alone. *)
<1>u. ASSUME UNCHANGED <<rows, adding, futures, turn, posts>>,
             batch' = batch \/ \E j : batch' = batch \ {j} /\ (turn = "post" => j \notin futures)
      PROVE  PostInv'
  <2>1. BatchIsClosed'
    BY <1>u DEF PostInv, BatchIsClosed
  <2> QED
    BY <1>t, <1>u, <2>1, QuietJobs
<1>s. ASSUME NEW j, NEW st \in {"SUBMITTING", "ACTIVE", "OVER"}, Table!SetStatus(j, st),
             UNCHANGED <<adding, futures, turn, posts>>,
             batch' = batch \/ (batch' = batch \ {j} /\ j \in batch)
      PROVE  PostInv'
  <2>1. CASE j \in DOMAIN rows
    <3> DEFINE r == [rows[j] EXCEPT !.status = st]
    <3>1. rows' = [rows EXCEPT ![j] = r]
      BY <1>s DEF Table!SetStatus
    <3>2. r \in Row /\ r.status = st /\ r.thread = rows[j].thread
      <4>1. rows[j] \in Row /\ st \in {"NEW", "SUBMITTING", "ACTIVE", "OVER"}
        BY <1>t, <2>1
      <4>2. /\ [rows[j] EXCEPT !.status = st] \in Row
            /\ [rows[j] EXCEPT !.status = st].status = st
            /\ [rows[j] EXCEPT !.status = st].thread = rows[j].thread
        BY ONLY <4>1, RowStatus
      <4> QED
        BY <4>2
    <3> HIDE DEF r
    <3> QED
      BY <1>r, <1>s, <3>1, <3>2
  <2>2. CASE j \notin DOMAIN rows
    <3>1. rows' = rows
      BY <1>s, <1>t, <2>2 DEF Table!SetStatus
    <3>2. batch' = batch
      BY <1>s, <1>t, <2>2
    <3> QED
      BY <1>s, <1>u, <3>1, <3>2
  <2> QED
    BY <2>1, <2>2
<1>3. CASE Table!FetchJobs
  <2>1. /\ UNCHANGED <<rows, adding, futures, posts>>
        /\ \/ turn' = "post" /\ batch' = Table!Fetched(Table!NewJobs, BatchSize)
           \/ turn' = "poll" /\ batch' = Table!Fetched(Table!PollableJobs, BatchSize)
    BY <1>3 DEF Table!FetchJobs, Table!history
  <2>2. CASE turn' = "post" /\ batch' = Table!Fetched(Table!NewJobs, BatchSize)
    <3> DEFINE js == Table!NewJobs
    <3>1. js \in SUBSET (1..Len(rows)) /\ \A j \in DOMAIN rows : j \in js <=> rows[j].status = "NEW"
      BY <1>t DEF Table!NewJobs, Table!Known
    <3> HIDE DEF js
    <3>2. batch' \subseteq js /\ \A j \in batch', k \in js : k < j => k \in batch'
      BY <1>t, <2>2, <3>1, FetchedIsClosed, JobsAssumption DEF js
    <3>3. BatchIsClosed'
      BY <1>t, <2>1, <3>1, <3>2 DEF BatchIsClosed
    <3> QED
      BY <1>t, <2>1, <2>2, <3>1, <3>2, <3>3, QuietJobs
  <2>3. CASE turn' = "poll" /\ batch' = Table!Fetched(Table!PollableJobs, BatchSize)
    <3>1. batch' \subseteq DOMAIN rows
      BY <2>3 DEF Table!Fetched, Table!PollableJobs, Table!Known
    <3>2. BatchIsClosed'
      BY <2>3 DEF BatchIsClosed
    <3> QED
      BY <1>t, <2>1, <2>3, <3>1, <3>2, QuietJobs
  <2> QED
    BY <2>1, <2>2, <2>3
<1>4. ASSUME NEW j \in batch, Table!SkipJob(j) \/ Table!FailPoll(j) PROVE PostInv'
  <2>1. /\ UNCHANGED <<rows, adding, futures, turn, posts>> /\ batch' = batch \ {j}
        /\ j \notin futures \/ turn = "poll"
    BY <1>4 DEF Table!SkipJob, Table!FailPoll, Table!TakeJob, Table!LookAt, Table!history
  <2> QED
    BY <1>u, <2>1
<1>5. ASSUME NEW j \in batch, Table!FailDispatch(j) \/ Table!GiveUp(j) PROVE PostInv'
  <2>1. /\ Table!SetStatus(j, "OVER") /\ UNCHANGED <<adding, futures, turn, posts>>
        /\ batch' = batch \ {j}
    BY <1>5 DEF Table!FailDispatch, Table!GiveUp, Table!EndJob, Table!TakeJob, Table!LookAt,
                Table!history
  <2> QED
    BY <1>s, <2>1
<1>6. ASSUME NEW j \in batch, Table!PollJob(j) PROVE PostInv'
  <2> DEFINE r == [rows[j] EXCEPT !.polled = TRUE]
  <2>1. /\ rows' = [rows EXCEPT ![j] = r] /\ UNCHANGED <<adding, futures, turn, posts>>
        /\ batch' = batch \ {j} /\ turn = "poll"
    BY <1>6 DEF Table!PollJob, Table!TakeJob, Table!LookAt, Table!history
  <2>2. /\ rows' \in Seq(Row) /\ DOMAIN rows' = DOMAIN rows
        /\ \A k \in DOMAIN rows : rows'[k].thread = rows[k].thread
        /\ \A k \in DOMAIN rows : rows'[k].status = rows[k].status
    <3>1. r \in Row /\ r.status = rows[j].status /\ r.thread = rows[j].thread /\ j \in DOMAIN rows
      <4>1. rows[j] \in Row /\ j \in DOMAIN rows
        BY <1>t
      <4> QED
        BY <4>1, RowChanges
    <3> HIDE DEF r
    <3> QED
      BY <2>1, <3>1, ChangedRow DEF PostInv
  <2>3. BatchIsClosed'
    BY <2>1 DEF BatchIsClosed
  <2> QED
    BY <1>t, <2>1, <2>2, <2>3, QuietJobs
<1>7. ASSUME NEW j \in batch, Table!DispatchJob(j) PROVE PostInv'
  <2> DEFINE r == [rows[j] EXCEPT !.status = "SUBMITTING", !.polled = TRUE]
  <2>1. /\ rows' = [rows EXCEPT ![j] = r] /\ UNCHANGED <<adding, futures, turn>>
        /\ turn = "post" /\ j \in futures /\ j \in DOMAIN rows /\ batch' = batch \ {j}
        /\ \A k \in batch \ {j} : j < k
        /\ posts' = posts \/ posts' = Append(posts, j)
    BY <1>7, <1>t DEF Table!DispatchJob, Table!TakeJob, Table!LookAt, Table!Earlier
  <2>2. r \in Row /\ r.status = "SUBMITTING" /\ r.thread = rows[j].thread
    <3>1. rows[j] \in Row
      BY <1>t, <2>1
    <3> QED
      BY <3>1, RowChanges
  <2> HIDE DEF r
  <2>3. CASE posts' = posts
    BY <1>r, <2>1, <2>2, <2>3
  <2>4. CASE posts' = Append(posts, j)
    <3>1. /\ rows' \in Seq(Row) /\ DOMAIN rows' = DOMAIN rows
          /\ \A k \in DOMAIN rows : rows'[k].thread = rows[k].thread
          /\ \A k \in DOMAIN rows : k # j => rows'[k] = rows[k]
          /\ rows'[j] = r
      BY <2>1, <2>2, ChangedRow DEF PostInv
    <3> DEFINE n == Len(posts)
    <3>2. /\ posts' \in Seq(Nat) /\ Len(posts') = n + 1 /\ posts'[n + 1] = j
          /\ \A i \in 1..n : posts'[i] = posts[i]
          /\ \A i \in 1..Len(posts') : i \in 1..n \/ i = n + 1
          /\ DOMAIN posts' = 1..Len(posts')
      <4>1. j \in Nat
        BY <1>t, <2>1
      <4>2. /\ posts' \in Seq(Nat) /\ Len(posts') = n + 1 /\ posts'[n + 1] = j
            /\ \A i \in 1..n : posts'[i] = posts[i]
            /\ \A i \in 1..Len(posts') : i \in 1..n \/ i = n + 1
        BY <1>t, <2>4, <4>1, AppendElements
      <4> QED
        BY <4>2
    <3>3. RowsOK'
      BY <1>t, <2>1, <3>1, <3>2 DEF RowsOK
    <3>4. AddingIsLast'
      BY <2>1, <3>1 DEF PostInv, AddingIsLast
    <3>5. \A k \in DOMAIN rows : Postable(k)' => Postable(k) /\ k # j
      BY <2>1, <2>2, <3>1 DEF Postable, Coming
    <3>6. Postable(j)
      BY <2>1 DEF Postable, Coming
    (* What is posted now is the oldest of its thread that can be. *)
    <3>7. \A k \in DOMAIN rows : Postable(k) /\ k # j /\ rows[k].thread = rows[j].thread => j < k
      <4> SUFFICES ASSUME NEW k \in DOMAIN rows, Postable(k), k # j, rows[k].thread = rows[j].thread
                   PROVE  j < k
        OBVIOUS
      <4>1. CASE k \in batch
        BY <2>1, <4>1
      <4>2. CASE k \notin batch /\ k \in futures
        <5>1. rows[k].status = "NEW"
          BY <4>2 DEF Postable
        <5>2. ~(k < j)
          BY <2>1, <4>2, <5>1 DEF PostInv, BatchIsClosed
        <5> QED
          BY <1>t, <2>1, <5>2
      <4>3. CASE k \notin futures
        <5>1. PICK t \in Submitters : adding[t] = k
          BY <4>3 DEF Postable, Coming
        <5>2. k # 0
          BY <1>t
        <5>3. rows[k].thread = t /\ j <= k
          BY <2>1, <5>1, <5>2 DEF PostInv, AddingIsLast
        <5> QED
          BY <1>t, <2>1, <5>3
      <4> QED
        BY <4>1, <4>2, <4>3
    <3>8. BatchIsClosed'
      <4> SUFFICES ASSUME NEW x \in batch', NEW k \in futures, k < x,
                          rows'[k].status = "NEW", rows'[k].thread = rows'[x].thread
                   PROVE  k \in batch'
        BY <2>1 DEF BatchIsClosed
      <4>1. x \in batch /\ x \in DOMAIN rows /\ k \in DOMAIN rows /\ k # j
        BY <1>t, <2>1, <2>2, <3>1
      <4>2. k \in batch
        BY <2>1, <3>1, <4>1 DEF PostInv, BatchIsClosed
      <4> QED
        BY <2>1, <4>1, <4>2
    <3>9. \A i \in 1..n :
            posts[i] \in DOMAIN rows /\ rows'[posts[i]].status # "NEW" /\ posts[i] # j /\ ~Postable(posts[i])
      BY <2>2, <3>1, <3>6 DEF PostInv, PostedGoFirst
    <3>10. PostedGoFirst'
      <4>1. \A i \in 1..Len(posts') : /\ posts'[i] \in DOMAIN rows'
                                     /\ rows'[posts'[i]].status # "NEW" /\ ~Postable(posts[i])'
        <5> TAKE i \in 1..Len(posts')
        <5>1. CASE i = n + 1
          BY <2>1, <2>2, <3>1, <3>2, <3>5, <5>1
        <5>2. CASE i \in 1..n
          BY <3>1, <3>2, <3>5, <3>9, <5>2
        <5> QED
          BY <3>2, <5>1, <5>2
      <4>2. \A i \in 1..Len(posts'), k \in DOMAIN rows' :
              Postable(k)' /\ rows'[k].thread = rows'[posts'[i]].thread => posts'[i] < k
        <5> TAKE i \in 1..Len(posts'), k \in DOMAIN rows'
        <5> HAVE Postable(k)' /\ rows'[k].thread = rows'[posts'[i]].thread
        <5>1. CASE i = n + 1
          BY <2>1, <3>1, <3>2, <3>5, <3>7, <5>1
        <5>2. CASE i \in 1..n
          <6>1. Postable(k) /\ posts'[i] = posts[i] /\ posts[i] \in DOMAIN rows
            BY <3>1, <3>2, <3>5, <3>9, <5>2
          <6> QED
            BY <3>1, <5>2, <6>1 DEF PostInv, PostedGoFirst
        <5> QED
          BY <3>2, <5>1, <5>2
      <4> QED
        BY <4>1, <4>2 DEF PostedGoFirst
    <3>11. Table!PostedOnceInOrder'
      <4> SUFFICES ASSUME NEW i \in 1..Len(posts'), NEW k \in 1..Len(posts'), i < k
                   PROVE  /\ posts'[i] # posts'[k]
                          /\ rows'[posts'[i]].thread = rows'[posts'[k]].thread => posts'[i] < posts'[k]
        BY <3>2 DEF Table!PostedOnceInOrder
      <4>1. i \in 1..n /\ posts'[i] = posts[i] /\ posts[i] \in DOMAIN rows /\ posts[i] # j
        BY <1>t, <3>2, <3>9
      <4>2. CASE k \in 1..n
        <5>1. posts'[k] = posts[k] /\ posts[k] \in DOMAIN rows
          BY <3>2, <3>9, <4>2
        <5>2. /\ posts[i] # posts[k]
              /\ rows[posts[i]].thread = rows[posts[k]].thread => posts[i] < posts[k]
          BY <1>t, <4>1, <4>2 DEF PostInv, Table!PostedOnceInOrder
        <5> QED
          BY <3>1, <4>1, <5>1, <5>2
      <4>3. CASE k = n + 1
        <5>1. rows[posts[i]].thread = rows[j].thread => posts[i] < j
          BY <2>1, <3>6, <4>1 DEF PostInv, PostedGoFirst
        <5> QED
          BY <2>1, <3>1, <3>2, <4>1, <4>3, <5>1
      <4> QED
        BY <3>2, <4>2, <4>3
    <3> QED
      BY <3>3, <3>4, <3>8, <3>10, <3>11 DEF PostInv
  <2> QED
    BY <2>1, <2>3, <2>4
<1>8. ASSUME NEW j, Table!Receive(j, "202") \/ Table!Receive(j, "answer") PROVE PostInv'
  <2>1. \/ Table!SetStatus(j, "OVER") \/ Table!SetStatus(j, "ACTIVE")
    BY <1>8 DEF Table!Receive, Table!EndJob
  <2>2. UNCHANGED <<adding, futures, turn, posts, batch>>
    BY <1>8 DEF Table!Receive
  <2> QED
    BY <1>s, <2>1, <2>2
<1>9. ASSUME NEW j, Table!PollAges(j) \/ Table!JobExpires(j) PROVE PostInv'
  <2>1. UNCHANGED <<adding, futures, turn, posts, batch>> /\ j \in DOMAIN rows
    BY <1>9 DEF Table!PollAges, Table!JobExpires, Table!process, Table!history, Table!Known
  <2>2. PICK r \in Row : /\ rows' = [rows EXCEPT ![j] = r]
                         /\ r.status = rows[j].status /\ r.thread = rows[j].thread
    <3>1. \/ rows' = [rows EXCEPT ![j] = [rows[j] EXCEPT !.polled = FALSE]]
          \/ rows' = [rows EXCEPT ![j] = [rows[j] EXCEPT !.late = TRUE]]
      BY <1>9 DEF Table!PollAges, Table!JobExpires
    <3>2. rows[j] \in Row
      BY <1>t, <2>1
    <3> QED
      BY <3>1, <3>2, RowChanges
  <2> QED
    BY <1>r, <2>1, <2>2
<1>10. CASE Table!Destroy
  <2>1. UNCHANGED <<rows, adding, futures, turn, posts, batch>>
    BY <1>10 DEF Table!Destroy, Table!history
  <2> QED
    BY <1>u, <2>1
<1>11. CASE Table!RestartClient
  <2> DEFINE js == {j \in DOMAIN rows : rows[j].status \in Table!Recoverable}
             recovered == Table!Fetched(js, RecoverLimit)
  <2>1. /\ adding' = Table!NoThread /\ batch' = {} /\ turn' = "poll" /\ posts' = <<>>
        /\ rows' = [j \in DOMAIN rows |-> IF j \in recovered THEN Table!Recovered(rows[j]) ELSE rows[j]]
        /\ futures' \subseteq recovered
    BY <1>11 DEF Table!RestartClient, Table!Known
  <2>2. recovered \subseteq DOMAIN rows
    BY DEF Table!Fetched
  <2> HIDE DEF recovered
  <2>3. \A r \in Row : Table!Recovered(r) \in Row
    BY DEF Table!Recovered, Row
  <2>4. rows' \in [1..Len(rows) -> Row]
    BY <1>t, <2>1, <2>3
  <2>5. rows' \in Seq(Row) /\ DOMAIN rows' = DOMAIN rows
    BY <1>t, <2>4
  <2>6. adding' \in [Submitters -> Nat] /\ \A t \in Submitters : adding'[t] = 0
    BY <2>1 DEF Table!NoThread
  <2>7. RowsOK'
    BY <2>1, <2>2, <2>5, <2>6 DEF RowsOK
  <2>8. AddingIsLast' /\ BatchIsClosed'
    BY <2>1, <2>6 DEF AddingIsLast, BatchIsClosed
  <2>9. PostedGoFirst' /\ Table!PostedOnceInOrder'
    BY <2>1 DEF PostedGoFirst, Table!PostedOnceInOrder
  <2> QED
    BY <2>7, <2>8, <2>9 DEF PostInv
<1> QED
  BY <1>1, <1>2, <1>3, <1>4, <1>5, <1>6, <1>7, <1>8, <1>9, <1>10, <1>11 DEF Table!Next, Table!Dispatcher

-----------------------------------------------------------------------------
LEMMA InitialStates ==
  ASSUME ClientInit
  PROVE  PromptInv /\ ReplyInv /\ PostInv
<1>1. PromptInv
  <2>1. /\ to_client = <<>> /\ events_buffer = <<>> /\ prompted = <<>>
    BY DEF ClientInit, Init
  <2>2. EventsOK /\ Len(prompted) = 0 /\ Len(events_buffer) = 0
    BY <2>1 DEF EventsOK
  <2> QED
    BY <2>2 DEF PromptInv
<1>2. ReplyInv
  <2>1. call = [c \in Callers |-> Idle] /\ mmi_queue = <<>> /\ calls = 0
    BY DEF ClientInit, Init
  <2>2. \A c \in Callers : call[c].state = "idle" /\ call[c].uuid = 0
    BY <2>1 DEF Idle
  <2>3. CallsOK
    BY <2>1 DEF CallsOK, Idle
  <2>4. ReplyIsKept
    BY <2>2 DEF ReplyIsKept
  <2> QED
    BY <2>1, <2>2, <2>3, <2>4 DEF ReplyInv
<1>3. PostInv
  <2>1. /\ rows = <<>> /\ adding = [t \in Submitters |-> 0] /\ futures = {} /\ batch = {}
        /\ turn = "poll" /\ posts = <<>>
    BY DEF ClientInit, Table!Start, Table!NoThread
  <2>2. RowsOK /\ Len(posts) = 0 /\ DOMAIN posts = {}
    BY <2>1 DEF RowsOK
  <2>3. AddingIsLast /\ BatchIsClosed
    BY <2>1 DEF AddingIsLast, BatchIsClosed
  <2>4. PostedGoFirst /\ Table!PostedOnceInOrder
    BY <2>2 DEF PostedGoFirst, Table!PostedOnceInOrder
  <2> QED
    BY <2>2, <2>3, <2>4 DEF PostInv
<1> QED
  BY <1>1, <1>2, <1>3

LEMMA UnchangedQueues ==
  ASSUME UNCHANGED vars
  PROVE  (PromptInv => PromptInv') /\ (ReplyInv => ReplyInv')
<1>1. UNCHANGED <<to_client, events_buffer, prompted, input_request_ids, call, calls, mmi_queue, broker_owes>>
  BY DEF vars, future, reader, mmi
<1>2. PromptInv => PromptInv'
  BY <1>1 DEF PromptInv, EventsOK
<1>3. ReplyInv => ReplyInv'
  BY <1>1 DEF ReplyInv, CallsOK, ReplyIsKept
<1> QED
  BY <1>2, <1>3

LEMMA UnchangedTable ==
  ASSUME UNCHANGED jobs, PostInv
  PROVE  PostInv'
<1>1. UNCHANGED <<rows, adding, futures, batch, turn, posts>>
  BY DEF jobs
<1> QED
  BY <1>1 DEF PostInv, RowsOK, AddingIsLast, BatchIsClosed, PostedGoFirst, Postable, Coming,
              Table!PostedOnceInOrder

(* The channels, mmi and the table share no state. *)
LEMMA ClientStep ==
  ASSUME PromptInv /\ ReplyInv /\ PostInv, [ClientNext]_<<part, vars, jobs>>
  PROVE  PromptInv' /\ ReplyInv' /\ PostInv'
<1>1. CASE EventsNext /\ UNCHANGED jobs
  <2>1. UNCHANGED mmi
    BY <1>1 DEF EventsNext, Send, AddEvent, RecvResult, DeadlinePasses, EndMark, NextEvent,
                SendResponse
  <2>2. ReplyInv'
    <3>1. UNCHANGED <<call, calls, mmi_queue, broker_owes>>
      BY <2>1 DEF mmi
    <3> QED
      BY <3>1 DEF ReplyInv, CallsOK, ReplyIsKept
  <2> QED
    BY <1>1, <2>2, PromptStep, UnchangedTable
<1>2. CASE MmiNext /\ UNCHANGED jobs
  <2>1. UNCHANGED <<future, reader>>
    BY <1>2 DEF MmiNext, MmiService, StartCall, TakeReply, CheckReply, CallTimeout
  <2>2. PromptInv'
    <3>1. UNCHANGED <<to_client, events_buffer, prompted, input_request_ids>>
      BY <2>1 DEF future, reader
    <3> QED
      BY <3>1 DEF PromptInv, EventsOK
  <2> QED
    BY <1>2, <2>2, ReplyStep, UnchangedTable
<1>3. CASE Table!Next /\ UNCHANGED vars
  BY <1>3, PostStep, UnchangedQueues
<1>4. CASE UNCHANGED <<part, vars, jobs>>
  BY <1>4, UnchangedQueues, UnchangedTable
<1> QED
  BY <1>1, <1>2, <1>3, <1>4 DEF ClientNext

LEMMA ClientInvariant == ClientSpec => [](PromptInv /\ ReplyInv /\ PostInv)
<1> DEFINE I == PromptInv /\ ReplyInv /\ PostInv
<1>1. ClientInit => I
  BY InitialStates
<1>2. I /\ [ClientNext]_<<part, vars, jobs>> => I'
  BY ClientStep
<1>3. ClientSpec => ClientInit /\ [][ClientNext]_<<part, vars, jobs>>
  BY DEF ClientSpec
<1> HIDE DEF I
<1>4. ClientSpec => []I
  BY <1>1, <1>2, <1>3, PTL
<1> QED
  BY <1>4 DEF I

(* The shell asks the user once for every input request of a job, however *)
(* often and in whatever order its messages come; the dispatcher posts     *)
(* every job once and those of one thread in the order they were submitted *)
(* in: for any messages, threads, batch size and number of jobs.           *)
THEOREM AskedOnceAlways == ClientSpec => []AskedOnce
<1>1. PromptInv /\ ReplyInv /\ PostInv => AskedOnce
  <2> SUFFICES ASSUME PromptInv, PostInv PROVE AskedOnce
    OBVIOUS
  <2>1. DOMAIN prompted = 1..Len(prompted)
    BY DEF PromptInv, EventsOK
  <2>2. PromptedOnce
    BY <2>1 DEF PromptInv, PromptedOnce, IsInjective
  <2> QED
    BY <2>2 DEF PostInv, AskedOnce
<1> QED
  BY <1>1, ClientInvariant, PTL

(* A reply of mmi is in the queue or in a caller's hands until the caller  *)
(* it is for has it or gives up: for any number of callers.                *)
THEOREM RepliesKept == ClientSpec => []ReplyIsKept
<1>1. PromptInv /\ ReplyInv /\ PostInv => ReplyIsKept
  BY DEF ReplyInv
<1> QED
  BY <1>1, ClientInvariant, PTL
=============================================================================
