--------------------------- MODULE ClientChannels ---------------------------
(***************************************************************************)
(* The two queues between a client's recv thread and the threads that use  *)
(* the client (core/client.py): the events of one job's future, which the  *)
(* shell shows and whose input requests it answers, and the queue that all *)
(* callers of mmi share.  JobProtocol has the job itself.                  *)
(***************************************************************************)
EXTENDS Naturals, Sequences, SequencesExt

CONSTANTS
  Messages,     \* the messages about the job, before its result: kind and input id
  NoRequest,    \* the input id of a message that asks for nothing
  Callers,      \* threads that call mmi
  MaxCalls,     \* bound: mmi calls
  MaxMessages   \* bound: messages about the job

ASSUME ChannelsAssumption ==
  /\ Messages \subseteq [kind : {"EVENT", "PENDING"}, input : {m.input : m \in Messages}]
  /\ MaxCalls \in Nat /\ MaxMessages \in Nat

VARIABLES
  (* one future *)
  to_client,          \* messages about the job that recv has not taken
  arrived,            \* the messages sent so far
  events_buffer,
  input_request_ids,
  done_event,
  marking,            \* threads in mark_done, between the test and the marker
  shell,              \* "reading" events, "prompting", or "result" after the loop
  shown, prompted,    \* what the shell has shown and asked
  late,               \* events that came after the marker
  (* mmi *)
  call,               \* of each caller: its request and how the call stands
  broker_owes,        \* requests the broker has not answered
  mmi_queue,
  calls

future == <<to_client, arrived, events_buffer, input_request_ids, done_event, marking, late>>
reader == <<shell, shown, prompted>>
mmi == <<call, broker_owes, mmi_queue, calls>>
vars == <<future, reader, mmi>>

Result == [kind |-> "RESULT", input |-> NoRequest]
Marker == [kind |-> "terminal_marker", input |-> NoRequest]
Idle == [state |-> "idle", uuid |-> 0, holds |-> 0]
NoMessage == 0

Init ==
  /\ to_client = <<>> /\ arrived = <<>> /\ events_buffer = <<>>
  /\ input_request_ids = {} /\ done_event = FALSE /\ marking = {} /\ late = <<>>
  /\ shell = "reading" /\ shown = <<>> /\ prompted = <<>>
  /\ call = [c \in Callers |-> Idle]
  /\ broker_owes = {} /\ mmi_queue = <<>> /\ calls = 0

-----------------------------------------------------------------------------
(***************************************************************************)
(* The recv thread.  An input request comes as an event and again with the *)
(* answer to every poll while the worker waits; only its first message is  *)
(* an event of the future.                                                 *)
(***************************************************************************)
Send(message) ==
  /\ Len(arrived) < MaxMessages
  /\ arrived' = Append(arrived, message)
  /\ to_client' = Append(to_client, message)
  /\ UNCHANGED <<events_buffer, input_request_ids, done_event, marking, late, reader, mmi>>

EveryEvent(message) == TRUE                      \* mutant: no input_request_ids
NewEvent(message) ==
  message.input = NoRequest \/ message.input \notin input_request_ids

AddEvent ==
  LET message == Head(to_client)
  IN  /\ to_client # <<>> /\ message # Result /\ "recv" \notin marking
      /\ to_client' = Tail(to_client)
      /\ IF NewEvent(message)
         THEN /\ events_buffer' = Append(events_buffer, message)
              /\ input_request_ids' = input_request_ids \cup ({message.input} \ {NoRequest})
              /\ late' = IF done_event THEN Append(late, message) ELSE late
         ELSE UNCHANGED <<events_buffer, input_request_ids, late>>
      /\ UNCHANGED <<arrived, done_event, marking, reader, mmi>>

(* mark_done, by recv with the result or by the dispatcher at the job's    *)
(* deadline: a test, then the event and the marker.                        *)
BeginMark(thread) ==
  /\ thread \notin marking
  /\ marking' = IF done_event THEN marking ELSE marking \cup {thread}

RecvResult ==
  /\ to_client # <<>> /\ Head(to_client) = Result /\ "recv" \notin marking
  /\ to_client' = Tail(to_client)
  /\ BeginMark("recv")
  /\ UNCHANGED <<arrived, events_buffer, input_request_ids, done_event, late, reader, mmi>>

DeadlinePasses ==
  /\ BeginMark("dispatcher") /\ ~done_event
  /\ UNCHANGED <<to_client, arrived, events_buffer, input_request_ids, done_event, late, reader,
                 mmi>>

NoMarker == events_buffer                        \* mutant: the end is not queued
WithMarker == Append(events_buffer, Marker)

EndMark(thread) ==
  /\ thread \in marking
  /\ marking' = marking \ {thread}
  /\ done_event' = TRUE
  /\ events_buffer' = WithMarker
  /\ UNCHANGED <<to_client, arrived, input_request_ids, late, reader, mmi>>

-----------------------------------------------------------------------------
(***************************************************************************)
(* The shell: events() up to the marker, with a prompt for every input     *)
(* request, then the result.                                               *)
(***************************************************************************)
NextEvent ==
  /\ shell = "reading" /\ events_buffer # <<>>
  /\ events_buffer' = Tail(events_buffer)
  /\ LET event == Head(events_buffer)
     IN  IF event = Marker
         THEN shell' = "result" /\ UNCHANGED <<shown, prompted>>
         ELSE /\ shown' = Append(shown, event)
              /\ IF event.input # NoRequest
                 THEN shell' = "prompting" /\ prompted' = Append(prompted, event.input)
                 ELSE UNCHANGED <<shell, prompted>>
  /\ UNCHANGED <<to_client, arrived, input_request_ids, done_event, marking, late, mmi>>

(* The user answers, or the approval times out, and the answer is sent.    *)
SendResponse ==
  /\ shell = "prompting"
  /\ shell' = "reading"
  /\ UNCHANGED <<future, shown, prompted, mmi>>

-----------------------------------------------------------------------------
(***************************************************************************)
(* mmi: a request, then a loop that takes from the shared queue, keeps its *)
(* own reply and puts every other back at the end.  The broker's reply     *)
(* comes as a RESPONSE too, which belongs to no job and is ignored.        *)
(***************************************************************************)
StartCall(c) ==
  /\ call[c].state # "waiting" /\ calls < MaxCalls
  /\ calls' = calls + 1
  /\ call' = [call EXCEPT ![c] = [state |-> "waiting", uuid |-> calls + 1, holds |-> NoMessage]]
  /\ broker_owes' = broker_owes \cup {calls + 1}
  /\ UNCHANGED <<future, reader, mmi_queue>>

MmiService(uuid) ==
  /\ uuid \in broker_owes
  /\ broker_owes' = broker_owes \ {uuid}
  /\ mmi_queue' = Append(mmi_queue, uuid)
  /\ UNCHANGED <<future, reader, call, calls>>

TakeReply(c) ==
  /\ call[c].state = "waiting" /\ call[c].holds = NoMessage
  /\ mmi_queue # <<>>
  /\ mmi_queue' = Tail(mmi_queue)
  /\ call' = [call EXCEPT ![c].holds = Head(mmi_queue)]
  /\ UNCHANGED <<future, reader, broker_owes, calls>>

DropReply(uuid) == mmi_queue                     \* mutant: an unrelated reply is dropped
Deferred(uuid) == Append(mmi_queue, uuid)

CheckReply(c) ==
  /\ call[c].state = "waiting" /\ call[c].holds # NoMessage
  /\ IF call[c].holds = call[c].uuid
     THEN call' = [call EXCEPT ![c].state = "200"] /\ UNCHANGED mmi_queue
     ELSE /\ call' = [call EXCEPT ![c].holds = NoMessage]
          /\ mmi_queue' = Deferred(call[c].holds)
  /\ UNCHANGED <<future, reader, broker_owes, calls>>

(* The deadline is looked at between two turns of the loop.                *)
CallTimeout(c) ==
  /\ call[c].state = "waiting" /\ call[c].holds = NoMessage
  /\ call' = [call EXCEPT ![c].state = "408"]
  /\ UNCHANGED <<future, reader, broker_owes, mmi_queue, calls>>

-----------------------------------------------------------------------------
Threads == {"recv", "dispatcher"}
Uuids == 1..MaxCalls
EventsNext ==
  \/ \E m \in Messages : Send(m)
  \/ ~Contains(arrived, Result) /\ Send(Result)
  \/ AddEvent \/ RecvResult \/ DeadlinePasses \/ \E t \in Threads : EndMark(t)
  \/ NextEvent \/ SendResponse
MmiNext ==
  \/ \E uuid \in Uuids : MmiService(uuid)
  \/ \E c \in Callers : StartCall(c) \/ TakeReply(c) \/ CheckReply(c) \/ CallTimeout(c)
Next == EventsNext \/ MmiNext

Spec == Init /\ [][Next]_vars

(* The threads run, and the user answers; nothing is assumed of the worker *)
(* and the deadlines.                                                      *)
Fairness ==
  /\ WF_vars(AddEvent) /\ WF_vars(RecvResult) /\ \A t \in Threads : WF_vars(EndMark(t))
  /\ WF_vars(NextEvent) /\ WF_vars(SendResponse)

FairSpec == Spec /\ Fairness

-----------------------------------------------------------------------------
(***************************************************************************)
(* What should hold of the events of a future and of mmi.                  *)
(***************************************************************************)
(* The user is asked once for every input request, however often it comes: *)
(* as an event, with the answers to polls, before, after and between the   *)
(* prompt for it.                                                          *)
PromptedOnce == IsInjective(prompted)

(* The shell's loop over the events ends once the job is done, whichever   *)
(* of recv and dispatcher found it so, and also when both did at once; and *)
(* whatever came in before the job was done has been shown by then: only   *)
(* what came after it is left.                                             *)
EventsEnd ==
  /\ done_event ~> shell = "result"
  /\ [](shell = "result" =>
          LET taken == SubSeq(arrived, 1, Len(arrived) - Len(to_client))
              Plain(m) == m.kind = "EVENT" /\ m.input = NoRequest
              Count(messages) == Len(SelectSeq(messages, Plain))
          IN  Count(shown) + Count(late) = Count(taken))

(* A reply the broker has sent is not lost while somebody waits for it: it *)
(* is in the queue, in the hands of a caller that puts it back, or with    *)
(* the one who asked; no caller returns another's reply.                   *)
ReplyIsKept ==
  \A c \in Callers :
    /\ call[c].state = "waiting" /\ call[c].uuid \notin broker_owes =>
         \/ Contains(mmi_queue, call[c].uuid)
         \/ \E d \in Callers : call[d].state = "waiting" /\ call[d].holds = call[c].uuid
    /\ call[c].state = "200" => call[c].holds = call[c].uuid
=============================================================================
