------------------------------ MODULE SdkClient ------------------------------
(***************************************************************************)
(* The Go SDK's client of a driver process, sdk/go/client.go, with the     *)
(* subscriptions of sdk/go/session.go: concurrent calls matched to their   *)
(* responses by number, one reader that routes notifications, failure of   *)
(* the connection, cancellation, and Close with the process at its end.    *)
(* The driver process is external: it answers requests in any order, sends *)
(* a subscription's events after its response, and stops when it is told   *)
(* to, when its input ends, or at any time if it may crash.  It may hang   *)
(* as well: then it reads no more, and a write to it may never end.        *)
(***************************************************************************)
EXTENDS Naturals, Sequences

CONSTANTS
  Callers,     \* goroutines with one ordinary call each
  Events,      \* bound: events the driver sends to the subscription
  Queue,       \* how many notifications wait for a subscription (64)
  Buffer,      \* how many events the subscription's channel holds (64)
  MayCrash,    \* whether the driver may stop on its own
  MayHang      \* whether it may stop reading, and everything else

VARIABLES
  driver,      \* the process: "running", "hung", "exited", "reaped" (its pipes closed)
  requested,   \* the requests it has not answered
  output,      \* what it wrote and the client has not read
  streaming,   \* whether it has subscribed the client
  sent,        \* how many events it has written
  client,      \* Driver: its reader, failure, pending, the subscription, its queue
  call,        \* each call: its step and the reply in its channel
  reader,      \* a notification whose subscription was found; <<>> otherwise
  finishing,   \* whether fail still has to finish the subscription
  stream,      \* the subscription: its channel, channelClosed, unsubscribed
  queue,       \* what addSubscription still has to deliver
  closing,     \* Close: its step
  received     \* history: the events the consumer received

process == <<driver, streaming, requested, output, sent>>
subscription == <<stream, queue, received>>
clientVars == <<client, call, reader, finishing, closing>>
sdkVars == <<process, clientVars, subscription>>

All == Callers \cup {"subscribe", "shutdown"}

Init ==
  /\ driver = "running"
  /\ requested = {}
  /\ output = <<>>
  /\ streaming = FALSE
  /\ sent = 0
  /\ client = [reading |-> TRUE, failed |-> FALSE, pending |-> {}, registered |-> FALSE,
               queued |-> <<>>]
  /\ call = [c \in All |-> [at |-> "idle", reply |-> "none"]]
  /\ reader = <<>>
  /\ finishing = FALSE
  /\ stream = [channel |-> <<>>, closed |-> FALSE, unsubscribed |-> FALSE]
  /\ queue = <<>>
  /\ closing = "idle"
  /\ received = <<>>

----------------------------------------------------------------------------
(* call: refused after a failure, else pending before it is written. *)
Refused(c) == client.failed

CallBegin(c) ==
  /\ call[c].at = "idle"
  /\ IF Refused(c)
     THEN call' = [call EXCEPT ![c].at = "returned", ![c].reply = "error"] /\ UNCHANGED client
     ELSE /\ call' = [call EXCEPT ![c].at = "write"]
          /\ client' = [client EXCEPT !.pending = @ \cup {c}]
  /\ UNCHANGED <<process, reader, finishing, closing, subscription>>

(* fail: everyone who is pending gets an error, in a channel that holds    *)
(* one; the subscription is finished after the lock was released.  The     *)
(* reader fails once, when it ends, and so does each call that cannot be   *)
(* written.                                                                *)
Failed(calls) ==
  [c \in All |-> IF c \in client.pending THEN [calls[c] EXCEPT !.reply = "error"] ELSE calls[c]]

Fail(calls, reading) ==
  /\ client' = [reading |-> reading, failed |-> TRUE, pending |-> {}, registered |-> FALSE,
                queued |-> <<>>]
  /\ call' = Failed(calls)
  /\ finishing' = (finishing \/ client.registered)

InputOpen == driver \in {"running", "hung"} /\ closing \notin {"process", "returned"}

CallWrite(c) ==
  /\ call[c].at = "write"
  /\ IF InputOpen
     THEN /\ requested' = requested \cup {c}
          /\ call' = [call EXCEPT ![c].at = "wait"]
          /\ UNCHANGED <<client, finishing>>
     ELSE /\ Fail([call EXCEPT ![c].at = "returned", ![c].reply = "error"], client.reading)
          /\ UNCHANGED requested
  /\ UNCHANGED <<driver, streaming, output, sent, reader, closing, subscription>>

CallReply(c) ==
  /\ call[c].at = "wait" /\ call[c].reply # "none"
  /\ call' = [call EXCEPT ![c].at = "returned"]
  /\ UNCHANGED <<process, client, reader, finishing, closing, subscription>>

(* The context is done: the call forgets its response. *)
CallCancel(c) ==
  /\ call[c].at = "wait"
  /\ call' = [call EXCEPT ![c].at = "returned", ![c].reply = "canceled"]
  /\ client' = [client EXCEPT !.pending = @ \ {c}]
  /\ UNCHANGED <<process, reader, finishing, closing, subscription>>

----------------------------------------------------------------------------
(* read: a response goes to the call that is pending, if it still is; a    *)
(* notification to its subscription, or into the queue.                    *)
Response(c) == [kind |-> "response", of |-> c]
Notification(n) == [kind |-> "event", of |-> n]
Queued(message) == IF Len(client.queued) < Queue THEN Append(client.queued, message)
                   ELSE client.queued

Read ==
  /\ client.reading /\ reader = <<>> /\ output # <<>> /\ driver # "reaped"
  /\ LET message == Head(output) IN
     IF message.kind = "response"
     THEN /\ client' = [client EXCEPT !.pending = @ \ {message.of}]
          /\ call' = IF message.of \in client.pending
                     THEN [call EXCEPT ![message.of].reply = "response"] ELSE call
          /\ UNCHANGED reader
     ELSE /\ IF client.registered
             THEN reader' = <<message.of>> /\ UNCHANGED client
             ELSE reader' = <<>> /\ client' = [client EXCEPT !.queued = Queued(message.of)]
          /\ UNCHANGED call
  /\ output' = Tail(output)
  /\ UNCHANGED <<driver, streaming, requested, sent, finishing, closing, subscription>>

ReadFails ==
  /\ client.reading /\ reader = <<>>
  /\ driver = "reaped" \/ (driver = "exited" /\ output = <<>>)
  /\ Fail(call, FALSE)
  /\ UNCHANGED <<process, reader, closing, subscription>>

(* mutant: the channel may be closed *)
DeliverAlways(s, event) == [s EXCEPT !.channel = Append(@, event)]

(* deliver: an event that does not fit closes the channel, and nothing is  *)
(* sent to a closed one.                                                   *)
Deliver(s, event) ==
  IF s.closed THEN s
  ELSE IF Len(s.channel) < Buffer THEN [s EXCEPT !.channel = Append(@, event)]
  ELSE [s EXCEPT !.closed = TRUE]

ReaderDelivers ==
  /\ reader # <<>>
  /\ stream' = Deliver(stream, Head(reader))
  /\ reader' = <<>>
  /\ UNCHANGED <<process, client, call, finishing, queue, closing, received>>

(* addSubscription: registered under the lock, the queue delivered after. *)
AddSubscription ==
  /\ call["subscribe"].at = "returned" /\ call["subscribe"].reply = "response"
  /\ call' = [call EXCEPT !["subscribe"].reply = "registered"]
  /\ client' = [client EXCEPT !.registered = TRUE, !.queued = <<>>]
  /\ queue' = client.queued
  /\ UNCHANGED <<process, reader, finishing, stream, closing, received>>

DeliverQueued ==
  /\ queue # <<>>
  /\ stream' = Deliver(stream, Head(queue))
  /\ queue' = Tail(queue)
  /\ UNCHANGED <<process, client, call, reader, finishing, closing, received>>

(* finish, and Close of the subscription before its unsubscribe call. *)
Finish ==
  /\ finishing
  /\ finishing' = FALSE
  /\ stream' = [stream EXCEPT !.closed = TRUE, !.unsubscribed = TRUE]
  /\ UNCHANGED <<process, client, call, reader, queue, closing, received>>

Unsubscribe ==
  /\ call["subscribe"].reply = "registered" /\ queue = <<>> /\ ~stream.unsubscribed
  /\ stream' = [stream EXCEPT !.closed = TRUE, !.unsubscribed = TRUE]
  /\ UNCHANGED <<process, client, call, reader, finishing, queue, closing, received>>

Forget ==
  /\ stream.unsubscribed /\ client.registered
  /\ client' = [client EXCEPT !.registered = FALSE]
  /\ UNCHANGED <<process, call, reader, finishing, closing, subscription>>

(* The consumer has the channel when SubscribeEvents has returned. *)
Consume ==
  /\ call["subscribe"].reply = "registered" /\ queue = <<>>
  /\ stream.channel # <<>>
  /\ received' = Append(received, Head(stream.channel))
  /\ stream' = [stream EXCEPT !.channel = Tail(@)]
  /\ UNCHANGED <<process, client, call, reader, finishing, queue, closing>>

----------------------------------------------------------------------------
(* close: the shutdown call unless the client has failed, then the end of  *)
(* the input, then the process; it is killed when that takes too long.     *)
CloseBegin ==
  /\ closing = "idle"
  /\ closing' = IF client.failed THEN "input" ELSE "shutdown"
  /\ UNCHANGED <<process, client, call, reader, finishing, subscription>>

CloseInput ==
  /\ closing = "input" \/ (closing = "shutdown" /\ call["shutdown"].at = "returned")
  /\ closing' = "process"
  /\ UNCHANGED <<process, client, call, reader, finishing, subscription>>

CloseReturn ==
  /\ closing = "process" /\ driver = "reaped"
  /\ closing' = "returned"
  /\ UNCHANGED <<process, client, call, reader, finishing, subscription>>

(* mutant: Close waits for the process however long it takes *)
NeverKill == FALSE

MayKill == closing = "process"

Kill ==
  /\ MayKill /\ driver \in {"running", "hung"}
  /\ driver' = "exited"
  /\ UNCHANGED <<streaming, requested, output, sent, clientVars, subscription>>

(* The driver process. *)
Respond(c) ==
  /\ driver = "running" /\ c \in requested
  /\ requested' = requested \ {c}
  /\ output' = Append(output, Response(c))
  /\ streaming' = (streaming \/ c = "subscribe")
  /\ UNCHANGED <<driver, sent, clientVars, subscription>>

Emit ==
  /\ driver = "running" /\ streaming /\ sent < Events
  /\ sent' = sent + 1
  /\ output' = Append(output, Notification(sent + 1))
  /\ UNCHANGED <<driver, streaming, requested, clientVars, subscription>>

Told == closing = "process" \/ (call["shutdown"].at = "wait" /\ "shutdown" \notin requested)
Exit ==
  /\ driver = "running" /\ (Told \/ MayCrash)
  /\ driver' = "exited"
  /\ UNCHANGED <<streaming, requested, output, sent, clientVars, subscription>>

Hang ==
  /\ MayHang /\ driver = "running"
  /\ driver' = "hung"
  /\ UNCHANGED <<streaming, requested, output, sent, clientVars, subscription>>

(* Launch's goroutine: Wait closes the pipe, what was not read is lost. *)
Reap ==
  /\ driver = "exited"
  /\ driver' = "reaped"
  /\ output' = <<>>
  /\ UNCHANGED <<streaming, requested, sent, clientVars, subscription>>

MayCall(c) == CASE c = "shutdown" -> closing = "shutdown" [] OTHER -> TRUE

CallStep(c) == CallWrite(c) \/ CallReply(c)
ClientStep ==
  \/ Read \/ ReadFails \/ ReaderDelivers \/ AddSubscription \/ DeliverQueued \/ Finish \/ Forget
CloseStep == CloseInput \/ CloseReturn \/ Kill

Next ==
  \/ \E c \in All : (MayCall(c) /\ CallBegin(c)) \/ CallStep(c) \/ CallCancel(c) \/ Respond(c)
  \/ ClientStep \/ CloseStep \/ CloseBegin \/ Unsubscribe \/ Consume \/ Emit
  \/ Exit \/ Hang \/ Reap

(* The client's goroutines run, but a write ends only when the driver      *)
(* reads, or cannot any more; Close has a deadline, for the response to    *)
(* its shutdown call and for the process.  The driver need not answer.     *)
Writable == driver # "hung" \/ ~InputOpen
CallGoesOn(c) == (Writable /\ CallWrite(c)) \/ CallReply(c)

Fairness ==
  /\ \A c \in All : WF_sdkVars(CallGoesOn(c))
  /\ WF_sdkVars(CallBegin("shutdown") /\ closing = "shutdown")
  /\ WF_sdkVars(CallCancel("shutdown"))
  /\ WF_sdkVars(ClientStep) /\ WF_sdkVars(CloseStep) /\ WF_sdkVars(Reap)

Spec == Init /\ [][Next]_sdkVars /\ Fairness

----------------------------------------------------------------------------
(* Nothing is sent to a channel that was closed, by whichever of the       *)
(* reader, the subscriber, the failure and Close came first: it would      *)
(* panic (sdk/go/session.go:168-208, sdk/go/client.go:244-270, 318-336).   *)
NothingAfterClose ==
  stream.closed => stream'.closed /\ Len(stream'.channel) <= Len(stream.channel)

(* Close is past the write of its shutdown request. *)
Asked == \/ closing \in {"input", "process", "returned"}
         \/ closing = "shutdown" /\ call["shutdown"].at \in {"wait", "returned"}

(* When the driver is lost no call hangs: those that wait are failed, and  *)
(* those that come later are refused; Close returns even when the driver   *)
(* does not answer or end, once its request is written, which only a       *)
(* driver that does not read prevents (sdk/go/client.go:272-336, 358-398). *)
CallsReturn ==
  /\ client.failed ~> (\A c \in All : call[c].at \in {"idle", "returned"})
  /\ (closing # "idle") ~> (closing = "returned" \/ (~Asked /\ driver = "hung"))

(* Does not hold. Closing the client "terminates the child process if it   *)
(* does not exit before the configured timeout" (design/go-sdk.md:169-171, *)
(* sdk/go/client.go:356-389): the shutdown request is encoded into the     *)
(* driver's input before the timeout is looked at, so Close waits for ever *)
(* for a driver that does not read (sdk/go/client.go:288-297).             *)
CloseReturns == (closing # "idle") ~> (closing = "returned")

(* Does not hold. "EventSubscription delivers terminal events in order on  *)
(* Events" (sdk/go/session.go:150): the subscription is registered before  *)
(* what was queued for it is delivered, and the reader delivers the next   *)
(* event meanwhile (sdk/go/session.go:263-282, sdk/go/client.go:244-270).  *)
EventsInOrder ==
  \A i, j \in DOMAIN received : i < j => received[i] < received[j]

(* Does not hold. Events "is also closed by Close or when the driver       *)
(* stops" (sdk/go/session.go:151-152): a subscription that is registered   *)
(* after the failure was handled is not finished                           *)
(* (sdk/go/session.go:263-282, sdk/go/client.go:318-336).                  *)
StreamsEnd == (client.failed /\ call["subscribe"].reply = "registered") ~> stream.closed
=============================================================================
