--------------------------- MODULE Subscriptions ----------------------------
(***************************************************************************)
(* The subscriptions of the driver's clients to one session                *)
(* (driver/server.go): the requests session.subscribe and                  *)
(* session.subscribeEvents, the goroutine each of them starts, requests to *)
(* unsubscribe, the close of the session and the close of the driver, all  *)
(* at the same time.                                                       *)
(*                                                                         *)
(* An event is its sequence number; Session has the publisher's side.      *)
(* Every request has an id, and a client unsubscribes after it has got the *)
(* response.  What is done under the driver's mutex, under the session's   *)
(* eventMu or under the writer's mutex is one step.                        *)
(***************************************************************************)
EXTENDS Naturals, Sequences, SequencesExt

CONSTANTS
  EventSubscriptions,    \* requests to session.subscribeEvents
  ScreenSubscriptions,   \* requests to session.subscribe
  EventBuffer,           \* capacity of an event channel (64 in the code)
  RetainedEvents,        \* length of the session's history (256 in the code)
  ReplayedEvents,        \* bound on the replay of a subscription (64 in the code)
  MaxEvents,             \* bound on the events the session publishes
  MaxScreens             \* bound on the screens shown to one subscription

Subs == EventSubscriptions \cup ScreenSubscriptions

ASSUME SubscriptionsAssumption ==
  /\ EventSubscriptions \cap ScreenSubscriptions = {}
  /\ EventBuffer \in Nat \ {0} /\ RetainedEvents \in Nat \ {0} /\ ReplayedEvents \in Nat \ {0}
  /\ ReplayedEvents <= RetainedEvents
  /\ MaxEvents \in Nat /\ MaxScreens \in Nat

VARIABLES
  session,      \* registered in the driver, done, and its event sequence
  driver,       \* closed, and failed: a write has failed
  request,      \* where each request to subscribe is, its response included
  record,       \* which subscriptions are in s.subscriptions
  canceled,     \* which contexts have been canceled by their own cancel
  started,      \* which start channels are closed
  listener,     \* the channel each event subscription listens to
  runner,       \* the goroutine of each subscription, with its replay
  notices,      \* the notifications written for each subscription
  unsubscribe   \* where each request to unsubscribe is

vars == <<session, driver, request, record, canceled, started, listener, runner, notices,
          unsubscribe>>

Init ==
  /\ session = [registered |-> TRUE, done |-> FALSE, sequence |-> 0]
  /\ driver = [closed |-> FALSE, failed |-> FALSE]
  /\ request = [s \in Subs |-> "idle"]
  /\ record = {} /\ canceled = {} /\ started = {}
  /\ listener = [s \in EventSubscriptions |-> [state |-> "none", channel |-> <<>>]]
  /\ runner = [s \in Subs |-> [pc |-> "none", replay |-> <<>>, last |-> 0]]
  /\ notices = [s \in Subs |-> <<>>]
  /\ unsubscribe = [s \in Subs |-> "idle"]

(* A subscription's context is a child of the driver's. *)
ContextDone(s) == s \in canceled \/ driver.closed

-----------------------------------------------------------------------------
(* The session.                                                            *)

SessionFrame ==
  UNCHANGED <<driver, request, record, canceled, started, runner, notices, unsubscribe>>

(* publishEvent: a listener whose channel is full is closed. *)
OfferOrDrop(l, number) ==   \* mutant: a full channel misses the event
  IF l.state = "open" /\ Len(l.channel) < EventBuffer
    THEN [l EXCEPT !.channel = Append(@, number)] ELSE l
Offer(l, number) ==
  IF l.state # "open" THEN l
  ELSE IF Len(l.channel) < EventBuffer THEN [l EXCEPT !.channel = Append(@, number)]
                                       ELSE [l EXCEPT !.state = "closed"]

Publish ==
  LET number == session.sequence + 1 IN
  /\ ~session.done /\ number <= MaxEvents
  /\ session' = [session EXCEPT !.sequence = number]
  /\ listener' = [s \in EventSubscriptions |-> Offer(listener[s], number)]
  /\ SessionFrame

(* finish: every listener is closed. *)
EndSession ==
  /\ ~session.done
  /\ session' = [session EXCEPT !.done = TRUE]
  /\ listener' = [s \in EventSubscriptions |->
                    IF listener[s].state = "open" THEN [listener[s] EXCEPT !.state = "closed"]
                                                  ELSE listener[s]]
  /\ SessionFrame

(* The goroutine of Events closes the channel of a canceled listener. *)
Unlisten(s) ==
  /\ listener[s].state = "open" /\ ContextDone(s)
  /\ listener' = [listener EXCEPT ![s].state = "closed"]
  /\ UNCHANGED session /\ SessionFrame

-----------------------------------------------------------------------------
(* session.subscribe and session.subscribeEvents.                          *)

RequestFrame == UNCHANGED <<session, canceled, notices, unsubscribe>>

(* getSession. *)
Subscribe(s) ==
  /\ request[s] = "idle"
  /\ request' = [request EXCEPT ![s] = IF session.registered THEN "register" ELSE "refused"]
  /\ UNCHANGED <<driver, record, started, listener, runner>> /\ RequestFrame

(* The record; a subscription to screens starts its goroutine at once. *)
Register(s) ==
  /\ request[s] = "register"
  /\ record' = record \cup {s}
  /\ \/ /\ s \in EventSubscriptions
        /\ request' = [request EXCEPT ![s] = "listen"] /\ UNCHANGED runner
     \/ /\ s \in ScreenSubscriptions
        /\ request' = [request EXCEPT ![s] = "respond"]
        /\ runner' = [runner EXCEPT ![s].pc = "wait"]
  /\ UNCHANGED <<driver, started, listener>> /\ RequestFrame

(* session.Events: the live subscription comes first ... *)
Listen(s) ==
  /\ request[s] = "listen"
  /\ listener' = [listener EXCEPT ![s].state = IF session.done THEN "closed" ELSE "open"]
  /\ request' = [request EXCEPT ![s] = "history"]
  /\ UNCHANGED <<driver, record, started, runner>> /\ RequestFrame

(* The newest events of the session, `bound` at most. *)
Newest(bound) ==
  LET n == IF session.sequence < bound THEN session.sequence ELSE bound
  IN  [i \in 1..n |-> session.sequence - n + i]

(* What is replayed: the end of the session's history. *)
Replayed == Newest(IF ReplayedEvents < RetainedEvents THEN ReplayedEvents ELSE RetainedEvents)

(* ... and EventsAfter the second. *)
ReadHistory(s) ==
  /\ request[s] = "history"
  /\ runner' = [runner EXCEPT ![s] = [pc |-> "wait", replay |-> Replayed, last |-> 0]]
  /\ request' = [request EXCEPT ![s] = "respond"]
  /\ UNCHANGED <<driver, record, started, listener>> /\ RequestFrame

(* The response; a write that fails is the last of the driver. *)
Respond(s) ==
  /\ request[s] = "respond"
  /\ \/ /\ ~driver.failed
        /\ request' = [request EXCEPT ![s] = "start"] /\ UNCHANGED driver
     \/ /\ request' = [request EXCEPT ![s] = "failed"]
        /\ driver' = [driver EXCEPT !.failed = TRUE]
  /\ UNCHANGED <<record, started, listener, runner>> /\ RequestFrame

StartSubscription(s) ==
  /\ request[s] = "start"
  /\ started' = IF s \in record THEN started \cup {s} ELSE started
  /\ request' = [request EXCEPT ![s] = "done"]
  /\ UNCHANGED <<driver, record, listener, runner>> /\ RequestFrame

Responded(s) == request[s] \in {"start", "done"}

-----------------------------------------------------------------------------
(* The goroutine of a subscription.                                        *)

RunnerFrame == UNCHANGED <<session, request, started, unsubscribe>>

MayStart(s) == s \in started

(* Start, or return at once. *)
RunnerBegin(s) ==
  /\ runner[s].pc = "wait"
  /\ \/ /\ MayStart(s)
        /\ runner' = [runner EXCEPT ![s].pc = IF s \in EventSubscriptions THEN "replay"
                                                                         ELSE "screens"]
     \/ ContextDone(s) /\ runner' = [runner EXCEPT ![s].pc = "stopped"]
  /\ UNCHANGED <<driver, record, canceled, listener, notices>> /\ RunnerFrame

(* One notification is written and the goroutine goes on as `next`, or the *)
(* write fails, which cancels the context, and it goes on at pc.           *)
Write(s, notice, next, pc) ==
  \/ /\ ~driver.failed
     /\ notices' = [notices EXCEPT ![s] = Append(@, notice)]
     /\ runner' = [runner EXCEPT ![s] = next]
     /\ UNCHANGED <<driver, canceled>>
  \/ /\ driver' = [driver EXCEPT !.failed = TRUE]
     /\ canceled' = canceled \cup {s}
     /\ runner' = [runner EXCEPT ![s].pc = pc]
     /\ UNCHANGED notices

Replay(s) ==
  LET r == runner[s] IN
  /\ r.pc = "replay"
  /\ \/ /\ r.replay # <<>>
        /\ Write(s, Head(r.replay),
                 [r EXCEPT !.replay = Tail(@), !.last = Head(r.replay)], "drain")
     \/ /\ r.replay = <<>> /\ runner' = [runner EXCEPT ![s].pc = "live"]
        /\ UNCHANGED <<driver, canceled, notices>>
  /\ UNCHANGED <<record, listener>> /\ RunnerFrame

(* The live events that were not in the replay. *)
ReplayAgain(s, event) == TRUE   \* mutant: an event in both is sent twice
IsNew(s, event) == event > runner[s].last

Live(s) ==
  /\ runner[s].pc = "live" /\ listener[s].channel # <<>>
  /\ listener' = [listener EXCEPT ![s].channel = Tail(@)]
  /\ LET event == Head(listener[s].channel) IN
     \/ IsNew(s, event) /\ Write(s, event, runner[s], "drain")
     \/ ~IsNew(s, event) /\ UNCHANGED <<driver, canceled, notices, runner>>
  /\ UNCHANGED record /\ RunnerFrame

(* The range over the channel ends when it is closed and empty; after a    *)
(* failed write it ends with the next event.                               *)
LiveEnds(s) ==
  /\ \/ runner[s].pc = "live" /\ listener[s].state = "closed" /\ listener[s].channel = <<>>
     \/ runner[s].pc = "drain" /\ (listener[s].state = "closed" \/ listener[s].channel # <<>>)
  /\ runner' = [runner EXCEPT ![s].pc = "delete"]
  /\ UNCHANGED <<driver, record, canceled, listener, notices>> /\ RunnerFrame

(* The range over Screens: a screen, or the end of the session or of the   *)
(* context.                                                                *)
ShowScreens(s) ==
  /\ runner[s].pc = "screens"
  /\ \/ Len(notices[s]) < MaxScreens /\ Write(s, Len(notices[s]) + 1, runner[s], "delete")
     \/ /\ session.done \/ ContextDone(s)
        /\ runner' = [runner EXCEPT ![s].pc = "delete"]
        /\ UNCHANGED <<driver, canceled, notices>>
  /\ UNCHANGED <<record, listener>> /\ RunnerFrame

DeleteRecord(s) ==
  /\ runner[s].pc = "delete"
  /\ record' = record \ {s}
  /\ runner' = [runner EXCEPT ![s].pc = "stopped"]
  /\ UNCHANGED <<driver, canceled, listener, notices>> /\ RunnerFrame

-----------------------------------------------------------------------------
(* session.unsubscribe, and the closes.                                    *)

CloseFrame == UNCHANGED <<request, started, listener, runner, notices>>

Unsubscribe(s) ==
  /\ unsubscribe[s] = "idle" /\ Responded(s)
  /\ record' = record \ {s}
  /\ unsubscribe' = [unsubscribe EXCEPT ![s] = IF s \in record THEN "cancel" ELSE "refused"]
  /\ UNCHANGED <<session, driver, canceled>> /\ CloseFrame

UnsubscribeCancel(s) ==
  /\ unsubscribe[s] = "cancel"
  /\ canceled' = canceled \cup {s}
  /\ unsubscribe' = [unsubscribe EXCEPT ![s] = "answered"]
  /\ UNCHANGED <<session, driver, record>> /\ CloseFrame

CloseSessionUncanceled ==   \* mutant: the records are deleted, the contexts not canceled
  /\ session.registered
  /\ session' = [session EXCEPT !.registered = FALSE]
  /\ record' = {}
  /\ UNCHANGED <<driver, canceled, unsubscribe>> /\ CloseFrame

(* session.close or connection.close: the subscriptions to the session are *)
(* canceled and forgotten; the session ends afterwards.                    *)
CloseSession ==
  /\ session.registered
  /\ session' = [session EXCEPT !.registered = FALSE]
  /\ canceled' = canceled \cup record
  /\ record' = {}
  /\ UNCHANGED <<driver, unsubscribe>> /\ CloseFrame

(* Server.Close: the driver's context is canceled, and the sessions end    *)
(* afterwards.                                                             *)
CloseDriver ==
  /\ ~driver.closed
  /\ driver' = [driver EXCEPT !.closed = TRUE]
  /\ canceled' = canceled \cup record
  /\ record' = {}
  /\ UNCHANGED <<session, unsubscribe>> /\ CloseFrame

-----------------------------------------------------------------------------
RequestNext(s) ==
  \/ Register(s) \/ Listen(s) \/ ReadHistory(s) \/ Respond(s) \/ StartSubscription(s)

RunnerNext(s) ==
  \/ RunnerBegin(s) \/ DeleteRecord(s) \/ ShowScreens(s)
  \/ s \in EventSubscriptions /\ (Replay(s) \/ Live(s) \/ LiveEnds(s))

Next ==
  \/ Publish \/ EndSession \/ CloseSession \/ CloseDriver
  \/ \E s \in EventSubscriptions : Unlisten(s)
  \/ \E s \in Subs : \/ Subscribe(s) \/ RequestNext(s) \/ RunnerNext(s)
                     \/ Unsubscribe(s) \/ UnsubscribeCancel(s)

Spec == Init /\ [][Next]_vars

(* Fairness.  Goroutines run and the client reads what the driver writes   *)
(* or breaks off; Run closes the driver when a write has failed, and a     *)
(* close goes on to end the session.  Nobody has to call anything.         *)
FairSpec ==
  /\ Spec
  /\ WF_vars(driver.failed /\ CloseDriver)
  /\ WF_vars((driver.closed \/ ~session.registered) /\ EndSession)
  /\ \A s \in EventSubscriptions : WF_vars(Unlisten(s))
  /\ \A s \in Subs : WF_vars(RequestNext(s)) /\ WF_vars(RunnerNext(s))
                     /\ WF_vars(UnsubscribeCancel(s))
=============================================================================
