---------------------- MODULE SubscriptionsProperties -----------------------
(***************************************************************************)
(* What the driver promises its clients about subscriptions.               *)
(***************************************************************************)
EXTENDS Subscriptions

(* The types of the variables. *)
SessionType == [registered : BOOLEAN, done : BOOLEAN, sequence : 0..MaxEvents]
DriverType == [closed : BOOLEAN, failed : BOOLEAN]
RequestType ==
  {"idle", "refused", "register", "listen", "history", "respond", "start", "done", "failed"}
ListenerType == [state : {"none", "open", "closed"}, channel : Seq(1..MaxEvents)]
RunnerType ==
  [pc     : {"none", "wait", "replay", "live", "drain", "screens", "delete", "stopped"},
   replay : Seq(1..MaxEvents), last : 0..MaxEvents]
UnsubscribeType == {"idle", "refused", "cancel", "answered"}

(* Every variable keeps its type; a replay and a channel keep their bounds *)
(* (driver/server.go:22-24, 812-818, session.go:335).                      *)
TypeOK ==
  /\ session \in SessionType
  /\ driver \in DriverType
  /\ request \in [Subs -> RequestType]
  /\ record \subseteq Subs /\ canceled \subseteq Subs /\ started \subseteq Subs
  /\ listener \in [EventSubscriptions -> ListenerType]
  /\ \A s \in EventSubscriptions : Len(listener[s].channel) <= EventBuffer
  /\ runner \in [Subs -> RunnerType]
  /\ \A s \in Subs : Len(runner[s].replay) <= ReplayedEvents
  /\ notices \in [Subs -> Seq(Nat)]
  /\ unsubscribe \in [Subs -> UnsubscribeType]

(* "An event subscription starts, after its response"                      *)
(* (design/driver.md:222): a client knows the number of its subscription   *)
(* before it gets a notification for it, screens included                  *)
(* (driver/server.go:258-266, 767-771, 820-825).                           *)
ResponseFirst == \A s \in Subs : notices[s] # <<>> => Responded(s)

(* "... followed by live events without gaps or duplicates. [...] the      *)
(* first sequence number shows whether older events were omitted"          *)
(* (design/driver.md:222-226): the events sent are consecutive, and if the *)
(* first is not event 1 a whole replay follows it                          *)
(* (driver/server.go:812-858).                                             *)
NoGapNoDuplicate ==
  \A s \in EventSubscriptions :
    notices[s] # <<>> =>
      /\ \A i \in 1..Len(notices[s]) : notices[s][i] = notices[s][1] + i - 1
      /\ \/ notices[s][1] = 1
         \/ notices[s][1] + ReplayedEvents - 1 <= session.sequence

(* "An event subscription starts, after its response, with up to the 64    *)
(* most recent events the session retains, followed by live events without *)
(* gaps or duplicates" (design/driver.md:222-226): all of what a client    *)
(* sees (driver/server.go:258-266, 812-858).                               *)
DeliveredInOrder == ResponseFirst /\ NoGapNoDuplicate

(* As long as its channel is open, a subscription will send every event    *)
(* from its first on: what it has not sent is in its replay or in its      *)
(* channel, whatever was published between the two calls that fill them    *)
(* (driver/server.go:812-818).                                             *)
NothingLost ==
  \A s \in EventSubscriptions :
    LET known == ToSet(notices[s]) \cup ToSet(runner[s].replay) \cup ToSet(listener[s].channel)
    IN  listener[s].state = "open" /\ runner[s].pc \in {"wait", "replay", "live"}
        => \A n \in 1..session.sequence : n \in known \/ (known # {} /\ \A m \in known : n < m)

(* A goroutine that runs can be canceled through its record, and until the *)
(* driver closes a record has its goroutine: none is left behind           *)
(* (driver/server.go:758-789, 804-863, 877-895, 930-937).                  *)
RecordsTracked ==
  \A s \in Subs :
    /\ runner[s].pc \in {"wait", "replay", "live", "screens"} /\ ~ContextDone(s)
         => s \in record \/ unsubscribe[s] = "cancel"
    /\ runner[s].pc = "stopped" /\ ~driver.closed => s \notin record

(* No event and no goroutine is lost between the steps that hand it on     *)
(* (driver/server.go:758-789, 804-863, 877-895).                           *)
NothingLostOrLeft == NothingLost /\ RecordsTracked

(* A canceled subscription, and one whose session has ended, stops: by     *)
(* unsubscribe, by any close, or because a write failed, its own response  *)
(* included (driver/server.go:160-172, 189-193, 767-771, 820-825).         *)
SubscriptionsEnd ==
  \A s \in Subs :
    (ContextDone(s) \/ session.done \/ driver.failed) /\ runner[s].pc # "none"
      ~> runner[s].pc = "stopped"
=============================================================================
