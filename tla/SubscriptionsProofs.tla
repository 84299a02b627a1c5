------------------------ MODULE SubscriptionsProofs -------------------------
(***************************************************************************)
(* What a client gets of its subscriptions, for any number of them, of     *)
(* events and of screens, and for any size of the channels and histories.  *)
(***************************************************************************)
EXTENDS SubscriptionsProperties, SequenceTheorems, TLAPS

(* A stretch of the session's events without a gap or a duplicate, and the *)
(* number of its last event.                                               *)
Consecutive(q) == \A i \in 1..Len(q) : q[i] = q[1] + i - 1
EndOf(q) == IF q = <<>> THEN 0 ELSE q[1] + Len(q) - 1

(* A subscription starts with event 1 or with a whole replay.              *)
Whole(q, top) == q = <<>> \/ q[1] = 1 \/ q[1] + ReplayedEvents - 1 <= top

(* The last event that a goroutine has sent or will replay: r is its       *)
(* record, n what it has sent.                                             *)
ReplayedTo(r, n) == IF r.replay = <<>> THEN EndOf(n) ELSE EndOf(r.replay)

(* A channel holds a stretch of events, which is the end of all, top being *)
(* the last, while nobody has closed it.                                   *)
ChannelHolds(l, top) ==
  /\ Consecutive(l.channel) /\ EndOf(l.channel) <= top
  /\ l.state = "open" /\ l.channel # <<>> => EndOf(l.channel) = top

(* What was sent is followed by what is left of the replay ...             *)
ReplayFollows(r, n, top) ==
  /\ Consecutive(n) /\ Whole(n, top) /\ EndOf(n) <= top
  /\ Consecutive(r.replay) /\ EndOf(r.replay) <= top
  /\ n = <<>> => Whole(r.replay, top)
  /\ r.pc \in {"wait", "replay"} =>
       /\ n # <<>> /\ r.replay # <<>> => r.replay[1] = EndOf(n) + 1
       /\ r.last = EndOf(n)
  /\ r.pc = "live" => r.replay = <<>> /\ r.last <= EndOf(n)

(* ... and that by what is left in the channel, which may repeat the end   *)
(* of the replay.                                                          *)
LiveFollows(r, n, l, top) ==
  r.pc \in {"wait", "replay", "live"} =>
    /\ l.channel # <<>> => l.channel[1] <= ReplayedTo(r, n) + 1
    /\ l.channel = <<>> /\ l.state = "open" => top <= ReplayedTo(r, n)
    /\ r.pc = "live" /\ l.channel # <<>> =>
         r.last = ReplayedTo(r, n) \/ l.channel[1] = ReplayedTo(r, n) + 1

Unlistened(s) == request[s] \in {"idle", "refused", "register", "listen"}

EventsHold(s) ==
  /\ Unlistened(s) => listener[s].state = "none" /\ listener[s].channel = <<>>
  /\ ChannelHolds(listener[s], session.sequence)
  /\ ReplayFollows(runner[s], notices[s], session.sequence)
  /\ LiveFollows(runner[s], notices[s], listener[s], session.sequence)

(* How far a request has come tells how far its goroutine has.             *)
StartsAfterResponse(s) ==
  /\ unsubscribe[s] # "idle" => Responded(s)
  /\ request[s] \in {"listen", "history"} => s \in EventSubscriptions
  /\ runner[s].pc = "screens" => s \notin EventSubscriptions
  /\ s \in started => request[s] = "done"
  /\ runner[s].pc \in {"replay", "live", "screens"} => s \in started
  /\ notices[s] # <<>> => s \in started
  /\ runner[s].pc = "none" <=> Unlistened(s) \/ request[s] = "history"

(* A context that is canceled before its goroutine starts has no record    *)
(* any more.                                                               *)
RecordHolds(s) ==
  /\ request[s] \in {"idle", "refused", "register"} => s \notin canceled \cup record
  /\ request[s] \in {"listen", "history"} => s \in record \/ ContextDone(s)
  /\ runner[s].pc \in {"none", "wait"} /\ s \in canceled => s \notin record
  /\ unsubscribe[s] = "cancel" => s \notin record

RecordTracked(s) ==
  /\ runner[s].pc \in {"wait", "replay", "live", "screens"} /\ ~ContextDone(s)
       => s \in record \/ unsubscribe[s] = "cancel"
  /\ runner[s].pc = "stopped" /\ ~driver.closed => s \notin record

(* The inductive invariant. *)
IInv ==
  /\ TypeOK
  /\ \A s \in Subs : StartsAfterResponse(s) /\ RecordHolds(s) /\ RecordTracked(s)
  /\ \A s \in EventSubscriptions : EventsHold(s)

-----------------------------------------------------------------------------
(* A stretch has events or none (session.go:566-573).                      *)
LEMMA EmptyStretch ==
  ASSUME NEW q \in Seq(Nat)
  PROVE  Len(q) \in Nat /\ (q = <<>> <=> Len(q) = 0)
BY EmptySeq, LenProperties

(* The number of the last event of a stretch (session.go:566-573).         *)
LEMMA EndTyped ==
  ASSUME NEW q \in Seq(Nat)
  PROVE  /\ EndOf(q) \in Nat
         /\ q # <<>> => q[1] \in Nat /\ Len(q) \in Nat \ {0} /\ EndOf(q) = q[1] + Len(q) - 1
         /\ q = <<>> => EndOf(q) = 0
BY EmptySeq, ElementOfSeq DEF EndOf

(* A stretch without its first event is a stretch                          *)
(* (driver/server.go:826-858).                                             *)
LEMMA TailOfStretch ==
  ASSUME NEW q \in Seq(Nat), q # <<>>, Consecutive(q)
  PROVE  /\ Tail(q) \in Seq(Nat) /\ Len(Tail(q)) = Len(q) - 1
         /\ Head(q) = q[1] /\ q[1] \in Nat
         /\ Consecutive(Tail(q))
         /\ Tail(q) # <<>> => Tail(q)[1] = q[1] + 1 /\ EndOf(Tail(q)) = EndOf(q)
         /\ Tail(q) = <<>> => EndOf(q) = q[1]
<1>1. /\ Len(q) \in Nat /\ Len(q) > 0 /\ Tail(q) \in Seq(Nat) /\ Len(Tail(q)) = Len(q) - 1
      /\ \A i \in 1..(Len(q) - 1) : Tail(q)[i] = q[i + 1]
      /\ Head(q) = q[1] /\ q[1] \in Nat
  BY EmptySeq, HeadTailProperties, ElementOfSeq
<1>2. \A i \in 1..(Len(q) - 1) : Tail(q)[i] = q[1] + i
  BY <1>1 DEF Consecutive
<1>3. Tail(q) # <<>> => Len(q) > 1 /\ Tail(q)[1] = q[1] + 1
  BY <1>1, <1>2, EmptySeq
<1>4. Tail(q) = <<>> <=> Len(q) = 1
  <2>1. Len(Tail(q)) = 0 <=> Len(q) = 1
    BY <1>1
  <2> QED
    BY <1>1, <2>1, EmptyStretch
<1>5. Consecutive(Tail(q))
  BY <1>1, <1>2 DEF Consecutive
<1>6. Tail(q) # <<>> => EndOf(Tail(q)) = EndOf(q)
  BY <1>1, <1>3 DEF EndOf
<1>7. Tail(q) = <<>> => EndOf(q) = q[1]
  BY <1>1, <1>4 DEF EndOf
<1> QED
  BY <1>1, <1>3, <1>5, <1>6, <1>7

(* A stretch with the next event is a stretch (session.go:566-573,         *)
(* driver/server.go:826-858).                                              *)
LEMMA StretchGoesOn ==
  ASSUME NEW q \in Seq(Nat), NEW e \in Nat, Consecutive(q), q # <<>> => e = EndOf(q) + 1
  PROVE  /\ Append(q, e) \in Seq(Nat) /\ Append(q, e) # <<>> /\ Consecutive(Append(q, e))
         /\ EndOf(Append(q, e)) = e
         /\ q = <<>> => Append(q, e)[1] = e
         /\ q # <<>> => Append(q, e)[1] = q[1]
<1>1. /\ Append(q, e) \in Seq(Nat) /\ Len(Append(q, e)) = Len(q) + 1
      /\ Len(q) \in Nat
      /\ \A i \in 1..Len(q) : Append(q, e)[i] = q[i] /\ q[i] \in Nat
      /\ Append(q, e)[Len(q) + 1] = e
  BY AppendProperties, ElementOfSeq
<1>0. Append(q, e) # <<>>
  BY <1>1, EmptySeq
<1>2. CASE q = <<>>
  <2>1. Len(q) = 0 /\ Append(q, e)[1] = e
    BY <1>1, <1>2, EmptySeq
  <2> QED
    BY <1>0, <1>1, <1>2, <2>1 DEF Consecutive, EndOf
<1>3. CASE q # <<>>
  <2>1. Len(q) > 0 /\ e = q[1] + Len(q) /\ Append(q, e)[1] = q[1] /\ q[1] \in Nat
    BY <1>1, <1>3, EmptySeq DEF EndOf
  <2>2. \A i \in 1..(Len(q) + 1) : Append(q, e)[i] = q[1] + i - 1
    <3> SUFFICES ASSUME NEW i \in 1..(Len(q) + 1)
                 PROVE  Append(q, e)[i] = q[1] + i - 1
      OBVIOUS
    <3>1. CASE i = Len(q) + 1
      BY <1>1, <2>1, <3>1
    <3>2. CASE i \in 1..Len(q)
      BY <1>1, <3>2 DEF Consecutive
    <3> QED
      BY <1>1, <3>1, <3>2
  <2>3. Consecutive(Append(q, e))
    BY <1>1, <2>1, <2>2 DEF Consecutive
  <2> QED
    BY <1>0, <1>1, <1>3, <2>1, <2>3 DEF EndOf
<1> QED
  BY <1>2, <1>3

(* Event numbers are numbers (session.go:566-573).                         *)
LEMMA Numbers ==
  ASSUME MaxEvents \in Nat, NEW q \in Seq(1..MaxEvents)
  PROVE  q \in Seq(Nat) /\ \A i \in 1..Len(q) : q[i] \in 1..MaxEvents
BY SeqMonotonic, ElementOfSeq

-----------------------------------------------------------------------------
(* publishEvent (session.go:551-588): a listener keeps the end of all      *)
(* events, or is closed.                                                   *)
LEMMA Offered ==
  ASSUME MaxEvents \in Nat, NEW l \in ListenerType, NEW top \in Nat, top + 1 <= MaxEvents,
         ChannelHolds(l, top), EventBuffer \in Nat, Len(l.channel) <= EventBuffer
  PROVE  LET o == Offer(l, top + 1) IN
         /\ o \in ListenerType /\ Len(o.channel) <= EventBuffer
         /\ ChannelHolds(o, top + 1)
         /\ l.state = "none" => o = l
         /\ l.channel # <<>> => o.channel # <<>> /\ o.channel[1] = l.channel[1]
         /\ l.channel = <<>> => \/ o.channel = <<>> /\ o.state # "open"
                                \/ l.state = "open" /\ o.channel # <<>> /\ o.channel[1] = top + 1
<1>1. l.channel \in Seq(1..MaxEvents) /\ l.channel \in Seq(Nat) /\ top + 1 \in 1..MaxEvents
      /\ l.state \in {"none", "open", "closed"}
  BY Numbers DEF ListenerType
<1>2. CASE l.state # "open"
  BY <1>1, <1>2, EndTyped DEF Offer, ChannelHolds
<1>3. CASE l.state = "open" /\ Len(l.channel) < EventBuffer
  <2> DEFINE c == Append(l.channel, top + 1)
             o == [l EXCEPT !.channel = c]
  <2>1. /\ c \in Seq(1..MaxEvents) /\ Len(c) = Len(l.channel) + 1
    BY <1>1
  <2>2. /\ c # <<>> /\ Consecutive(c) /\ EndOf(c) = top + 1
        /\ l.channel = <<>> => c[1] = top + 1
        /\ l.channel # <<>> => c[1] = l.channel[1]
    <3>1. l.channel # <<>> => top + 1 = EndOf(l.channel) + 1
      BY <1>3 DEF ChannelHolds
    <3> QED
      <4>1. top + 1 \in Nat /\ l.channel \in Seq(Nat) /\ Consecutive(l.channel)
        BY <1>1 DEF ChannelHolds
      <4> QED
        BY <3>1, <4>1, StretchGoesOn
  <2> HIDE DEF c
  <2>3. o \in ListenerType /\ o.channel = c /\ o.state = "open"
    BY <1>1, <1>3, <2>1 DEF ListenerType
  <2>4. Offer(l, top + 1) = o
    BY <1>3 DEF Offer, c
  <2> HIDE DEF o
  <2> QED
    <3>1. ChannelHolds(o, top + 1)
      BY <2>2, <2>3 DEF ChannelHolds
    <3>2. Len(o.channel) <= EventBuffer
      BY <1>1, <1>3, <2>1, <2>3
    <3> QED
      BY <1>3, <2>2, <2>3, <2>4, <3>1, <3>2
<1>4. CASE l.state = "open" /\ ~(Len(l.channel) < EventBuffer)
  <2>1. Offer(l, top + 1) = [l EXCEPT !.state = "closed"]
    BY <1>4 DEF Offer
  <2>2. [l EXCEPT !.state = "closed"] \in ListenerType
    BY DEF ListenerType
  <2> QED
    BY <1>1, <1>4, <2>1, <2>2, EndTyped DEF ChannelHolds, ListenerType
<1> QED
  BY <1>2, <1>3, <1>4

(* Publishing an event keeps what was sent and what will be (session.go:   *)
(* 566-588).                                                               *)
LEMMA PublishFollows ==
  ASSUME SubscriptionsAssumption, NEW l \in ListenerType, NEW r \in RunnerType,
         NEW n \in Seq(Nat), NEW top \in Nat, top + 1 <= MaxEvents,
         Len(l.channel) <= EventBuffer,
         ChannelHolds(l, top), ReplayFollows(r, n, top), LiveFollows(r, n, l, top)
  PROVE  LET o == Offer(l, top + 1) IN
         /\ o \in ListenerType /\ Len(o.channel) <= EventBuffer
         /\ l.state = "none" => o = l
         /\ ChannelHolds(o, top + 1) /\ ReplayFollows(r, n, top + 1)
         /\ LiveFollows(r, n, o, top + 1)
<1> DEFINE o == Offer(l, top + 1)
<1>0. MaxEvents \in Nat /\ EventBuffer \in Nat /\ ReplayedEvents \in Nat
  BY DEF SubscriptionsAssumption
<1>1. /\ o \in ListenerType /\ Len(o.channel) <= EventBuffer
      /\ ChannelHolds(o, top + 1)
      /\ l.state = "none" => o = l
      /\ l.channel # <<>> => o.channel # <<>> /\ o.channel[1] = l.channel[1]
      /\ l.channel = <<>> => \/ o.channel = <<>> /\ o.state # "open"
                             \/ l.state = "open" /\ o.channel # <<>> /\ o.channel[1] = top + 1
  BY <1>0, Offered
<1> HIDE DEF o
<1>2. r.replay \in Seq(Nat) /\ r.replay \in Seq(1..MaxEvents)
  BY <1>0, Numbers DEF RunnerType
<1>3. /\ EndOf(n) \in Nat /\ EndOf(r.replay) \in Nat
      /\ n # <<>> => n[1] \in Nat
      /\ r.replay # <<>> => r.replay[1] \in Nat
  BY <1>2, EndTyped
<1>4. ReplayFollows(r, n, top + 1)
  BY <1>0, <1>3 DEF ReplayFollows, Whole
<1>5. ReplayedTo(r, n) \in Nat /\ ReplayedTo(r, n) <= top
  BY <1>3 DEF ReplayFollows, ReplayedTo
<1>6. LiveFollows(r, n, o, top + 1)
  BY <1>1, <1>5 DEF LiveFollows
<1> QED
  BY <1>1, <1>4, <1>6 DEF o

(* A listener that is closed keeps its channel (session.go:335-378).       *)
LEMMA ClosedFollows ==
  ASSUME NEW l \in ListenerType, NEW r, NEW n, NEW top,
         ChannelHolds(l, top), LiveFollows(r, n, l, top)
  PROVE  LET o == [l EXCEPT !.state = "closed"] IN
         /\ o \in ListenerType /\ o.channel = l.channel /\ o.state = "closed"
         /\ ChannelHolds(o, top) /\ LiveFollows(r, n, o, top)
<1> DEFINE o == [l EXCEPT !.state = "closed"]
<1>1. o \in ListenerType /\ o.channel = l.channel /\ o.state = "closed"
  BY DEF ListenerType
<1> HIDE DEF o
<1>2. ChannelHolds(o, top) /\ LiveFollows(r, n, o, top)
  BY <1>1 DEF ChannelHolds, LiveFollows
<1> QED
  BY <1>1, <1>2 DEF o

(* EventsAfter hands out the end of all events, and a listener was there   *)
(* before (driver/server.go:812-818).                                      *)
LEMMA HistoryFollows ==
  ASSUME SubscriptionsAssumption, session \in SessionType, NEW l \in ListenerType,
         ChannelHolds(l, session.sequence)
  PROVE  LET r == [pc |-> "wait", replay |-> Replayed, last |-> 0] IN
         /\ r \in RunnerType /\ Len(Replayed) <= ReplayedEvents
         /\ ReplayFollows(r, <<>>, session.sequence)
         /\ LiveFollows(r, <<>>, l, session.sequence)
<1> DEFINE top == session.sequence
           k == IF ReplayedEvents < top THEN ReplayedEvents ELSE top
           q == [i \in 1..k |-> top - k + i]
           r == [pc |-> "wait", replay |-> q, last |-> 0]
<1>0. /\ top \in Nat /\ top <= MaxEvents /\ MaxEvents \in Nat
      /\ ReplayedEvents \in Nat /\ ReplayedEvents > 0
      /\ RetainedEvents \in Nat /\ ReplayedEvents <= RetainedEvents
  BY DEF SubscriptionsAssumption, SessionType
<1> HIDE DEF top
<1>1. Replayed = q
  BY <1>0 DEF Replayed, Newest, top
<1>2. k \in Nat /\ k <= ReplayedEvents /\ k <= top /\ (k = 0 <=> top = 0)
  BY <1>0
<1>3. k < ReplayedEvents => k = top
  BY <1>0
<1> HIDE DEF k
<1>4. q \in Seq(1..MaxEvents) /\ Len(q) = k /\ \A i \in 1..k : q[i] = top - k + i
  <2>1. \A i \in 1..k : top - k + i \in 1..MaxEvents
    BY <1>0, <1>2
  <2> QED
    BY <1>2, <2>1
<1> HIDE DEF q
<1>5. q \in Seq(Nat) /\ (q = <<>> <=> k = 0)
  BY <1>0, <1>4, EmptyStretch, Numbers
<1>6. k # 0 => q[1] = top - k + 1
  BY <1>2, <1>4
<1>7. Consecutive(q) /\ EndOf(q) = top
  BY <1>0, <1>2, <1>4, <1>5, <1>6 DEF Consecutive, EndOf
<1>8. Whole(q, top)
  BY <1>0, <1>2, <1>3, <1>5, <1>6 DEF Whole
<1>9. r \in RunnerType
  BY <1>0, <1>4 DEF RunnerType
<1>10. r.pc = "wait" /\ r.replay = q /\ r.last = 0
  OBVIOUS
<1> HIDE DEF r
<1>11. Consecutive(<<>>) /\ EndOf(<<>>) = 0
  BY EmptySeq DEF Consecutive, EndOf
<1>12. ReplayFollows(r, <<>>, top)
  BY <1>0, <1>7, <1>8, <1>10, <1>11 DEF ReplayFollows, Whole
<1>13. ReplayedTo(r, <<>>) = top
  BY <1>2, <1>5, <1>7, <1>10, <1>11 DEF ReplayedTo
<1>14. l.channel \in Seq(Nat)
  BY <1>0, Numbers DEF ListenerType
<1>15. l.channel # <<>> => l.channel[1] <= top
  BY <1>0, <1>14, EndTyped DEF ChannelHolds, top
<1>16. LiveFollows(r, <<>>, l, top)
  <2>1. l.channel # <<>> => l.channel[1] \in Nat
    BY <1>14, EndTyped
  <2> QED
    BY <1>0, <1>10, <1>13, <1>15, <2>1 DEF LiveFollows
<1> QED
  BY <1>1, <1>2, <1>4, <1>9, <1>12, <1>16 DEF r, top

(* A notification of the replay is the next of what was sent               *)
(* (driver/server.go:826-839).                                             *)
LEMMA ReplaySends ==
  ASSUME MaxEvents \in Nat, ReplayedEvents \in Nat, NEW top \in Nat,
         NEW l \in ListenerType, NEW r \in RunnerType, NEW n \in Seq(Nat),
         r.pc = "replay", r.replay # <<>>,
         ReplayFollows(r, n, top), LiveFollows(r, n, l, top)
  PROVE  LET m == Append(n, Head(r.replay))
             x == [r EXCEPT !.replay = Tail(r.replay), !.last = Head(r.replay)]
         IN  /\ x \in RunnerType /\ Len(x.replay) <= Len(r.replay) /\ m \in Seq(Nat) /\ m # <<>>
             /\ x.pc = r.pc
             /\ ReplayFollows(x, m, top) /\ LiveFollows(x, m, l, top)
<1> DEFINE q == r.replay
           t == Tail(q)
           h == Head(q)
           m == Append(n, h)
           x == [r EXCEPT !.replay = t, !.last = h]
<1>1. q \in Seq(1..MaxEvents) /\ q \in Seq(Nat) /\ q # <<>> /\ Consecutive(q)
  BY Numbers DEF RunnerType, ReplayFollows
<1>2. /\ t \in Seq(Nat) /\ h = q[1] /\ h \in Nat /\ Consecutive(t) /\ Len(t) <= Len(q)
      /\ t # <<>> => t[1] = h + 1 /\ EndOf(t) = EndOf(q)
      /\ t = <<>> => EndOf(q) = h
  <2>1. Len(q) \in Nat
    BY <1>1, EmptyStretch
  <2>2. /\ t \in Seq(Nat) /\ Len(t) = Len(q) - 1 /\ h = q[1] /\ h \in Nat
        /\ Consecutive(t)
        /\ t # <<>> => t[1] = q[1] + 1 /\ EndOf(t) = EndOf(q)
        /\ t = <<>> => EndOf(q) = q[1]
    BY <1>1, TailOfStretch
  <2> HIDE DEF t, h, q
  <2> QED
    BY <2>1, <2>2
<1>3. t \in Seq(1..MaxEvents) /\ h \in 1..MaxEvents
  BY <1>1, HeadTailProperties
<1>4. x \in RunnerType /\ x.pc = "replay" /\ x.replay = t /\ x.last = h
  <2>1. h \in 0..MaxEvents
    BY <1>3
  <2> HIDE DEF t, h
  <2> QED
    BY <1>3, <2>1 DEF RunnerType
<1> HIDE DEF x
<1>5. n # <<>> => h = EndOf(n) + 1
  BY <1>1, <1>2 DEF ReplayFollows
<1>6. /\ m \in Seq(Nat) /\ m # <<>> /\ Consecutive(m) /\ EndOf(m) = h
      /\ n = <<>> => m[1] = h
      /\ n # <<>> => m[1] = n[1]
  BY <1>2, <1>5, StretchGoesOn DEF ReplayFollows
<1> HIDE DEF m
<1>7. Whole(m, top)
  <2>1. CASE n = <<>>
    BY <1>1, <1>2, <1>6, <2>1 DEF ReplayFollows, Whole
  <2>2. CASE n # <<>>
    BY <1>6, <2>2 DEF ReplayFollows, Whole
  <2> QED
    BY <2>1, <2>2
<1>8. EndOf(m) <= top /\ EndOf(t) <= top
  <2>1. EndOf(q) <= top /\ EndOf(q) \in Nat /\ h <= EndOf(q)
    BY <1>1, EndTyped, <1>2 DEF ReplayFollows
  <2>2. t = <<>> => EndOf(t) = 0
    BY DEF EndOf
  <2> HIDE DEF t, h, q
  <2> QED
    BY <1>2, <1>6, <2>1, <2>2
<1> HIDE DEF t, h
<1>9. ReplayFollows(x, m, top)
  BY <1>2, <1>4, <1>6, <1>7, <1>8 DEF ReplayFollows
<1>10. ReplayedTo(x, m) = ReplayedTo(r, n)
  BY <1>1, <1>2, <1>4, <1>6 DEF ReplayedTo
<1> HIDE DEF q
<1>11. LiveFollows(x, m, l, top)
  BY <1>4, <1>10 DEF LiveFollows
<1> QED
  BY <1>2, <1>4, <1>6, <1>9, <1>11 DEF q, t, h, m, x

(* The first event of the channel is either the next of what was sent, or  *)
(* was in the replay and is not sent again (driver/server.go:840-858).     *)
LEMMA LiveSends ==
  ASSUME MaxEvents \in Nat, ReplayedEvents \in Nat, NEW top \in Nat,
         NEW l \in ListenerType, NEW r \in RunnerType, NEW n \in Seq(Nat),
         r.pc = "live", l.channel # <<>>,
         ChannelHolds(l, top), ReplayFollows(r, n, top), LiveFollows(r, n, l, top)
  PROVE  LET h == Head(l.channel)
             m == Append(n, h)
             o == [l EXCEPT !.channel = Tail(l.channel)]
         IN  /\ o \in ListenerType /\ Len(o.channel) <= Len(l.channel) /\ o.state = l.state
             /\ m \in Seq(Nat) /\ m # <<>>
             /\ ChannelHolds(o, top)
             /\ h > r.last => ReplayFollows(r, m, top) /\ LiveFollows(r, m, o, top)
             /\ ~(h > r.last) => LiveFollows(r, n, o, top)
<1> DEFINE c == l.channel
           t == Tail(c)
           h == Head(c)
           m == Append(n, h)
           o == [l EXCEPT !.channel = t]
<1>1. c \in Seq(1..MaxEvents) /\ c \in Seq(Nat) /\ c # <<>> /\ Consecutive(c)
  BY Numbers DEF ListenerType, ChannelHolds
<1>2. /\ t \in Seq(Nat) /\ h = c[1] /\ h \in Nat /\ Consecutive(t) /\ Len(t) <= Len(c)
      /\ t # <<>> => t[1] = h + 1 /\ EndOf(t) = EndOf(c)
      /\ t = <<>> => EndOf(c) = h
  <2>1. Len(c) \in Nat
    BY <1>1, EmptyStretch
  <2>2. /\ t \in Seq(Nat) /\ Len(t) = Len(c) - 1 /\ h = c[1] /\ h \in Nat
        /\ Consecutive(t)
        /\ t # <<>> => t[1] = c[1] + 1 /\ EndOf(t) = EndOf(c)
        /\ t = <<>> => EndOf(c) = c[1]
    BY <1>1, TailOfStretch
  <2> HIDE DEF t, h, c
  <2> QED
    BY <2>1, <2>2
<1>3. t \in Seq(1..MaxEvents)
  BY <1>1, HeadTailProperties
<1>4. o \in ListenerType /\ o.channel = t /\ o.state = l.state
  <2> HIDE DEF t
  <2> QED
    BY <1>3 DEF ListenerType
<1> HIDE DEF o
<1>5. /\ EndOf(c) \in Nat /\ EndOf(c) <= top /\ h <= EndOf(c)
      /\ l.state = "open" => EndOf(c) = top
      /\ t = <<>> => EndOf(t) = 0
  <2>1. EndOf(c) \in Nat /\ h <= EndOf(c)
    BY <1>1, <1>2, EndTyped, SMTT(40)
  <2> QED
    BY <1>1, <2>1 DEF ChannelHolds, EndOf
<1>6. ChannelHolds(o, top)
  BY <1>2, <1>4, <1>5 DEF ChannelHolds
<1>7. /\ r.replay = <<>> /\ r.last \in Nat /\ r.last <= EndOf(n)
      /\ ReplayedTo(r, n) = EndOf(n) /\ EndOf(n) \in Nat
      /\ h <= EndOf(n) + 1 /\ (r.last = EndOf(n) \/ h = EndOf(n) + 1)
  <2>1. r.replay = <<>> /\ r.last \in Nat /\ r.last <= EndOf(n)
    BY DEF ReplayFollows, RunnerType
  <2>2. ReplayedTo(r, n) = EndOf(n) /\ EndOf(n) \in Nat
    BY <2>1, EndTyped DEF ReplayedTo
  <2> QED
    BY <2>1, <2>2, <1>1, <1>2 DEF LiveFollows
<1>8. m \in Seq(Nat) /\ m # <<>>
  <2>1. h \in Nat
    BY <1>2
  <2> HIDE DEF h
  <2> QED
    BY <2>1, AppendProperties
<1>9. ASSUME h > r.last
      PROVE  ReplayFollows(r, m, top) /\ LiveFollows(r, m, o, top)
  <2>1. h = EndOf(n) + 1
    BY <1>2, <1>7, <1>9, SMTT(40)
  <2>2. /\ Consecutive(m) /\ EndOf(m) = h
        /\ n = <<>> => m[1] = h /\ h = 1
        /\ n # <<>> => m[1] = n[1]
    BY <1>2, <2>1, StretchGoesOn, EndTyped, SMTT(40) DEF ReplayFollows
  <2> HIDE DEF m, t, h, c
  <2>3. Whole(m, top)
    BY <2>2 DEF ReplayFollows, Whole
  <2>4. ReplayFollows(r, m, top)
    <3>1. EndOf(m) <= top
      BY <1>2, <1>5, <2>2
    <3>2. r.pc # "wait" /\ r.pc # "replay" /\ r.last <= EndOf(m)
      BY <1>7, <2>1, <2>2
    <3>3. Consecutive(r.replay) /\ EndOf(r.replay) <= top
      BY DEF ReplayFollows
    <3> QED
      BY <1>7, <1>8, <2>2, <2>3, <3>1, <3>2, <3>3 DEF ReplayFollows
  <2>5. ReplayedTo(r, m) = h
    BY <1>7, <2>2 DEF ReplayedTo
  <2>6. LiveFollows(r, m, o, top)
    BY <1>2, <1>4, <1>5, <2>5 DEF LiveFollows
  <2> QED
    BY <2>4, <2>6
<1>10. ASSUME ~(h > r.last)
       PROVE  LiveFollows(r, n, o, top)
  <2>1. h <= r.last /\ r.last = EndOf(n)
    BY <1>2, <1>7, <1>10
  <2> HIDE DEF t, h, c
  <2> QED
    BY <1>2, <1>4, <1>5, <1>7, <2>1 DEF LiveFollows
<1> HIDE DEF c, t, h, m
<1> QED
  BY <1>2, <1>4, <1>6, <1>8, <1>9, <1>10 DEF c, t, h, m, o

(* The goroutine goes on to the replay, to the channel, or to its end      *)
(* (driver/server.go:826-862).                                             *)
LEMMA RunnerGoesOn ==
  ASSUME NEW r \in RunnerType, NEW n, NEW l, NEW top, EndOf(n) \in Nat,
         ReplayFollows(r, n, top), LiveFollows(r, n, l, top),
         NEW p \in {"replay", "live", "drain", "screens", "delete", "stopped"},
         p = "replay" => r.pc = "wait", p = "live" => r.pc = "replay" /\ r.replay = <<>>
  PROVE  LET x == [r EXCEPT !.pc = p] IN
         /\ x \in RunnerType /\ x.replay = r.replay /\ x.pc = p
         /\ ReplayFollows(x, n, top) /\ LiveFollows(x, n, l, top)
<1> DEFINE x == [r EXCEPT !.pc = p]
<1>1. x \in RunnerType /\ x.replay = r.replay /\ x.last = r.last /\ x.pc = p
  BY DEF RunnerType
<1> HIDE DEF x
<1>2. ReplayFollows(x, n, top)
  BY <1>1 DEF ReplayFollows
<1>3. ReplayedTo(x, n) = ReplayedTo(r, n)
  BY <1>1 DEF ReplayedTo
<1>4. p = "live" => x.last = ReplayedTo(x, n)
  BY <1>1, <1>3 DEF ReplayFollows, ReplayedTo
<1>5. LiveFollows(x, n, l, top)
  BY <1>1, <1>3, <1>4 DEF LiveFollows
<1> QED
  BY <1>1, <1>2, <1>5 DEF x

-----------------------------------------------------------------------------
(* What the types say of one subscription (driver/server.go:758-863).      *)
LEMMA AtTypes ==
  ASSUME TypeOK
  PROVE  /\ session \in SessionType /\ session.sequence \in Nat /\ MaxEvents \in Nat
         /\ EventBuffer \in Nat /\ ReplayedEvents \in Nat
         /\ session.sequence <= MaxEvents
         /\ EventSubscriptions \subseteq Subs
         /\ \A s \in EventSubscriptions :
              listener[s] \in ListenerType /\ Len(listener[s].channel) <= EventBuffer
         /\ \A s \in Subs : /\ runner[s] \in RunnerType /\ Len(runner[s].replay) <= ReplayedEvents
                            /\ notices[s] \in Seq(Nat) /\ EndOf(notices[s]) \in Nat
BY SubscriptionsAssumption, EndTyped
DEF TypeOK, SubscriptionsAssumption, SessionType, DriverType, Subs

(* A subscription that a step leaves alone stays in order                  *)
(* (driver/server.go:804-863).                                             *)
LEMMA EventsStay ==
  ASSUME NEW s \in EventSubscriptions, EventsHold(s),
         listener'[s] = listener[s], runner'[s] = runner[s], notices'[s] = notices[s],
         session'.sequence = session.sequence, Unlistened(s)' => Unlistened(s)
  PROVE  EventsHold(s)'
BY DEF EventsHold

(* The session publishes an event or ends, or a listener's context does    *)
(* (session.go:335-378, 456-493, 551-588).                                 *)
LEMMA SessionStep ==
  ASSUME IInv, Publish \/ EndSession \/ \E s \in EventSubscriptions : Unlisten(s)
  PROVE  IInv'
<1>0. TypeOK /\ \A s \in EventSubscriptions : EventsHold(s)
  BY DEF IInv
<1>1. /\ UNCHANGED <<driver, request, record, canceled, started, runner, notices, unsubscribe>>
      /\ \A s \in Subs : /\ Unlistened(s)' = Unlistened(s) /\ Responded(s)' = Responded(s)
                         /\ ContextDone(s)' = ContextDone(s)
  BY DEF Publish, EndSession, Unlisten, SessionFrame, Unlistened, Responded, ContextDone
<1>2. \A s \in Subs : StartsAfterResponse(s)' /\ RecordHolds(s)' /\ RecordTracked(s)'
  BY <1>1 DEF IInv, StartsAfterResponse, RecordHolds, RecordTracked
<1>4. CASE Publish
  <2> DEFINE top == session.sequence
  <2>1. /\ top + 1 <= MaxEvents /\ session' = [session EXCEPT !.sequence = top + 1]
        /\ listener' = [s \in EventSubscriptions |-> Offer(listener[s], top + 1)]
    BY <1>4 DEF Publish
  <2>2. session' \in SessionType /\ session'.sequence = top + 1
    BY <1>0, <2>1, AtTypes DEF SessionType
  <2>3. ASSUME NEW s \in EventSubscriptions
        PROVE  /\ listener'[s] \in ListenerType /\ Len(listener'[s].channel) <= EventBuffer
               /\ EventsHold(s)'
    <3>1. listener'[s] = Offer(listener[s], top + 1)
      BY <2>1
    <3>2. /\ listener[s] \in ListenerType /\ runner[s] \in RunnerType /\ notices[s] \in Seq(Nat)
          /\ top \in Nat /\ Len(listener[s].channel) <= EventBuffer
      BY <1>0, AtTypes
    <3>3. /\ ChannelHolds(listener[s], top) /\ ReplayFollows(runner[s], notices[s], top)
          /\ LiveFollows(runner[s], notices[s], listener[s], top)
      BY <1>0 DEF EventsHold
    <3> HIDE DEF top
    <3>4. /\ listener'[s] \in ListenerType /\ Len(listener'[s].channel) <= EventBuffer
          /\ listener[s].state = "none" => listener'[s] = listener[s]
          /\ ChannelHolds(listener'[s], top + 1)
          /\ ReplayFollows(runner[s], notices[s], top + 1)
          /\ LiveFollows(runner[s], notices[s], listener'[s], top + 1)
      BY <2>1, <3>1, <3>2, <3>3, PublishFollows, SubscriptionsAssumption
    <3> QED
      BY <1>0, <1>1, <2>2, <3>4, AtTypes DEF EventsHold
  <2>4. TypeOK'
    BY <1>0, <1>1, <2>1, <2>2, <2>3 DEF TypeOK
  <2> QED
    BY <1>2, <2>3, <2>4 DEF IInv
<1>5. CASE EndSession \/ \E s \in EventSubscriptions : Unlisten(s)
  <2>1. /\ session' \in SessionType /\ session'.sequence = session.sequence
        /\ listener' = [s \in EventSubscriptions |-> listener'[s]]
        /\ \A s \in EventSubscriptions :
             \/ listener'[s] = listener[s]
             \/ /\ listener[s].state = "open"
                /\ listener'[s] = [listener[s] EXCEPT !.state = "closed"]
    BY <1>0, <1>5 DEF EndSession, Unlisten, TypeOK, SessionType
  <2>2. ASSUME NEW s \in EventSubscriptions
        PROVE  /\ listener'[s] \in ListenerType /\ Len(listener'[s].channel) <= EventBuffer
               /\ EventsHold(s)'
    <3>0. listener[s] \in ListenerType /\ Len(listener[s].channel) <= EventBuffer /\ s \in Subs
      BY <1>0, AtTypes
    <3>1. CASE listener'[s] = listener[s]
      BY <1>0, <1>1, <2>1, <3>0, <3>1, EventsStay
    <3>2. CASE listener[s].state = "open" /\ listener'[s] = [listener[s] EXCEPT !.state = "closed"]
      <4>1. /\ listener'[s] \in ListenerType /\ listener'[s].channel = listener[s].channel
            /\ ChannelHolds(listener'[s], session.sequence)
            /\ LiveFollows(runner[s], notices[s], listener'[s], session.sequence)
        BY <1>0, <3>0, <3>2, ClosedFollows DEF EventsHold
      <4> QED
        BY <1>0, <1>1, <2>1, <3>0, <3>2, <4>1 DEF EventsHold
    <3> QED
      BY <2>1, <3>1, <3>2
  <2>3. TypeOK'
    BY <1>0, <1>1, <2>1, <2>2 DEF TypeOK
  <2> QED
    BY <1>2, <2>2, <2>3 DEF IInv
<1> QED
  BY <1>4, <1>5

(* Requests to unsubscribe and the closes cancel what is in the record     *)
(* (driver/server.go:160-172, 877-895, 930-937).                           *)
LEMMA CloseStep ==
  ASSUME IInv,
         CloseSession \/ CloseDriver \/ \E s \in Subs : Unsubscribe(s) \/ UnsubscribeCancel(s)
  PROVE  IInv'
<1>0. /\ TypeOK
      /\ \A s \in Subs : StartsAfterResponse(s) /\ RecordHolds(s) /\ RecordTracked(s)
      /\ \A s \in EventSubscriptions : EventsHold(s) /\ s \in Subs
  BY AtTypes DEF IInv
<1>1. UNCHANGED <<request, started, listener, runner, notices>> /\ session' \in SessionType
      /\ session'.sequence = session.sequence
  BY <1>0 DEF CloseSession, CloseDriver, Unsubscribe, UnsubscribeCancel, CloseFrame, TypeOK,
              SessionType
<1>2. TypeOK'
  <2>1. /\ driver' \in DriverType /\ record' \subseteq Subs /\ canceled' \subseteq Subs
        /\ unsubscribe' \in [Subs -> UnsubscribeType]
    BY <1>0 DEF CloseSession, CloseDriver, Unsubscribe, UnsubscribeCancel, CloseFrame, TypeOK,
                DriverType, UnsubscribeType
  <2> QED
    BY <1>0, <1>1, <2>1 DEF TypeOK
<1>3. \A s \in EventSubscriptions : EventsHold(s)'
  BY <1>0, <1>1, EventsStay DEF Unlistened
<1>4. ASSUME NEW s \in Subs
      PROVE  StartsAfterResponse(s)'
  BY <1>0, <1>1 DEF CloseSession, CloseDriver, Unsubscribe, UnsubscribeCancel, CloseFrame, TypeOK,
                    StartsAfterResponse, Unlistened, Responded
<1>5. ASSUME NEW s \in Subs
      PROVE  RecordHolds(s)' /\ RecordTracked(s)'
  <2>1. StartsAfterResponse(s) /\ RecordHolds(s) /\ RecordTracked(s)
    BY <1>0
  <2>2. CASE CloseSession \/ CloseDriver
    BY <1>0, <1>1, <2>1, <2>2
    DEF CloseSession, CloseDriver, TypeOK, DriverType, RecordHolds, RecordTracked, ContextDone
  <2>3. CASE \E v \in Subs : Unsubscribe(v) \/ UnsubscribeCancel(v)
    <3>1. PICK v \in Subs : Unsubscribe(v) \/ UnsubscribeCancel(v)
      BY <2>3
    <3>2. CASE v = s
      BY <1>0, <1>1, <2>1, <3>1, <3>2
      DEF Unsubscribe, UnsubscribeCancel, TypeOK, RecordHolds, RecordTracked, ContextDone,
          Responded, StartsAfterResponse
    <3>3. CASE v # s
      BY <1>0, <1>1, <2>1, <3>1, <3>3
      DEF Unsubscribe, UnsubscribeCancel, TypeOK, RecordHolds, RecordTracked, ContextDone
    <3> QED
      BY <3>2, <3>3
  <2> QED
    BY <2>2, <2>3
<1> QED
  BY <1>2, <1>3, <1>4, <1>5 DEF IInv

(* A subscription that a step leaves alone keeps its record                *)
(* (driver/server.go:758-895).                                             *)
LEMMA OthersStay ==
  ASSUME NEW s \in Subs, StartsAfterResponse(s), RecordHolds(s), RecordTracked(s),
         request'[s] = request[s], runner'[s] = runner[s], notices'[s] = notices[s],
         unsubscribe'[s] = unsubscribe[s], driver'.closed = driver.closed,
         s \in started' <=> s \in started, s \in record' <=> s \in record,
         s \in canceled' <=> s \in canceled
  PROVE  StartsAfterResponse(s)' /\ RecordHolds(s)' /\ RecordTracked(s)'
BY DEF StartsAfterResponse, RecordHolds, RecordTracked, Unlistened, Responded, ContextDone

(* The requests to subscribe (driver/server.go:258-266, 758-825).          *)
LEMMA RequestStep ==
  ASSUME IInv, NEW v \in Subs, Subscribe(v) \/ RequestNext(v)
  PROVE  IInv'
<1> USE DEF RequestNext
<1>0. /\ TypeOK
      /\ \A s \in Subs : StartsAfterResponse(s) /\ RecordHolds(s) /\ RecordTracked(s)
      /\ \A s \in EventSubscriptions : EventsHold(s) /\ s \in Subs
  BY AtTypes DEF IInv
<1>1. /\ UNCHANGED <<session, canceled, notices, unsubscribe>> /\ driver'.closed = driver.closed
      /\ driver' \in DriverType
  BY <1>0 DEF Subscribe, Register, Listen, ReadHistory, Respond, StartSubscription, RequestFrame,
              TypeOK, DriverType
<1>2. /\ request' \in [Subs -> RequestType] /\ record' \subseteq Subs /\ started' \subseteq Subs
      /\ listener' = [s \in EventSubscriptions |-> listener'[s]]
      /\ runner' = [s \in Subs |-> runner'[s]]
      /\ \A s \in Subs \ {v} :
           /\ request'[s] = request[s] /\ runner'[s] = runner[s]
           /\ s \in started' <=> s \in started
           /\ s \in record' <=> s \in record
      /\ \A s \in EventSubscriptions \ {v} : listener'[s] = listener[s]
  BY <1>0 DEF Subscribe, Register, Listen, ReadHistory, Respond, StartSubscription, RequestFrame,
              TypeOK, RequestType
<1>3. \A s \in Subs \ {v} : StartsAfterResponse(s)' /\ RecordHolds(s)' /\ RecordTracked(s)'
  BY <1>0, <1>1, <1>2, OthersStay
<1>4. \A s \in EventSubscriptions \ {v} : EventsHold(s)'
  <2> SUFFICES ASSUME NEW s \in EventSubscriptions \ {v} PROVE EventsHold(s)'
    OBVIOUS
  <2>1. Unlistened(s)' = Unlistened(s)
    BY <1>0, <1>2 DEF Unlistened
  <2> QED
    BY <1>0, <1>1, <1>2, <2>1, EventsStay
<1>5. StartsAfterResponse(v)' /\ RecordHolds(v)' /\ RecordTracked(v)'
  <2>0. StartsAfterResponse(v) /\ RecordHolds(v) /\ RecordTracked(v)
    BY <1>0
  <2> USE DEF StartsAfterResponse, RecordHolds, RecordTracked, Unlistened, Responded, ContextDone
  <2>1. CASE Subscribe(v)
    BY <1>0, <1>1, <2>0, <2>1 DEF Subscribe, TypeOK
  <2>2. CASE Register(v)
    <3>1. CASE v \in EventSubscriptions /\ request' = [request EXCEPT ![v] = "listen"]
               /\ UNCHANGED runner
      BY <1>0, <1>1, <2>0, <2>2, <3>1 DEF Register, TypeOK
    <3>2. CASE request' = [request EXCEPT ![v] = "respond"]
               /\ runner' = [runner EXCEPT ![v].pc = "wait"]
      <4>1. runner'[v].pc = "wait" /\ request'[v] = "respond"
        BY <1>0, <3>2 DEF TypeOK, RunnerType
      <4> QED
        BY <1>0, <1>1, <2>0, <2>2, <4>1 DEF Register, TypeOK
    <3> QED
      BY <2>2, <3>1, <3>2 DEF Register
  <2>3. CASE Listen(v)
    BY <1>0, <1>1, <2>0, <2>3 DEF Listen, TypeOK
  <2>4. CASE ReadHistory(v)
    <3>1. runner'[v].pc = "wait" /\ request'[v] = "respond" /\ request[v] = "history"
      BY <1>0, <2>4 DEF ReadHistory, TypeOK
    <3> QED
      BY <1>0, <1>1, <2>0, <2>4, <3>1 DEF ReadHistory, TypeOK
  <2>5. CASE Respond(v)
    BY <1>0, <1>1, <2>0, <2>5 DEF Respond, TypeOK
  <2>6. CASE StartSubscription(v)
    BY <1>0, <1>1, <2>0, <2>6 DEF StartSubscription, TypeOK
  <2> QED
    BY <2>1, <2>2, <2>3, <2>4, <2>5, <2>6
<1>6. /\ runner'[v] \in RunnerType /\ Len(runner'[v].replay) <= ReplayedEvents
      /\ v \in EventSubscriptions =>
           /\ listener'[v] \in ListenerType /\ Len(listener'[v].channel) <= EventBuffer
           /\ EventsHold(v)'
  <2>0. /\ runner[v] \in RunnerType /\ Len(runner[v].replay) <= ReplayedEvents
        /\ v \in EventSubscriptions =>
             /\ listener[v] \in ListenerType /\ Len(listener[v].channel) <= EventBuffer
             /\ EventsHold(v)
    BY <1>0, AtTypes
  <2>1. CASE Subscribe(v) \/ Respond(v) \/ StartSubscription(v)
    <3>1. runner' = runner /\ listener' = listener /\ (Unlistened(v)' => Unlistened(v))
      BY <1>0, <2>1 DEF Subscribe, Respond, StartSubscription, Unlistened, TypeOK
    <3> QED
      BY <1>1, <2>0, <3>1, EventsStay
  <2>2. CASE Register(v)
    <3>1. CASE v \in EventSubscriptions
      <4>1. runner' = runner /\ listener' = listener /\ Unlistened(v)
        BY <2>2, <3>1, SubscriptionsAssumption DEF Register, Unlistened, SubscriptionsAssumption
      <4> QED
        BY <1>1, <2>0, <3>1, <4>1, EventsStay
    <3>2. CASE v \notin EventSubscriptions
      <4> DEFINE x == [runner[v] EXCEPT !.pc = "wait"]
      <4>1. runner'[v] = x
        BY <1>0, <2>2, <3>2 DEF Register, TypeOK
      <4>2. x \in RunnerType /\ x.replay = runner[v].replay
        BY <2>0 DEF RunnerType
      <4> HIDE DEF x
      <4> QED
        BY <2>0, <3>2, <4>1, <4>2
    <3> QED
      BY <3>1, <3>2
  <2>3. CASE Listen(v)
    <3>1. CASE v \notin EventSubscriptions
      BY <2>0, <2>3, <3>1 DEF Listen
    <3>2. CASE v \in EventSubscriptions
      <4> DEFINE st == IF session.done THEN "closed" ELSE "open"
                 l == [listener[v] EXCEPT !.state = st]
      <4>1. /\ listener[v].channel = <<>> /\ Unlistened(v) /\ runner[v].pc = "none"
            /\ ChannelHolds(listener[v], session.sequence)
            /\ ReplayFollows(runner[v], notices[v], session.sequence)
        BY <1>0, <2>0, <2>3, <3>2 DEF EventsHold, Listen, Unlistened, StartsAfterResponse
      <4>2. st \in {"closed", "open"}
        OBVIOUS
      <4> HIDE DEF st
      <4>3. l \in ListenerType /\ l.channel = listener[v].channel
        BY <2>0, <3>2, <4>2 DEF ListenerType
      <4> HIDE DEF l
      <4>4. listener'[v] = l /\ runner' = runner /\ request'[v] = "history"
        BY <1>0, <2>3, <3>2 DEF Listen, l, st, TypeOK
      <4>5. ChannelHolds(l, session.sequence)
            /\ LiveFollows(runner[v], notices[v], l, session.sequence)
        BY <4>1, <4>3 DEF ChannelHolds, LiveFollows
      <4> QED
        BY <1>1, <2>0, <3>2, <4>1, <4>3, <4>4, <4>5 DEF EventsHold, Unlistened
    <3> QED
      BY <3>1, <3>2
  <2>4. CASE ReadHistory(v)
    <3> DEFINE r == [pc |-> "wait", replay |-> Replayed, last |-> 0]
    <3>1. runner'[v] = r /\ listener' = listener /\ request'[v] = "respond"
          /\ request[v] = "history"
      BY <1>0, <2>4 DEF ReadHistory, TypeOK
    <3>2. v \in EventSubscriptions /\ notices[v] = <<>>
      BY <1>0, <3>1 DEF StartsAfterResponse
    <3>3. /\ r \in RunnerType /\ Len(Replayed) <= ReplayedEvents
          /\ ReplayFollows(r, <<>>, session.sequence)
          /\ LiveFollows(r, <<>>, listener[v], session.sequence)
          /\ ChannelHolds(listener[v], session.sequence)
      BY <1>0, <2>0, <3>2, HistoryFollows, SubscriptionsAssumption, AtTypes DEF EventsHold
    <3>4. r.replay = Replayed
      OBVIOUS
    <3> HIDE DEF r
    <3>5. EventsHold(v)'
      BY <1>1, <3>1, <3>2, <3>3 DEF EventsHold, Unlistened
    <3> QED
      BY <2>0, <3>1, <3>2, <3>3, <3>4, <3>5
  <2> QED
    BY <2>1, <2>2, <2>3, <2>4
<1>7. TypeOK'
  BY <1>0, <1>1, <1>2, <1>6 DEF TypeOK
<1> QED
  BY <1>3, <1>4, <1>5, <1>6, <1>7 DEF IInv

(* What a step of a goroutine has to show (driver/server.go:771-789,       *)
(* 826-863).                                                               *)
LEMMA GoroutineStep ==
  ASSUME IInv, NEW v \in Subs, NEW x \in RunnerType, NEW m \in Seq(Nat),
         UNCHANGED <<session, request, started, unsubscribe>>,
         runner' = [runner EXCEPT ![v] = x], Len(x.replay) <= ReplayedEvents,
         notices' = [notices EXCEPT ![v] = m],
         driver' \in DriverType, driver'.closed = driver.closed,
         canceled' = canceled \/ canceled' = canceled \cup {v},
         record' = record \/ record' = record \ {v},
         listener' \in [EventSubscriptions -> ListenerType],
         \A s \in EventSubscriptions : Len(listener'[s].channel) <= EventBuffer,
         \A s \in EventSubscriptions \ {v} : listener'[s] = listener[s],
         StartsAfterResponse(v)', RecordHolds(v)', RecordTracked(v)',
         v \in EventSubscriptions => EventsHold(v)'
  PROVE  IInv'
<1>0. /\ TypeOK
      /\ \A s \in Subs : StartsAfterResponse(s) /\ RecordHolds(s) /\ RecordTracked(s)
      /\ \A s \in EventSubscriptions : EventsHold(s) /\ s \in Subs
  BY AtTypes DEF IInv
<1>1. \A s \in Subs : /\ s # v => runner'[s] = runner[s] /\ notices'[s] = notices[s]
                      /\ Unlistened(s)' = Unlistened(s)
  BY <1>0 DEF TypeOK, Unlistened
<1>2. \A s \in Subs \ {v} : StartsAfterResponse(s)' /\ RecordHolds(s)' /\ RecordTracked(s)'
  BY <1>0, <1>1, OthersStay
<1>3. \A s \in EventSubscriptions \ {v} : EventsHold(s)'
  BY <1>0, <1>1, EventsStay
<1>4. TypeOK'
  <2>1. /\ runner' \in [Subs -> RunnerType] /\ notices' \in [Subs -> Seq(Nat)]
        /\ \A s \in Subs : Len(runner'[s].replay) <= ReplayedEvents
        /\ record' \subseteq Subs /\ canceled' \subseteq Subs
    BY <1>0 DEF TypeOK
  <2> QED
    BY <1>0, <2>1 DEF TypeOK
<1> QED
  BY <1>2, <1>3, <1>4 DEF IInv

(* A goroutine whose context is done, whose write failed or whose channel  *)
(* ended stops in the end (driver/server.go:771-789, 826-863).             *)
LEMMA StopStep ==
  ASSUME IInv, NEW v \in Subs,
         NEW p \in {"replay", "live", "drain", "screens", "delete", "stopped"},
         UNCHANGED <<session, request, started, unsubscribe, listener, notices>>,
         runner' = [runner EXCEPT ![v].pc = p],
         runner[v].pc \notin {"none", "stopped"},
         driver' \in DriverType, driver'.closed = driver.closed,
         \/ canceled' = canceled
         \/ canceled' = canceled \cup {v} /\ p \in {"drain", "delete"},
         \/ record' = record
         \/ record' = record \ {v} /\ p = "stopped",
         p \in {"replay", "screens"} => runner[v].pc = "wait",
         p = "live" => runner[v].pc = "replay" /\ runner[v].replay = <<>>,
         p \in {"replay", "live", "screens"} => v \in started,
         p = "screens" => v \notin EventSubscriptions,
         p = "stopped" => \/ runner[v].pc = "wait" /\ ContextDone(v)
                          \/ v \notin record'
  PROVE  IInv'
<1>0. /\ TypeOK /\ StartsAfterResponse(v) /\ RecordHolds(v) /\ RecordTracked(v)
      /\ runner[v] \in RunnerType /\ notices[v] \in Seq(Nat) /\ EndOf(notices[v]) \in Nat
      /\ Len(runner[v].replay) <= ReplayedEvents
      /\ notices' = [notices EXCEPT ![v] = notices[v]]
      /\ listener \in [EventSubscriptions -> ListenerType]
      /\ \A s \in EventSubscriptions : Len(listener[s].channel) <= EventBuffer
  BY AtTypes DEF IInv, TypeOK
<1> DEFINE x == [runner[v] EXCEPT !.pc = p]
<1>1. x \in RunnerType /\ x.replay = runner[v].replay /\ x.pc = p
  BY <1>0 DEF RunnerType
<1>2. runner' = [runner EXCEPT ![v] = x] /\ runner'[v] = x
  BY <1>0 DEF TypeOK
<1>3. ASSUME v \in EventSubscriptions
      PROVE  EventsHold(v)'
  <2>1. EventsHold(v)
    BY <1>3 DEF IInv
  <2>2. ReplayFollows(x, notices[v], session.sequence)
        /\ LiveFollows(x, notices[v], listener[v], session.sequence)
    BY <1>0, <2>1, RunnerGoesOn DEF EventsHold
  <2> HIDE DEF x
  <2> QED
    BY <1>2, <2>1, <2>2 DEF EventsHold, Unlistened
<1> HIDE DEF x
<1>4. StartsAfterResponse(v)'
  BY <1>0, <1>1, <1>2 DEF StartsAfterResponse, Unlistened, Responded
<1>5. RecordHolds(v)'
  <2>1. request[v] \notin {"idle", "refused", "register", "listen", "history"}
    BY <1>0 DEF StartsAfterResponse, Unlistened
  <2> QED
    BY <1>0, <1>1, <1>2, <2>1 DEF RecordHolds
<1>6. RecordTracked(v)'
  BY <1>0, <1>1, <1>2 DEF RecordTracked, RecordHolds, ContextDone
<1> QED
  BY <1>0, <1>1, <1>2, <1>3, <1>4, <1>5, <1>6, GoroutineStep

(* A write of a subscription's goroutine goes out, or fails and cancels    *)
(* its context (driver/server.go:776-783, 829-858).                        *)
LEMMA Written ==
  ASSUME TypeOK, NEW v \in Subs, NEW e, NEW x, NEW p, Write(v, e, x, p)
  PROVE  \/ /\ notices' = [notices EXCEPT ![v] = Append(notices[v], e)]
            /\ runner' = [runner EXCEPT ![v] = x] /\ UNCHANGED <<driver, canceled>>
         \/ /\ runner' = [runner EXCEPT ![v].pc = p] /\ notices' = notices
            /\ canceled' = canceled \cup {v}
            /\ driver' \in DriverType /\ driver'.closed = driver.closed
BY DEF Write, TypeOK, DriverType

(* The goroutine of a subscription (driver/server.go:771-789, 826-863).    *)
LEMMA RunnerStep ==
  ASSUME IInv, NEW v \in Subs, RunnerNext(v)
  PROVE  IInv'
<1>0. /\ TypeOK /\ StartsAfterResponse(v) /\ RecordHolds(v) /\ RecordTracked(v)
      /\ v \in EventSubscriptions => EventsHold(v)
  BY DEF IInv
<1>t. /\ runner[v] \in RunnerType /\ notices[v] \in Seq(Nat) /\ EndOf(notices[v]) \in Nat
      /\ Len(runner[v].replay) <= ReplayedEvents /\ driver \in DriverType
      /\ listener \in [EventSubscriptions -> ListenerType]
      /\ \A s \in EventSubscriptions : Len(listener[s].channel) <= EventBuffer
      /\ session.sequence \in Nat /\ MaxEvents \in Nat /\ ReplayedEvents \in Nat
      /\ runner \in [Subs -> RunnerType] /\ notices \in [Subs -> Seq(Nat)]
  BY <1>0, AtTypes DEF TypeOK
<1>1. CASE RunnerBegin(v)
  <2>1. PICK p \in {"replay", "screens", "stopped"} :
          /\ runner' = [runner EXCEPT ![v].pc = p]
          /\ p # "stopped" => v \in started
          /\ p = "screens" => v \notin EventSubscriptions
          /\ p = "stopped" => ContextDone(v)
    BY <1>1 DEF RunnerBegin, MayStart
  <2>2. /\ UNCHANGED <<session, request, started, unsubscribe, listener, notices>>
        /\ UNCHANGED <<driver, canceled, record>> /\ runner[v].pc = "wait"
    BY <1>1 DEF RunnerBegin, RunnerFrame
  <2> QED
    BY <1>t, <2>1, <2>2, StopStep
<1>2. CASE DeleteRecord(v)
  BY <1>t, <1>2, StopStep DEF DeleteRecord, RunnerFrame
<1>3. CASE LiveEnds(v)
  BY <1>t, <1>3, StopStep DEF LiveEnds, RunnerFrame
<1>4. ASSUME NEW e \in Nat, NEW x \in RunnerType, NEW p \in {"drain", "delete"}, Write(v, e, x, p),
             UNCHANGED <<session, request, started, unsubscribe, record, listener>>,
             runner[v].pc \in {"replay", "screens"}, x.pc = runner[v].pc,
             Len(x.replay) <= ReplayedEvents,
             v \in EventSubscriptions =>
               /\ ReplayFollows(x, Append(notices[v], e), session.sequence)
               /\ LiveFollows(x, Append(notices[v], e), listener[v], session.sequence)
      PROVE  IInv'
  <2>1. CASE /\ notices' = [notices EXCEPT ![v] = Append(notices[v], e)]
             /\ runner' = [runner EXCEPT ![v] = x] /\ UNCHANGED <<driver, canceled>>
    <3>1. Append(notices[v], e) \in Seq(Nat)
      BY <1>t, <1>4, AppendProperties
    <3>2. runner'[v] = x /\ notices'[v] = Append(notices[v], e)
      BY <1>t, <2>1
    <3>3. StartsAfterResponse(v)' /\ RecordHolds(v)' /\ RecordTracked(v)'
      BY <1>0, <1>4, <2>1, <3>2
      DEF StartsAfterResponse, RecordHolds, RecordTracked, Unlistened, Responded, ContextDone
    <3>4. v \in EventSubscriptions => EventsHold(v)'
      BY <1>0, <1>4, <2>1, <3>2 DEF EventsHold, Unlistened
    <3> QED
      BY <1>t, <1>4, <2>1, <3>1, <3>3, <3>4, GoroutineStep
  <2>2. CASE /\ runner' = [runner EXCEPT ![v].pc = p] /\ notices' = notices
             /\ canceled' = canceled \cup {v}
             /\ driver' \in DriverType /\ driver'.closed = driver.closed
    BY <1>4, <2>2, StopStep
  <2> QED
    BY <1>0, <1>4, <2>1, <2>2, Written
<1>5. CASE Replay(v) /\ v \in EventSubscriptions
  <2>0. runner[v].pc = "replay" /\ UNCHANGED <<session, request, started, unsubscribe, record,
                                               listener>>
    BY <1>5 DEF Replay, RunnerFrame
  <2>1. CASE runner[v].replay # <<>>
    <3> DEFINE x == [runner[v] EXCEPT !.replay = Tail(runner[v].replay),
                                      !.last = Head(runner[v].replay)]
    <3>1. Write(v, Head(runner[v].replay), x, "drain")
      BY <1>5, <2>1 DEF Replay
    <3>2. /\ x \in RunnerType /\ Len(x.replay) <= Len(runner[v].replay) /\ x.pc = "replay"
          /\ ReplayFollows(x, Append(notices[v], Head(runner[v].replay)), session.sequence)
          /\ LiveFollows(x, Append(notices[v], Head(runner[v].replay)), listener[v],
                         session.sequence)
      BY <1>0, <1>t, <1>5, <2>0, <2>1, ReplaySends DEF EventsHold
    <3>3. Head(runner[v].replay) \in Nat
      BY <1>t, <2>1, HeadTailProperties DEF RunnerType
    <3>4. Len(x.replay) <= ReplayedEvents
      <4>1. x.replay \in Seq(1..MaxEvents) /\ runner[v].replay \in Seq(1..MaxEvents)
        BY <1>t, <3>2 DEF RunnerType
      <4>2. Len(x.replay) \in Nat /\ Len(runner[v].replay) \in Nat
        BY <4>1, LenProperties
      <4> HIDE DEF x
      <4> QED
        BY <1>t, <3>2, <4>2
    <3> HIDE DEF x
    <3> QED
      BY <1>4, <1>5, <2>0, <3>1, <3>2, <3>3, <3>4
  <2>2. CASE runner[v].replay = <<>>
    <3>1. /\ runner' = [runner EXCEPT ![v].pc = "live"]
          /\ UNCHANGED <<driver, canceled, notices>>
      BY <1>5, <2>2 DEF Replay
    <3>2. v \in started
      BY <1>0, <2>0 DEF StartsAfterResponse
    <3> QED
      BY <1>t, <2>0, <2>2, <3>1, <3>2, StopStep
  <2> QED
    BY <2>1, <2>2
<1>6. CASE ShowScreens(v)
  <2>0. runner[v].pc = "screens" /\ UNCHANGED <<session, request, started, unsubscribe, record,
                                                listener>>
    BY <1>6 DEF ShowScreens, RunnerFrame
  <2>1. CASE Write(v, Len(notices[v]) + 1, runner[v], "delete")
    <3>1. Len(notices[v]) + 1 \in Nat
      BY <1>t, LenProperties
    <3>2. v \notin EventSubscriptions
      BY <1>0, <2>0 DEF StartsAfterResponse
    <3> QED
      BY <1>4, <1>t, <2>0, <2>1, <3>1, <3>2
  <2>2. CASE runner' = [runner EXCEPT ![v].pc = "delete"] /\ UNCHANGED <<driver, canceled, notices>>
    BY <1>t, <2>0, <2>2, StopStep
  <2> QED
    BY <1>6, <2>1, <2>2 DEF ShowScreens
<1>7. CASE Live(v) /\ v \in EventSubscriptions
  <2> DEFINE h == Head(listener[v].channel)
             m == Append(notices[v], h)
             o == [listener[v] EXCEPT !.channel = Tail(listener[v].channel)]
  <2>0. /\ runner[v].pc = "live" /\ listener[v].channel # <<>>
        /\ UNCHANGED <<session, request, started, unsubscribe, record>>
        /\ listener' = [listener EXCEPT ![v] = o]
        /\ \/ h > runner[v].last /\ Write(v, h, runner[v], "drain")
           \/ ~(h > runner[v].last) /\ UNCHANGED <<driver, canceled, notices, runner>>
    BY <1>7 DEF Live, RunnerFrame, IsNew
  <2>1. /\ o \in ListenerType /\ Len(o.channel) <= Len(listener[v].channel)
        /\ o.state = listener[v].state /\ m \in Seq(Nat)
        /\ ChannelHolds(o, session.sequence)
        /\ h > runner[v].last => /\ ReplayFollows(runner[v], m, session.sequence)
                                 /\ LiveFollows(runner[v], m, o, session.sequence)
        /\ ~(h > runner[v].last) => LiveFollows(runner[v], notices[v], o, session.sequence)
    <3>1. /\ listener[v] \in ListenerType /\ ChannelHolds(listener[v], session.sequence)
          /\ ReplayFollows(runner[v], notices[v], session.sequence)
          /\ LiveFollows(runner[v], notices[v], listener[v], session.sequence)
      BY <1>0, <1>t, <1>7 DEF EventsHold
    <3> QED
      BY <1>t, <2>0, <3>1, LiveSends
  <2>2. Len(o.channel) <= EventBuffer
    <3>1. o.channel \in Seq(1..MaxEvents) /\ listener[v].channel \in Seq(1..MaxEvents)
      BY <1>t, <1>7, <2>1 DEF ListenerType
    <3>2. Len(o.channel) \in Nat /\ Len(listener[v].channel) \in Nat /\ EventBuffer \in Nat
      BY <1>0, <3>1, LenProperties, AtTypes
    <3> HIDE DEF o
    <3> QED
      BY <1>t, <1>7, <2>1, <3>2
  <2> HIDE DEF o, m, h
  <2>3. /\ listener'[v] = o /\ listener' \in [EventSubscriptions -> ListenerType]
        /\ \A s \in EventSubscriptions : Len(listener'[s].channel) <= EventBuffer
        /\ \A s \in EventSubscriptions \ {v} : listener'[s] = listener[s]
    BY <1>t, <1>7, <2>0, <2>1, <2>2
  <2>4. request[v] = "done" /\ v \in started
    BY <1>0, <2>0 DEF StartsAfterResponse
  <2>5. CASE h > runner[v].last /\ notices' = [notices EXCEPT ![v] = m]
             /\ runner' = [runner EXCEPT ![v] = runner[v]] /\ UNCHANGED <<driver, canceled>>
    <3>1. runner'[v] = runner[v] /\ notices'[v] = m
      BY <1>t, <2>5
    <3>2. StartsAfterResponse(v)' /\ RecordHolds(v)' /\ RecordTracked(v)'
      BY <1>0, <2>0, <2>4, <2>5, <3>1
      DEF StartsAfterResponse, RecordHolds, RecordTracked, Unlistened, Responded, ContextDone
    <3>3. EventsHold(v)'
      BY <2>0, <2>1, <2>3, <2>4, <2>5, <3>1 DEF EventsHold, Unlistened
    <3> QED
      BY <1>t, <2>0, <2>1, <2>3, <2>5, <3>2, <3>3, GoroutineStep
  <2>6. CASE ~(h > runner[v].last) /\ UNCHANGED <<driver, canceled, notices, runner>>
    <3>1. /\ runner' = [runner EXCEPT ![v] = runner[v]]
          /\ notices' = [notices EXCEPT ![v] = notices[v]]
      BY <1>t, <2>6
    <3>2. StartsAfterResponse(v)' /\ RecordHolds(v)' /\ RecordTracked(v)'
      BY <1>0, <2>0, <2>6
      DEF StartsAfterResponse, RecordHolds, RecordTracked, Unlistened, Responded, ContextDone
    <3>3. EventsHold(v)'
      BY <1>0, <1>7, <2>0, <2>1, <2>3, <2>4, <2>6 DEF EventsHold, Unlistened
    <3> QED
      BY <1>t, <2>0, <2>3, <2>6, <3>1, <3>2, <3>3, GoroutineStep
  <2>7. CASE /\ runner' = [runner EXCEPT ![v].pc = "drain"] /\ notices' = notices
             /\ canceled' = canceled \cup {v}
             /\ driver' \in DriverType /\ driver'.closed = driver.closed
    <3> DEFINE x == [runner[v] EXCEPT !.pc = "drain"]
    <3>1. x \in RunnerType /\ x.replay = runner[v].replay /\ x.pc = "drain"
      BY <1>t DEF RunnerType
    <3>2. /\ runner' = [runner EXCEPT ![v] = x] /\ runner'[v] = x
          /\ notices' = [notices EXCEPT ![v] = notices[v]]
      BY <1>t, <2>7
    <3> HIDE DEF x
    <3>3. StartsAfterResponse(v)' /\ RecordHolds(v)' /\ RecordTracked(v)'
      BY <1>0, <2>0, <2>4, <2>7, <3>1, <3>2
      DEF StartsAfterResponse, RecordHolds, RecordTracked, Unlistened, Responded, ContextDone
    <3>4. EventsHold(v)'
      BY <1>0, <1>7, <2>0, <2>1, <2>3, <2>4, <2>7, <3>1, <3>2
      DEF EventsHold, Unlistened, ReplayFollows, LiveFollows
    <3> QED
      BY <1>t, <2>0, <2>3, <2>7, <3>1, <3>2, <3>3, <3>4, GoroutineStep
  <2> QED
    <3>1. CASE h > runner[v].last /\ Write(v, h, runner[v], "drain")
      BY <1>0, <2>5, <2>7, <3>1, Written DEF m
    <3> QED
      BY <2>0, <2>6, <3>1
<1> QED
  BY <1>1, <1>2, <1>3, <1>5, <1>6, <1>7 DEF RunnerNext


(* The invariant holds when the driver starts (driver/server.go:97-138).   *)
LEMMA InitHolds == Init => IInv
<1> SUFFICES ASSUME Init
             PROVE  IInv
  OBVIOUS
<1>0. /\ MaxEvents \in Nat /\ EventBuffer \in Nat /\ ReplayedEvents \in Nat /\ 0 \in 0..MaxEvents
      /\ EventSubscriptions \subseteq Subs
  BY SubscriptionsAssumption DEF Subs
<1>1. /\ <<>> \in Seq(Nat) /\ <<>> \in Seq(1..MaxEvents) /\ Len(<<>>) = 0 /\ EndOf(<<>>) = 0
      /\ Consecutive(<<>>)
  BY DEF EndOf, Consecutive
<1>2. TypeOK
  <2>1. session \in SessionType /\ driver \in DriverType
    BY <1>0 DEF Init, SessionType, DriverType
  <2>2. [state |-> "none", channel |-> <<>>] \in ListenerType
    BY <1>1 DEF ListenerType
  <2>3. [pc |-> "none", replay |-> <<>>, last |-> 0] \in RunnerType
    BY <1>0, <1>1 DEF RunnerType
  <2>4. \A s \in EventSubscriptions : Len(listener[s].channel) <= EventBuffer
    BY <1>0, <1>1 DEF Init
  <2>5. \A s \in Subs : Len(runner[s].replay) <= ReplayedEvents
    BY <1>0, <1>1 DEF Init
  <2> QED
    BY <1>1, <2>1, <2>2, <2>3, <2>4, <2>5 DEF Init, TypeOK, RequestType, UnsubscribeType
<1>3. \A s \in Subs : StartsAfterResponse(s) /\ RecordHolds(s) /\ RecordTracked(s)
  BY DEF Init, StartsAfterResponse, RecordHolds, RecordTracked, Unlistened
<1>4. \A s \in EventSubscriptions : EventsHold(s)
  <2> SUFFICES ASSUME NEW s \in EventSubscriptions
               PROVE  EventsHold(s)
    OBVIOUS
  <2>1. /\ listener[s] = [state |-> "none", channel |-> <<>>] /\ session.sequence = 0
        /\ runner[s] = [pc |-> "none", replay |-> <<>>, last |-> 0] /\ notices[s] = <<>>
    BY <1>0 DEF Init
  <2> QED
    BY <1>1, <2>1 DEF EventsHold, ChannelHolds, ReplayFollows, LiveFollows, Whole
<1> QED
  BY <1>2, <1>3, <1>4 DEF IInv

(* Every step keeps the invariant.                                         *)
LEMMA StepHolds == IInv /\ [Next]_vars => IInv'
<1> SUFFICES ASSUME IInv, [Next]_vars
             PROVE  IInv'
  OBVIOUS
<1>1. CASE UNCHANGED vars
  BY <1>1 DEF vars, IInv, TypeOK, StartsAfterResponse, RecordHolds, RecordTracked, EventsHold,
              Unlistened, Responded, ContextDone
<1>2. CASE Publish \/ EndSession \/ \E s \in EventSubscriptions : Unlisten(s)
  BY <1>2, SessionStep
<1>3. CASE CloseSession \/ CloseDriver
           \/ \E s \in Subs : Unsubscribe(s) \/ UnsubscribeCancel(s)
  BY <1>3, CloseStep
<1>4. CASE \E s \in Subs : Subscribe(s) \/ RequestNext(s)
  BY <1>4, RequestStep
<1>5. CASE \E s \in Subs : RunnerNext(s)
  BY <1>5, RunnerStep
<1> QED
  BY <1>1, <1>2, <1>3, <1>4, <1>5 DEF Next

LEMMA Invariant == Spec => []IInv
BY InitHolds, StepHolds, PTL DEF Spec

-----------------------------------------------------------------------------
(* A stretch holds every event from its first to its last, and no other.   *)
LEMMA StretchCovers ==
  ASSUME NEW q \in Seq(Nat), Consecutive(q)
  PROVE  /\ q # <<>> => \A k \in Nat : q[1] <= k /\ k <= EndOf(q) => k \in ToSet(q)
         /\ q # <<>> => q[1] \in ToSet(q)
         /\ \A m \in ToSet(q) : q # <<>> /\ m \in Nat /\ q[1] <= m
<1>1. /\ ToSet(q) = {q[i] : i \in 1..Len(q)} /\ Len(q) \in Nat
      /\ q # <<>> => q[1] \in Nat /\ Len(q) > 0 /\ EndOf(q) = q[1] + Len(q) - 1
      /\ q = <<>> => Len(q) = 0
  BY LenProperties, EndTyped, EmptySeq DEF ToSet
<1>2. ASSUME q # <<>>, NEW k \in Nat, q[1] <= k, k <= EndOf(q)
      PROVE  k \in ToSet(q)
  <2>1. k - q[1] + 1 \in 1..Len(q)
    BY <1>1, <1>2
  <2>2. q[k - q[1] + 1] = k
    <3>1. PICK i : i \in Int /\ i = k - q[1] + 1 /\ q[i] = q[1] + i - 1
      BY <1>1, <1>2, <2>1, SMTT(40) DEF Consecutive
    <3>2. k \in Nat /\ q[1] \in Nat
      BY <1>1, <1>2
    <3> QED
      BY ONLY <3>1, <3>2
  <2> QED
    BY <1>1, <2>1, <2>2
<1>3. \A m \in ToSet(q) : q # <<>> /\ m \in Nat /\ q[1] <= m
  <2> SUFFICES ASSUME NEW i \in 1..Len(q)
               PROVE  q # <<>> /\ q[i] \in Nat /\ q[1] <= q[i]
    BY <1>1
  <2>1. q # <<>> /\ q[i] = q[1] + i - 1
    BY <1>1 DEF Consecutive
  <2> QED
    BY <1>1, <2>1
<1> QED
  BY <1>1, <1>2, <1>3

(* An event from the first on is sent, in the replay or in the channel     *)
(* (driver/server.go:812-818).                                             *)
LEMMA EveryEventKnown ==
  ASSUME MaxEvents \in Nat, NEW top \in Nat,
         NEW l \in ListenerType, NEW r \in RunnerType, NEW n \in Seq(Nat),
         l.state = "open", r.pc \in {"wait", "replay", "live"},
         ChannelHolds(l, top), ReplayFollows(r, n, top), LiveFollows(r, n, l, top),
         NEW k \in 1..top
  PROVE  LET known == ToSet(n) \cup ToSet(r.replay) \cup ToSet(l.channel)
         IN  k \in known \/ (known # {} /\ \A m \in known : k < m)
<1> DEFINE c == l.channel
           q == r.replay
           known == ToSet(n) \cup ToSet(q) \cup ToSet(c)
<1>1. c \in Seq(Nat) /\ q \in Seq(Nat) /\ Consecutive(c) /\ Consecutive(q) /\ Consecutive(n)
  BY Numbers DEF ListenerType, RunnerType, ChannelHolds, ReplayFollows
<1>2. /\ EndOf(n) \in Nat /\ EndOf(q) \in Nat
      /\ n # <<>> => n[1] \in Nat
      /\ q # <<>> => q[1] \in Nat
      /\ c # <<>> => c[1] \in Nat
      /\ n = <<>> => EndOf(n) = 0
  BY <1>1, EndTyped
<1>3. /\ c # <<>> => EndOf(c) = top /\ c[1] <= ReplayedTo(r, n) + 1
      /\ c = <<>> => top <= ReplayedTo(r, n)
      /\ q # <<>> /\ n # <<>> => q[1] = EndOf(n) + 1
      /\ ReplayedTo(r, n) = IF q = <<>> THEN EndOf(n) ELSE EndOf(q)
  BY DEF ChannelHolds, ReplayFollows, LiveFollows, ReplayedTo
<1> SUFFICES ASSUME k \notin known
             PROVE  known # {} /\ \A m \in known : k < m
  OBVIOUS
<1>4. /\ n # <<>> => k < n[1] \/ EndOf(n) < k
      /\ q # <<>> => k < q[1] \/ EndOf(q) < k
      /\ c # <<>> => k < c[1]
  <2>0. k \in Nat /\ k <= top /\ k \notin ToSet(n) /\ k \notin ToSet(q) /\ k \notin ToSet(c)
    OBVIOUS
  <2> HIDE DEF known
  <2>a. n # <<>> => ~(n[1] <= k /\ k <= EndOf(n))
    BY <1>1, <2>0, StretchCovers
  <2>b. q # <<>> => ~(q[1] <= k /\ k <= EndOf(q))
    BY <1>1, <2>0, StretchCovers
  <2>c. c # <<>> => ~(c[1] <= k /\ k <= EndOf(c))
    BY <1>1, <2>0, StretchCovers
  <2> HIDE DEF c, q
  <2> QED
    BY <1>2, <1>3, <2>0, <2>a, <2>b, <2>c
<1> HIDE DEF c, q
<1>5. /\ q # <<>> => k < q[1]
      /\ n # <<>> => k < n[1]
      /\ q # <<>> \/ n # <<>>
  <2>1. k <= ReplayedTo(r, n)
    BY <1>2, <1>3, <1>4
  <2> QED
    BY <1>2, <1>3, <1>4, <2>1
<1>6. known # {}
  BY <1>1, <1>5, StretchCovers
<1>7. ASSUME NEW m \in known
      PROVE  k < m
  <2>1. CASE m \in ToSet(n)
    <3>1. n # <<>> /\ m \in Nat /\ n[1] <= m
      BY <1>1, <2>1, StretchCovers
    <3> QED
      BY <1>2, <1>5, <3>1
  <2>2. CASE m \in ToSet(q)
    <3>1. q # <<>> /\ m \in Nat /\ q[1] <= m
      BY <1>1, <2>2, StretchCovers
    <3> QED
      BY <1>2, <1>5, <3>1
  <2>3. CASE m \in ToSet(c)
    <3>1. c # <<>> /\ m \in Nat /\ c[1] <= m
      BY <1>1, <2>3, StretchCovers
    <3> QED
      BY <1>2, <1>4, <3>1
  <2> QED
    BY <2>1, <2>2, <2>3
<1> QED
  BY <1>6, <1>7

-----------------------------------------------------------------------------
(* Every variable keeps its type; a replay and a channel keep their bounds *)
(* (driver/server.go:22-24, 812-818, session.go:335).                      *)
THEOREM SubscriptionsTypes == Spec => []TypeOK
<1>1. IInv => TypeOK
  BY DEF IInv
<1> QED
  BY <1>1, Invariant, PTL

(* A client gets its response first and then consecutive events, from      *)
(* event 1 or from a whole replay on (driver/server.go:258-266, 812-858).  *)
THEOREM InOrder == Spec => []DeliveredInOrder
<1>1. IInv => DeliveredInOrder
  <2> SUFFICES ASSUME IInv
               PROVE  ResponseFirst /\ NoGapNoDuplicate
    BY DEF DeliveredInOrder
  <2>1. ResponseFirst
    BY DEF IInv, StartsAfterResponse, Responded, ResponseFirst
  <2>2. NoGapNoDuplicate
    BY DEF IInv, EventsHold, ReplayFollows, Consecutive, Whole, NoGapNoDuplicate
  <2> QED
    BY <2>1, <2>2
<1> QED
  BY <1>1, Invariant, PTL

(* No event and no goroutine is lost between the steps that hand it on     *)
(* (driver/server.go:758-789, 804-863, 877-895).                           *)
THEOREM NothingIsLost == Spec => []NothingLostOrLeft
<1>1. IInv => NothingLostOrLeft
  <2> SUFFICES ASSUME IInv
               PROVE  NothingLost /\ RecordsTracked
    BY DEF NothingLostOrLeft
  <2>1. RecordsTracked
    BY DEF IInv, RecordTracked, RecordsTracked
  <2>2. NothingLost
    <3> SUFFICES ASSUME NEW s \in EventSubscriptions, listener[s].state = "open",
                        runner[s].pc \in {"wait", "replay", "live"}, NEW k \in 1..session.sequence
                 PROVE  LET known == ToSet(notices[s]) \cup ToSet(runner[s].replay)
                                     \cup ToSet(listener[s].channel)
                        IN  k \in known \/ (known # {} /\ \A m \in known : k < m)
      BY DEF NothingLost
    <3>1. /\ listener[s] \in ListenerType /\ runner[s] \in RunnerType /\ notices[s] \in Seq(Nat)
          /\ session.sequence \in Nat /\ MaxEvents \in Nat
      BY AtTypes DEF IInv
    <3>2. /\ ChannelHolds(listener[s], session.sequence)
          /\ ReplayFollows(runner[s], notices[s], session.sequence)
          /\ LiveFollows(runner[s], notices[s], listener[s], session.sequence)
      BY DEF IInv, EventsHold
    <3> QED
      BY <3>1, <3>2, EveryEventKnown
  <2> QED
    BY <2>1, <2>2
<1> QED
  BY <1>1, Invariant, PTL
=============================================================================
