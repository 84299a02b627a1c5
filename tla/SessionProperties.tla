------------------------ MODULE SessionProperties ---------------------------
(***************************************************************************)
(* What a session promises, stated over the specification in Session.      *)
(***************************************************************************)
EXTENDS Session

Returned(w) == wait[w].pc \in {"matched", "failed"}

(* The types of the variables. *)
Errors == {"nil", "reading", "applying", "answering", "closing"}
Record ==
  [type : {"output"}, bytes : Nat, revision : Nat] \cup [type : {"resize"}, size : Sizes]
SessionType ==
  [closing : BOOLEAN, done : BOOLEAN, err : Errors, closeErr : BOOLEAN, changed : Nat,
   output : 0..MaxOutput, once : {"new", "running", "done"}]
EventsType ==
  [sequence : Nat, history : Seq([sequence : Nat, event : Event]),
   unsupported : Seq([sequence : STRING, count : Nat])]
TerminalType == [revision : Nat, size : (Sizes \cup {InitSize}) \ BadSizes]
StreamType ==
  [open : BOOLEAN, size : Sizes \cup {InitSize},
   wire : Seq((Senders \cup {Reader}) \X (1..SendLength))]
ReaderType ==
  [pc          : {"read", "signalOutput", "apply", "record", "signalChange", "drain", "answer",
                  "answering", "publish", "closeStream", "finish", "stopped"},
   chunk       : Chunks \cup {NoChunk}, readErr : {"nil", "EOF", "reading"},
   terminalErr : Errors, pending : Seq(Event), sent : 0..(SendLength - 1)]
WaiterType ==
  [pc        : {"idle", "loop", "snapshot", "select", "quiet", "check", "recheck", "matched",
                "ended", "canceled", "failed"},
   matcher   : Matchers \cup {{}}, changed : Nat, finished : BOOLEAN, err : Errors,
   output    : Nat, quiet : BOOLEAN, screen : Nat, applied : Nat, quietFrom : Nat]
ObserverType ==
  [pc      : {"idle", "publish", "drop", "resend", "loop", "select", "snapshot", "closed"},
   changed : Nat, last : Nat, then : {"loop", "closed"},
   channel : Seq(Nat), received : Seq(Nat)]
SubscriberType == [pc : {"idle", "open", "closed"}, channel : Seq(Nat), received : Nat]
SenderType == [pc : {"idle", "writing", "sent", "failed"}, sent : 0..SendLength]
ResizerType ==
  [pc   : {"idle", "stream", "terminal", "record", "signal", "resized", "failed"},
   size : Sizes \cup {InitSize}]
CloserType == {"idle", "closeStream", "await", "join", "returned"}
HistoryType == [applied : Seq(Record), recorded : Seq(Record), finalRevision : Nat]

(* Every variable keeps its type (the structs of session.go:34-58 and of   *)
(* ansi/terminal.go): the terminal never has dimensions it rejects, and    *)
(* the host's output is counted once per read.  What the recorder holds is *)
(* RecorderKeepsNewest.                                                    *)
TypeOK ==
  /\ session \in SessionType
  /\ events \in EventsType
  /\ terminal \in TerminalType
  /\ stream \in StreamType
  /\ reader \in ReaderType
  /\ wait \in [Waiting -> WaiterType]
  /\ observe \in [Observers -> ObserverType]
  /\ subscription \in [Subscribers -> SubscriberType]
  /\ send \in [Senders -> SenderType]
  /\ resize \in [Resizers -> ResizerType]
  /\ close \in [Closers -> CloserType]
  /\ ctxDone \in [Cancellable -> BOOLEAN]
  /\ history \in HistoryType

-----------------------------------------------------------------------------
(* Waiting.                                                                *)

(* A change has been applied to the terminal and its signal, or the end of *)
(* the session, is still to come.                                          *)
SignalDue ==
  \/ reader.pc \in {"record", "signalChange", "closeStream", "finish"}
  \/ \E r \in Resizers : resize[r].pc \in {"record", "signal"}

(* WaitFor and WaitForStable (session.go:179-204, 217-255) never sleep     *)
(* over a screen they have not matched: while one sleeps on a channel that *)
(* is still open, either the terminal shows what it saw, or the goroutine  *)
(* that changed it has yet to signal.                                      *)
NoLostWakeup ==
  \A w \in Waiting :
    /\ wait[w].pc \in {"select", "quiet"}
    /\ ~ChangedClosed(wait[w].changed)
    /\ wait[w].screen # terminal.revision
    => SignalDue

(* A wait that reports the end of the session (session.go:191-196,         *)
(* 227-232, 266-271) has matched the last screen the host drew, and        *)
(* reports the session's final error.                                      *)
EndedSawFinalScreen ==
  \A w \in Waiting :
    wait[w].pc = "ended" => /\ session.done
                            /\ wait[w].err = session.err
                            /\ wait[w].screen >= history.finalRevision

(* WaitForStable (session.go:207-273) succeeds only if no host output      *)
(* arrived between the start of its timer and its second look at the       *)
(* output counter.                                                         *)
StableMeansQuiet ==
  [][\A w \in Stables : wait[w].pc = "check" /\ wait'[w].pc = "recheck" /\ wait'[w].quiet
       => session.output = wait[w].quietFrom]_vars

(* The end of the session, and the end of its context, end a wait          *)
(* (session.go:172-205).                                                   *)
WaitsEnd ==
  \A w \in Waiting : (session.done \/ ctxDone[w]) /\ wait[w].pc # "idle" ~> Returned(w)

(* A wait returns when the screen stays at one its matcher accepts         *)
(* (session.go:172-205, 207-273).                                          *)
MatchIsNoticed ==
  \A w \in Waiting : <>[](wait[w].pc # "idle" /\ Matches(w)) => <>Returned(w)

(* A wait returns whenever it should: at the end of the session, at the    *)
(* end of its context, and at a screen that matches and stays              *)
(* (session.go:172-273).                                                   *)
WaitsReturn == WaitsEnd /\ MatchIsNoticed

-----------------------------------------------------------------------------
(* The flight recorder.                                                    *)

(* Does not hold for resizes. "Holding the lock across apply means any     *)
(* screen a caller has observed is already recorded when it takes a        *)
(* recording" (flightrecorder.go:74-76): a failed wait's recording would   *)
(* hold every operation behind the last screen the wait observed, but a    *)
(* resize is applied under another lock than it is recorded under          *)
(* (session.go:156-168).                                                   *)
ObservedIsRecorded ==
  \A w \in Waiting :
    wait[w].pc \in {"ended", "canceled"} /\ RecorderMuFree
      => IsPrefix(SubSeq(history.applied, 1, wait[w].applied), history.recorded)

(* The host's output among the operations. *)
Outputs(operations) ==
  LET outputs[n \in 0..Len(operations)] ==
        IF n = 0 THEN <<>>
        ELSE IF operations[n].type = "output" THEN Append(outputs[n - 1], operations[n].bytes)
        ELSE outputs[n - 1]
  IN  outputs[Len(operations)]

(* Of the host's output that much holds although a resize is recorded      *)
(* after it was applied.  The terminal shows output before the recorder    *)
(* has it, but whoever takes a recording takes the recorder's lock, which  *)
(* is held from one to the other (session.go:156-164,                      *)
(* flightrecorder.go:74-99): when it can be taken, all the output in the   *)
(* terminal is recorded, so that a failed wait's recording lacks no output *)
(* behind a screen the wait observed.                                      *)
ObservedOutputIsRecorded ==
  RecorderMuFree =>
    /\ Outputs(history.recorded) = Outputs(history.applied)
    /\ \A w \in Waiting :
         wait[w].pc \in {"ended", "canceled"}
           => IsPrefix(Outputs(SubSeq(history.applied, 1, wait[w].applied)),
                       Outputs(history.recorded))

(* The recorder (flightrecorder.go:77-113) stays within its bounds, keeps  *)
(* the newest records, drops no more of them than it has to, accounts for  *)
(* every byte, and starts from the dimensions in effect before its first   *)
(* record.                                                                 *)
RecorderKeepsNewest ==
  LET dropped == Len(history.recorded) - Len(recorder.records)
      gone == SubSeq(history.recorded, 1, dropped)
  IN  /\ recorder.bytes <= FlightRecorderBytes
      /\ Len(recorder.records) <= FlightRecorderRecords
      /\ IsSuffix(recorder.records, history.recorded)
      /\ dropped > 0 =>
           \/ recorder.bytes + RecordBytes(history.recorded[dropped]) > FlightRecorderBytes
           \/ Len(recorder.records) + 1 > FlightRecorderRecords
      /\ recorder.bytes = TotalBytes(recorder.records)
      /\ recorder.bytes + recorder.droppedBytes = TotalBytes(history.recorded)
      /\ recorder.size = SizeAfter(InitSize, gone)

-----------------------------------------------------------------------------
(* Observing screens.                                                      *)

Shown(o) == observe[o].received \o observe[o].channel

(* An observer never gets the same screen twice nor an older one after a   *)
(* newer one (session.go:288-329, 601-620).                                *)
ScreensAdvance ==
  \A o \in Observers : \A i \in 2..Len(Shown(o)) : Shown(o)[i - 1] < Shown(o)[i]

(* The second send of publishScreen (session.go:614-619) never blocks on a *)
(* slow observer: only the sender fills the channel.                       *)
ResendHasRoom ==
  \A o \in Observers : observe[o].pc = "resend" => observe[o].channel = <<>>

(* An observer that is not canceled is given the last screen the host drew *)
(* before its channel is closed (session.go:311-316).                      *)
FinalScreenObserved ==
  \A o \in Observers :
    observe[o].pc = "closed" /\ ~ctxDone[o]
      => \E i \in DOMAIN Shown(o) : Shown(o)[i] >= history.finalRevision

(* Screens delivers what it promises (session.go:288-329, 601-620): newer  *)
(* and newer screens, without a sender that blocks on a slow observer, up  *)
(* to the last screen of the session.                                      *)
ScreensDelivered == ScreensAdvance /\ ResendHasRoom /\ FinalScreenObserved

(* The end of the session ends every observation (session.go:311-317). *)
ObserversEnd ==
  \A o \in Observers : session.done /\ observe[o].pc # "idle" ~> observe[o].pc = "closed"

(* An observer that keeps reading its channel gets the latest snapshot,    *)
(* whether or not the host goes on: Screens "sends the current snapshot    *)
(* first, then the latest snapshot after each visible screen revision"     *)
(* (session.go:288-291).                                                   *)
NewestScreenObserved ==
  \A o \in Observers :
    []<>(observe[o].pc # "idle" =>
           ctxDone[o] \/ terminal.revision \in Range(observe[o].received))

-----------------------------------------------------------------------------
(* Sending, and terminal events.                                           *)

(* Inputs of concurrent sends, the answerback included, do not interleave  *)
(* (session.go:89-114): a byte other than the first of an input follows    *)
(* the byte before it.                                                     *)
SendsNotInterleaved ==
  \A i \in 1..Len(stream.wire) :
    stream.wire[i][2] > 1
      => i > 1 /\ stream.wire[i - 1] = <<stream.wire[i][1], stream.wire[i][2] - 1>>

(* A subscriber's events have consecutive numbers from its subscription    *)
(* on, and an open subscriber is not missing any (session.go:334-362,      *)
(* 558-575).                                                               *)
EventsContiguous ==
  \A s \in Subscribers :
    LET sub == subscription[s] IN
    /\ \A i \in 1..Len(sub.channel) : sub.channel[i] = sub.received + i
    /\ sub.pc = "open" => sub.received + Len(sub.channel) = events.sequence

(* EventsAfter (session.go:364-380) shows the newest events, consecutive,  *)
(* as many as are retained.                                                *)
HistoryContiguous ==
  /\ Len(events.history) <= RetainedEvents
  /\ Len(events.history) < RetainedEvents => Len(events.history) = events.sequence
  /\ \A i \in 1..Len(events.history) :
       events.history[i].sequence = events.sequence - Len(events.history) + i

(* Events and EventsAfter deliver what they promise (session.go:334-380,   *)
(* 558-575): no event is missing, neither in a channel nor in the history. *)
EventsDelivered == EventsContiguous /\ HistoryContiguous

(* An enquiry is published only after its answerback has been sent in full *)
(* (session.go:436-449).                                                   *)
AnsweredBeforePublished ==
  LET answered == {i \in DOMAIN events.history : /\ events.history[i].event.type = "enquiry"
                                                 /\ events.history[i].event.data # ""}
      answers  == {i \in DOMAIN stream.wire : stream.wire[i] = <<Reader, SendLength>>}
  IN  Cardinality(answered) <= Cardinality(answers)

(* An unsupported sequence is published at most once, and only if it is    *)
(* tracked (session.go:442-448, 540-556).                                  *)
UnsupportedPublishedOnce ==
  LET published == {i \in DOMAIN events.history : events.history[i].event.type = "unsupported"}
      data(i)   == events.history[i].event.data
  IN  /\ Len(events.unsupported) <= TrackedUnsupportedSequences
      /\ \A i, j \in published : data(i) = data(j) => i = j
      /\ \A i \in published : Tracked(data(i))

(* What is published, is published when it may be and as often as it may   *)
(* be (session.go:418-473, 540-556).                                       *)
PublishedWhenDue == AnsweredBeforePublished /\ UnsupportedPublishedOnce

-----------------------------------------------------------------------------
(* Closing.                                                                *)

(* When Close has returned (session.go:394-414) the read loop has stopped  *)
(* and the stream is closed, for every caller of Close.                    *)
CloseStopsReader ==
  \A c \in Closers : close[c] = "returned" => reader.pc = "stopped" /\ ~stream.open

(* Once the session is done its outcome is settled (session.go:475-512):   *)
(* no host output, event, other error or new changed channel follows.      *)
OutcomeIsFinal ==
  [][session.done => /\ UNCHANGED events
                     /\ session'.done
                     /\ session'.err = session.err
                     /\ session'.changed = session.changed
                     /\ session'.output = session.output]_vars

(* Close returns to every caller (session.go:394-414). *)
CloseReturns == \A c \in Closers : close[c] # "idle" ~> close[c] = "returned"

(* Nobody is left waiting: the end of the session ends every observation   *)
(* and every Close (session.go:311-317, 394-414).                          *)
CallersReturn == ObserversEnd /\ CloseReturns
=============================================================================
