------------------------------ MODULE Session -------------------------------
(***************************************************************************)
(* One terminal session (session.go): the goroutine that reads host output *)
(* into the terminal, and the callers that wait for screens, observe       *)
(* screens and events, send input, resize and close, all at the same time. *)
(*                                                                         *)
(* A screen is its revision.  A `changed` channel is its number: channel c *)
(* is closed once a later one replaced it or the session is done.  Every   *)
(* caller makes one call; ctxDone is the cancellation of its context.  A   *)
(* mutex is not a variable: it is held while its owner is between Lock and *)
(* Unlock, which the owner's pc tells.  The stream is external: Read and   *)
(* Write may take any time while it is open, and may fail at any moment.   *)
(***************************************************************************)
EXTENDS FlightRecorder, FiniteSets

CONSTANTS
  Waiters,      \* callers of WaitFor
  Stables,      \* callers of WaitForStable and WaitForIdle
  Observers,    \* callers of Screens
  Subscribers,  \* callers of Events
  Senders,      \* callers of Send and Press
  Resizers,     \* callers of Resize
  Closers,      \* callers of Close
  Reader,       \* the read loop, as a caller of Send
  Chunks,       \* what a Read may deliver: [bytes, visible, events]
  NoChunk,      \* a Read that delivers no bytes
  Sizes,        \* dimensions a caller may ask for
  BadSizes,     \* those of them a terminal rejects
  InitSize,     \* dimensions of the new terminal
  Matchers,     \* a matcher is the set of revisions whose screen it accepts
  MaxOutput,    \* bound on the reads that deliver bytes
  SendLength,   \* bytes of one Send
  EventBuffer,  \* capacity of an event channel (64 in the code)
  RetainedEvents,              \* 256 in the code
  TrackedUnsupportedSequences  \* 256 in the code

Waiting == Waiters \cup Stables
Cancellable == Waiting \cup Observers \cup Subscribers
Event == [type : {"bell", "enquiry", "unsupported"}, data : STRING]
Chunk == [bytes : Nat \ {0}, visible : BOOLEAN, events : Seq(Event)]

ASSUME SessionAssumption ==
  /\ Waiters \cap Stables = {} /\ Reader \notin Senders
  /\ Chunks \subseteq Chunk /\ NoChunk \notin Chunks
  /\ InitSize \notin BadSizes
  /\ MaxOutput \in Nat /\ TrackedUnsupportedSequences \in Nat
  /\ SendLength \in Nat \ {0} /\ EventBuffer \in Nat \ {0} /\ RetainedEvents \in Nat \ {0}

VARIABLES
  session,       \* closing, done, err, closeErr, changed, output, closeOnce
  events,        \* eventSequence, eventHistory, unsupported
  recorder,      \* the flight recorder
  terminal,      \* revision and dimensions
  stream,        \* is it open, the host's dimensions, the input the host got
  reader,        \* the read loop
  wait,          \* callers of WaitFor and WaitForStable
  observe,       \* callers of Screens, with their channels
  subscription,  \* callers of Events, with their channels
  send, resize, close,  \* callers of Send, Resize and Close
  ctxDone,       \* whose context is done
  history        \* operations applied to the terminal and operations
                 \* recorded, in order, and the screen at the end

machine == <<session, events, recorder, terminal, stream, reader, send, resize, close, history>>
callers == <<wait, observe, subscription, ctxDone>>
vars    == <<machine, callers>>

Init ==
  /\ session = [closing |-> FALSE, done |-> FALSE, err |-> "nil", closeErr |-> FALSE,
                changed |-> 0, output |-> 0, once |-> "new"]
  /\ events = [sequence |-> 0, history |-> <<>>, unsupported |-> <<>>]
  /\ recorder = NewFlightRecorder(InitSize)
  /\ terminal = [revision |-> 0, size |-> InitSize]
  /\ stream = [open |-> TRUE, size |-> InitSize, wire |-> <<>>]
  /\ reader = [pc |-> "read", chunk |-> NoChunk, readErr |-> "nil", terminalErr |-> "nil",
               pending |-> <<>>, sent |-> 0]
  /\ wait = [w \in Waiting |->
               [pc |-> "idle", matcher |-> {}, changed |-> 0, finished |-> FALSE, err |-> "nil",
                output |-> 0, quiet |-> FALSE, screen |-> 0, applied |-> 0, quietFrom |-> 0]]
  /\ observe = [o \in Observers |->
                  [pc |-> "idle", changed |-> 0, last |-> 0, then |-> "loop",
                   channel |-> <<>>, received |-> <<>>]]
  /\ subscription = [s \in Subscribers |-> [pc |-> "idle", channel |-> <<>>, received |-> 0]]
  /\ send = [s \in Senders |-> [pc |-> "idle", sent |-> 0]]
  /\ resize = [r \in Resizers |-> [pc |-> "idle", size |-> InitSize]]
  /\ close = [c \in Closers |-> "idle"]
  /\ ctxDone = [t \in Cancellable |-> FALSE]
  /\ history = [applied |-> <<>>, recorded |-> <<>>, finalRevision |-> 0]

-----------------------------------------------------------------------------
(* Channels, flags and locks.                                              *)

ChangedReplaced(c) == c < session.changed   \* mutant: done does not wake
ChangedClosed(c) == c < session.changed \/ session.done

(* The check of Send and Resize under stateMu. *)
Closed == session.closing \/ session.done

SendersMuFree == \A s \in Senders : send[s].pc # "writing"   \* mutant: answerback unlocked
SendMuFree == reader.pc # "answering" /\ \A s \in Senders : send[s].pc # "writing"
ResizeMuFree == \A r \in Resizers : resize[r].pc \in {"idle", "resized", "failed"}
RecorderUnlocked == TRUE   \* mutant: lock not held across apply
RecorderMuFree == reader.pc # "record"

(* signalChange: replace the current channel by a new one, unless done. *)
ChangedKept == session.changed              \* mutant: the channel is not replaced
ChangedAfterDone == session.changed + 1     \* mutant: done is not checked
NextChanged == IF session.done THEN session.changed ELSE session.changed + 1
SignalChange == session' = [session EXCEPT !.changed = NextChanged]

-----------------------------------------------------------------------------
(* Send.  Write may accept a part of the bytes; Send goes on until all are *)
(* written or Write fails or accepts none.                                 *)

(* The bytes of t's input from number `from` to number `to`. *)
InputBytes(t, from, to) == [i \in 1..(to - from + 1) |-> <<t, from + i - 1>>]

SendBegin(s) ==
  /\ send[s].pc = "idle" /\ SendMuFree
  /\ send' = [send EXCEPT ![s].pc = IF Closed THEN "failed" ELSE "writing"]
  /\ UNCHANGED <<session, events, recorder, terminal, stream, reader, resize, close, history,
                 callers>>

SendWrite(s) ==
  /\ send[s].pc = "writing"
  /\ \/ \E to \in (send[s].sent + 1)..SendLength :
          /\ stream.open
          /\ stream' = [stream EXCEPT !.wire = @ \o InputBytes(s, send[s].sent + 1, to)]
          /\ send' = [send EXCEPT ![s] = [pc   |-> IF to = SendLength THEN "sent" ELSE "writing",
                                          sent |-> to]]
     \/ send' = [send EXCEPT ![s].pc = "failed"] /\ UNCHANGED stream
  /\ UNCHANGED <<session, events, recorder, terminal, reader, resize, close, history, callers>>

-----------------------------------------------------------------------------
(* Resize.                                                                 *)

ResizeBegin(r) ==
  /\ resize[r].pc = "idle" /\ ResizeMuFree
  /\ \/ Closed /\ resize' = [resize EXCEPT ![r].pc = "failed"]
     \/ \E z \in Sizes :
          ~Closed /\ resize' = [resize EXCEPT ![r] = [pc |-> "stream", size |-> z]]
  /\ UNCHANGED <<session, events, recorder, terminal, stream, reader, send, close, history,
                 callers>>

(* stream.Resize: the host learns the dimensions, or the call fails. *)
ResizeStream(r) ==
  /\ resize[r].pc = "stream"
  /\ \/ /\ stream' = [stream EXCEPT !.size = resize[r].size]
        /\ resize' = [resize EXCEPT ![r].pc = "terminal"]
     \/ resize' = [resize EXCEPT ![r].pc = "failed"] /\ UNCHANGED stream
  /\ UNCHANGED <<session, events, recorder, terminal, reader, send, close, history, callers>>

Rejects(z) == z \in BadSizes

(* terminal.Resize: a new revision when the dimensions differ. *)
ResizeTerminal(r) ==
  LET z == resize[r].size IN
  /\ resize[r].pc = "terminal"
  /\ IF Rejects(z)
       THEN resize' = [resize EXCEPT ![r].pc = "failed"] /\ UNCHANGED <<terminal, history>>
       ELSE /\ terminal' = [revision |-> IF z = terminal.size THEN terminal.revision
                                                              ELSE terminal.revision + 1,
                            size     |-> z]
            /\ history' = [history EXCEPT !.applied = Append(@, ResizeRecord(z))]
            /\ resize' = [resize EXCEPT ![r].pc = "record"]
  /\ UNCHANGED <<session, events, recorder, stream, reader, send, close, callers>>

ResizeRecorder(r) ==
  LET z == resize[r].size IN
  /\ resize[r].pc = "record" /\ RecorderMuFree
  /\ recorder' = Resized(recorder, z)
  /\ history' = [history EXCEPT !.recorded = Append(@, ResizeRecord(z))]
  /\ resize' = [resize EXCEPT ![r].pc = "signal"]
  /\ UNCHANGED <<session, events, terminal, stream, reader, send, close, callers>>

ResizeSignal(r) ==
  /\ resize[r].pc = "signal"
  /\ SignalChange
  /\ resize' = [resize EXCEPT ![r].pc = "resized"]
  /\ UNCHANGED <<events, recorder, terminal, stream, reader, send, close, history, callers>>

-----------------------------------------------------------------------------
(* The read loop.                                                          *)

(* The end of one turn of the loop: a read error ends the session, and     *)
(* only end-of-file is not a failure.                                      *)
NextTurn(r, e) ==
  [r EXCEPT !.pc = IF e = "nil" THEN "read" ELSE "closeStream",
            !.terminalErr = IF e = "reading" THEN e ELSE @]

(* stream.Read returns bytes, an error, or both.  (Neither is a turn of    *)
(* the loop that changes nothing.)                                         *)
Read ==
  /\ reader.pc = "read"
  /\ \E c \in Chunks \cup {NoChunk}, e \in {"nil", "EOF", "reading"} :
       LET r == [reader EXCEPT !.chunk = c, !.readErr = e] IN
       \/ c = NoChunk /\ e # "nil" /\ reader' = NextTurn(r, e)
       \/ /\ c # NoChunk /\ session.output < MaxOutput
          /\ reader' = [r EXCEPT !.pc = "signalOutput"]
  /\ UNCHANGED <<session, events, recorder, terminal, stream, send, resize, close, history,
                 callers>>

SignalOutput ==
  /\ reader.pc = "signalOutput"
  /\ session' = [session EXCEPT !.changed = NextChanged,
                                !.output  = IF session.done THEN @ ELSE @ + 1]
  /\ reader' = [reader EXCEPT !.pc = "apply"]
  /\ UNCHANGED <<events, recorder, terminal, stream, send, resize, close, history, callers>>

(* recorder.output takes its lock and hands the bytes to the terminal.     *)
(* A write that changes the screen advances the revision by one.           *)
ApplyOutput ==
  LET revision == terminal.revision + (IF reader.chunk.visible THEN 1 ELSE 0) IN
  /\ reader.pc = "apply"
  /\ terminal' = [terminal EXCEPT !.revision = revision]
  /\ history' = [history EXCEPT !.applied = Append(@, OutputRecord(reader.chunk.bytes, revision))]
  /\ \E e \in {"nil", "applying"} : reader' = [reader EXCEPT !.pc = "record", !.terminalErr = e]
  /\ UNCHANGED <<session, events, recorder, stream, send, resize, close, callers>>

(* Still under the lock, it asks for the revision and appends the record. *)
RecordOutput ==
  LET bytes == reader.chunk.bytes IN
  /\ reader.pc = "record"
  /\ recorder' = Output(recorder, bytes, terminal.revision)
  /\ history' = [history EXCEPT !.recorded = Append(@, OutputRecord(bytes, terminal.revision))]
  /\ reader' = [reader EXCEPT !.pc = IF reader.terminalErr = "nil" THEN "signalChange"
                                                                   ELSE "closeStream"]
  /\ UNCHANGED <<session, events, terminal, stream, send, resize, close, callers>>

(* signalChange, then DrainEvents. *)
SignalApplied ==
  /\ reader.pc = "signalChange"
  /\ SignalChange
  /\ reader' = [reader EXCEPT !.pc = "drain", !.pending = reader.chunk.events]
  /\ UNCHANGED <<events, recorder, terminal, stream, send, resize, close, history, callers>>

Tracked(data) == \E i \in DOMAIN events.unsupported : events.unsupported[i].sequence = data

(* recordUnsupported: a tracked sequence is counted, a new one is tracked  *)
(* and published while there is room.                                      *)
RepeatToPublish(data) ==   \* mutant: repeats are published
  Len(events.unsupported) < TrackedUnsupportedSequences
ToPublish(data) ==
  ~Tracked(data) /\ Len(events.unsupported) < TrackedUnsupportedSequences

Counted(data) ==
  IF ToPublish(data)
    THEN Append(events.unsupported, [sequence |-> data, count |-> 1])
    ELSE [i \in DOMAIN events.unsupported |->
            LET u == events.unsupported[i]
            IN  IF u.sequence = data THEN [u EXCEPT !.count = @ + 1] ELSE u]

NeedsAnswer(event) == event.type = "enquiry" /\ event.data # ""

(* The next drained event: an enquiry with an answerback is answered       *)
(* first; an unsupported sequence is counted and perhaps not published.    *)
DrainEvent ==
  LET event == Head(reader.pending) IN
  /\ reader.pc = "drain"
  /\ \/ /\ reader.pending = <<>>
        /\ reader' = NextTurn(reader, reader.readErr) /\ UNCHANGED events
     \/ /\ reader.pending # <<>> /\ event.type # "unsupported"
        /\ reader' = [reader EXCEPT !.pc = IF NeedsAnswer(event) THEN "answer" ELSE "publish"]
        /\ UNCHANGED events
     \/ /\ reader.pending # <<>> /\ event.type = "unsupported"
        /\ reader' = IF ToPublish(event.data)
                       THEN [reader EXCEPT !.pc = "publish"]
                       ELSE [reader EXCEPT !.pending = Tail(@)]
        /\ events' = [events EXCEPT !.unsupported = Counted(event.data)]
  /\ UNCHANGED <<session, recorder, terminal, stream, send, resize, close, history, callers>>

(* Send of the answerback by the read loop. *)
AnswerFailed == [reader EXCEPT !.pc = "closeStream", !.terminalErr = "answering", !.sent = 0]

AnswerBegin ==
  /\ reader.pc = "answer" /\ SendMuFree
  /\ reader' = IF Closed THEN AnswerFailed ELSE [reader EXCEPT !.pc = "answering"]
  /\ UNCHANGED <<session, events, recorder, terminal, stream, send, resize, close, history,
                 callers>>

AnswerWrite ==
  /\ reader.pc = "answering"
  /\ \/ \E to \in (reader.sent + 1)..SendLength :
          /\ stream.open
          /\ stream' = [stream EXCEPT !.wire = @ \o InputBytes(Reader, reader.sent + 1, to)]
          /\ reader' = IF to = SendLength
                         THEN [reader EXCEPT !.pc = "publish", !.sent = 0]
                         ELSE [reader EXCEPT !.sent = to]
     \/ reader' = AnswerFailed /\ UNCHANGED stream
  /\ UNCHANGED <<session, events, recorder, terminal, send, resize, close, history, callers>>

(* A bounded history makes room for one more event. *)
Retained(h) == IF Len(h) = RetainedEvents THEN Tail(h) ELSE h

(* The non-blocking send to a subscriber: a full channel is closed. *)
OfferOrDrop(s, number) ==   \* mutant: a full channel misses the event
  IF s.pc = "open" /\ Len(s.channel) < EventBuffer
    THEN [s EXCEPT !.channel = Append(@, number)] ELSE s
Offer(s, number) ==
  IF s.pc # "open" THEN s
  ELSE IF Len(s.channel) < EventBuffer THEN [s EXCEPT !.channel = Append(@, number)]
                                       ELSE [s EXCEPT !.pc = "closed"]

(* publishEvent: number the event, retain it, and offer it to every        *)
(* subscriber.                                                             *)
PublishEvent ==
  LET number == events.sequence + 1
      event  == [sequence |-> number, event |-> Head(reader.pending)]
  IN
  /\ reader.pc = "publish"
  /\ events' = [events EXCEPT !.sequence = number, !.history = Append(Retained(@), event)]
  /\ subscription' = [s \in Subscribers |-> Offer(subscription[s], number)]
  /\ reader' = [reader EXCEPT !.pc = "drain", !.pending = Tail(@)]
  /\ UNCHANGED <<session, recorder, terminal, stream, send, resize, close, history, wait,
                 observe, ctxDone>>

(* The read loop closes the stream itself; a failure counts only when      *)
(* nobody asked for the close and nothing failed before.                   *)
CloseEndedStream ==
  /\ reader.pc = "closeStream"
  /\ stream' = [stream EXCEPT !.open = FALSE]
  /\ \E e \in {reader.terminalErr, "closing"} :
       /\ e = "closing" => ~session.closing /\ reader.terminalErr = "nil"
       /\ reader' = [reader EXCEPT !.pc = "finish", !.terminalErr = e]
  /\ UNCHANGED <<session, events, recorder, terminal, send, resize, close, history, callers>>

(* finish: under stateMu, publish the error, close changed and done, and   *)
(* close every subscriber.                                                 *)
Finish ==
  /\ reader.pc = "finish"
  /\ session' = [session EXCEPT !.done = TRUE,
                                !.err = IF session.closing THEN "nil" ELSE reader.terminalErr]
  /\ subscription' = [s \in Subscribers |->
                        IF subscription[s].pc = "open"
                          THEN [subscription[s] EXCEPT !.pc = "closed"] ELSE subscription[s]]
  /\ history' = [history EXCEPT !.finalRevision = terminal.revision]
  /\ reader' = [reader EXCEPT !.pc = "stopped"]
  /\ UNCHANGED <<events, recorder, terminal, stream, send, resize, close, wait, observe, ctxDone>>

-----------------------------------------------------------------------------
(* Close.  The first caller runs the body of closeOnce; the others wait    *)
(* until it has run.                                                       *)

CloseBegin(c) ==
  /\ close[c] = "idle"
  /\ \/ /\ session.once = "new"
        /\ session' = [session EXCEPT !.once = "running", !.closing = TRUE]
        /\ close' = [close EXCEPT ![c] = "closeStream"]
     \/ session.once # "new" /\ close' = [close EXCEPT ![c] = "join"] /\ UNCHANGED session
  /\ UNCHANGED <<events, recorder, terminal, stream, reader, send, resize, history, callers>>

CloseStream(c) ==
  /\ close[c] = "closeStream"
  /\ stream' = [stream EXCEPT !.open = FALSE]
  /\ \E failed \in BOOLEAN : session' = [session EXCEPT !.closeErr = failed]
  /\ close' = [close EXCEPT ![c] = "await"]
  /\ UNCHANGED <<events, recorder, terminal, reader, send, resize, history, callers>>

CloseReturnUnjoined(c) ==   \* mutant: the second caller does not wait
  /\ \/ close[c] = "await" /\ session.done /\ session' = [session EXCEPT !.once = "done"]
     \/ close[c] = "join" /\ UNCHANGED session
  /\ close' = [close EXCEPT ![c] = "returned"]
  /\ UNCHANGED <<events, recorder, terminal, stream, reader, send, resize, history, callers>>

CloseReturn(c) ==
  /\ \/ close[c] = "await" /\ session.done /\ session' = [session EXCEPT !.once = "done"]
     \/ close[c] = "join" /\ session.once = "done" /\ UNCHANGED session
  /\ close' = [close EXCEPT ![c] = "returned"]
  /\ UNCHANGED <<events, recorder, terminal, stream, reader, send, resize, history, callers>>

-----------------------------------------------------------------------------
(* WaitFor and WaitForStable.  WaitForIdle is WaitForStable with a matcher *)
(* that accepts every screen.                                              *)

WaitFrame == UNCHANGED <<machine, observe, subscription, ctxDone>>

WaitBegin(w) ==
  /\ wait[w].pc = "idle"
  /\ \E m \in Matchers : wait' = [wait EXCEPT ![w].pc = "loop", ![w].matcher = m]
  /\ WaitFrame

(* The head of the loop: read the session's state under stateMu. *)
WaitCapture(w) ==
  /\ wait[w].pc = "loop"
  /\ wait' = [wait EXCEPT ![w].pc = "snapshot", ![w].changed = session.changed,
                          ![w].finished = session.done, ![w].err = session.err,
                          ![w].output = session.output]
  /\ WaitFrame

(* A caller that takes a snapshot and goes on at pc. *)
StaleSnapshot(caller, pc) == [caller EXCEPT !.pc = pc]   \* mutant: an older snapshot is used
Snapshot(caller, pc) ==
  [caller EXCEPT !.pc = pc, !.screen = terminal.revision, !.applied = Len(history.applied)]

Matches(w) == terminal.revision \in wait[w].matcher

(* WaitFor: a matching screen wins over the end of the session. *)
WaitSnapshot(w) ==
  /\ w \in Waiters /\ wait[w].pc = "snapshot"
  /\ wait' = [wait EXCEPT ![w] = Snapshot(@, IF Matches(w) THEN "matched"
                                             ELSE IF @.finished THEN "ended" ELSE "select")]
  /\ WaitFrame

(* WaitForStable: the end of the session wins; a match starts the timer. *)
StableSnapshot(w) ==
  /\ w \in Stables /\ wait[w].pc = "snapshot"
  /\ wait' = [wait EXCEPT ![w] = [Snapshot(@, IF @.finished THEN "ended"
                                              ELSE IF Matches(w) THEN "quiet" ELSE "select")
                                    EXCEPT !.quietFrom = session.output]]
  /\ WaitFrame

(* The select statements: changed or done, ctx.Done, or the timer. *)
WaitSelect(w) ==
  /\ wait[w].pc \in {"select", "quiet"}
  /\ \/ ChangedClosed(wait[w].changed) /\ wait' = [wait EXCEPT ![w].pc = "loop"]
     \/ ctxDone[w] /\ wait' = [wait EXCEPT ![w].pc = "canceled"]
     \/ wait[w].pc = "quiet" /\ wait' = [wait EXCEPT ![w].pc = "check"]
  /\ WaitFrame

IgnoreOutput(w) == TRUE   \* mutant: the output counter is not compared
SameOutput(w) == session.output = wait[w].output

(* After the timer: read the state again under stateMu ... *)
StableCheck(w) ==
  /\ wait[w].pc = "check"
  /\ wait' = [wait EXCEPT ![w].pc = "recheck", ![w].quiet = SameOutput(w),
                          ![w].finished = session.done, ![w].err = session.err]
  /\ WaitFrame

(* ... and match a new snapshot. *)
StableRecheck(w) ==
  /\ wait[w].pc = "recheck"
  /\ wait' = [wait EXCEPT ![w] =
                Snapshot(@, IF ~@.finished /\ @.quiet /\ Matches(w) THEN "matched"
                            ELSE IF @.finished THEN "ended" ELSE "loop")]
  /\ WaitFrame

(* newWaitError: an unsuccessful wait takes a recording, which needs the   *)
(* recorder's lock, and returns.                                           *)
WaitFails(w) ==
  /\ wait[w].pc \in {"ended", "canceled"} /\ RecorderMuFree
  /\ wait' = [wait EXCEPT ![w].pc = "failed"]
  /\ WaitFrame

-----------------------------------------------------------------------------
(* Screens: a channel of capacity one whose unread snapshot is replaced.   *)

ObserveFrame == UNCHANGED <<machine, wait, subscription, ctxDone>>

ObserveBegin(o) ==
  /\ observe[o].pc = "idle"
  /\ observe' = [observe EXCEPT ![o].pc = "publish", ![o].last = terminal.revision]
  /\ ObserveFrame

(* The sends of publishScreen: into an empty channel, unless a canceled    *)
(* context wins the select.                                                *)
SendScreen(o) ==
  \/ ctxDone[o] /\ observe' = [observe EXCEPT ![o].pc = "closed"]
  \/ /\ observe[o].channel = <<>>
     /\ observe' = [observe EXCEPT ![o].channel = <<observe[o].last>>, ![o].pc = observe[o].then]

(* publishScreen: if the channel is full, drop the unread one and send.    *)
PublishScreen(o) ==
  /\ observe[o].pc = "publish"
  /\ \/ SendScreen(o)
     \/ /\ observe[o].channel # <<>> /\ ~ctxDone[o]
        /\ observe' = [observe EXCEPT ![o].pc = "drop"]
  /\ ObserveFrame

DropScreen(o) ==
  /\ observe[o].pc = "drop"
  /\ observe' = [observe EXCEPT ![o].pc = "resend", ![o].channel = <<>>]
  /\ ObserveFrame

ResendScreen(o) == observe[o].pc = "resend" /\ SendScreen(o) /\ ObserveFrame

ObserveCapture(o) ==
  /\ observe[o].pc = "loop"
  /\ observe' = [observe EXCEPT ![o].pc = "select", ![o].changed = session.changed]
  /\ ObserveFrame

(* The select: ctx.Done or changed ... *)
ObserveSelect(o) ==
  /\ observe[o].pc = "select"
  /\ \/ ctxDone[o] /\ observe' = [observe EXCEPT ![o].pc = "closed"]
     \/ ChangedClosed(observe[o].changed) /\ observe' = [observe EXCEPT ![o].pc = "snapshot"]
  /\ ObserveFrame

CloseAtOnce(o) ==   \* mutant: no last screen
  /\ observe[o].pc = "select" /\ session.done
  /\ observe' = [observe EXCEPT ![o].pc = "closed"]
  /\ ObserveFrame

LoopAfterDone(o) ==   \* mutant: no return after the last screen
  /\ observe[o].pc = "select" /\ session.done
  /\ observe' = [observe EXCEPT ![o].pc = "snapshot"]
  /\ ObserveFrame

(* ... or done, after which the channel is closed. *)
ObserveDone(o) ==
  /\ observe[o].pc = "select" /\ session.done
  /\ observe' = [observe EXCEPT ![o].pc = "snapshot", ![o].then = "closed"]
  /\ ObserveFrame

NewScreen(o) == terminal.revision # observe[o].last

ObserveSnapshot(o) ==
  /\ observe[o].pc = "snapshot"
  /\ observe' = [observe EXCEPT ![o].last = terminal.revision,
                   ![o].pc = IF NewScreen(o) THEN "publish" ELSE observe[o].then]
  /\ ObserveFrame

(* The observer reads its channel. *)
ReceiveScreen(o) ==
  /\ observe[o].channel # <<>>
  /\ observe' = [observe EXCEPT ![o].received = @ \o observe[o].channel, ![o].channel = <<>>]
  /\ ObserveFrame

-----------------------------------------------------------------------------
(* Events: registration, the goroutine that ends it, and the consumer.     *)

Subscribe(s) ==
  /\ subscription[s].pc = "idle"
  /\ subscription' = [subscription EXCEPT ![s].pc = IF session.done THEN "closed" ELSE "open",
                                          ![s].received = events.sequence]
  /\ UNCHANGED <<machine, wait, observe, ctxDone>>

Unsubscribe(s) ==
  /\ subscription[s].pc = "open" /\ ctxDone[s]
  /\ subscription' = [subscription EXCEPT ![s].pc = "closed"]
  /\ UNCHANGED <<machine, wait, observe, ctxDone>>

ReceiveEvent(s) ==
  /\ subscription[s].channel # <<>>
  /\ subscription' = [subscription EXCEPT ![s].received = Head(subscription[s].channel),
                                          ![s].channel = Tail(@)]
  /\ UNCHANGED <<machine, wait, observe, ctxDone>>

(* A caller's context is canceled or reaches its deadline. *)
Cancel(t) ==
  /\ ~ctxDone[t]
  /\ ctxDone' = [ctxDone EXCEPT ![t] = TRUE]
  /\ UNCHANGED <<machine, wait, observe, subscription>>

-----------------------------------------------------------------------------
ReaderNext == \/ Read \/ SignalOutput \/ ApplyOutput \/ RecordOutput \/ SignalApplied
              \/ DrainEvent \/ AnswerBegin \/ AnswerWrite \/ PublishEvent
              \/ CloseEndedStream \/ Finish

WaitNext(w) == \/ WaitCapture(w) \/ WaitSnapshot(w) \/ StableSnapshot(w) \/ WaitSelect(w)
               \/ StableCheck(w) \/ StableRecheck(w) \/ WaitFails(w)

ObserveNext(o) == \/ PublishScreen(o) \/ DropScreen(o) \/ ResendScreen(o)
                  \/ ObserveCapture(o) \/ ObserveSelect(o) \/ ObserveDone(o)
                  \/ ObserveSnapshot(o)

ResizeNext(r) == ResizeTerminal(r) \/ ResizeRecorder(r) \/ ResizeSignal(r)

Next ==
  \/ ReaderNext
  \/ \E s \in Senders : SendBegin(s) \/ SendWrite(s)
  \/ \E r \in Resizers : ResizeBegin(r) \/ ResizeStream(r) \/ ResizeNext(r)
  \/ \E c \in Closers : CloseBegin(c) \/ CloseStream(c) \/ CloseReturn(c)
  \/ \E w \in Waiting : WaitBegin(w) \/ WaitNext(w)
  \/ \E o \in Observers : ObserveBegin(o) \/ ObserveNext(o) \/ ReceiveScreen(o)
  \/ \E s \in Subscribers : Subscribe(s) \/ Unsubscribe(s) \/ ReceiveEvent(s)
  \/ \E t \in Cancellable : Cancel(t)

Spec == Init /\ [][Next]_vars

(* Fairness.  The scheduler runs every goroutine that can run, timers fire *)
(* and observers read their channels.  Nothing is assumed of the host: an  *)
(* open stream may block Read, Write and Resize for ever.  Nobody has to   *)
(* call anything or to cancel.  After the session is done both cases of    *)
(* ObserveSelect and ObserveDone stay ready; Go picks among ready cases at *)
(* random, so done is picked in the end.                                   *)
GoroutinesRun ==
  /\ WF_vars(\/ SignalOutput \/ ApplyOutput \/ RecordOutput \/ SignalApplied \/ DrainEvent
             \/ AnswerBegin \/ PublishEvent \/ CloseEndedStream \/ Finish)
  /\ \A w \in Waiting : WF_vars(WaitNext(w))
  /\ \A o \in Observers : /\ WF_vars(ObserveNext(o)) /\ SF_vars(ObserveDone(o))
                          /\ WF_vars(ReceiveScreen(o))
  /\ \A r \in Resizers : WF_vars(ResizeNext(r))
  /\ \A c \in Closers : WF_vars(CloseStream(c) \/ CloseReturn(c))

(* What the comment on SessionStream asks of a transport: "Close must      *)
(* unblock any pending Read".                                              *)
CloseUnblocksRead == WF_vars(~stream.open /\ Read)

(* What the contract does not ask for, and net.Conn and net.Pipe do. *)
CloseUnblocksWrite ==
  /\ WF_vars(~stream.open /\ AnswerWrite)
  /\ \A s \in Senders : WF_vars(~stream.open /\ SendWrite(s))

ContractSpec == Spec /\ GoroutinesRun /\ CloseUnblocksRead

FairSpec == ContractSpec /\ CloseUnblocksWrite
=============================================================================
