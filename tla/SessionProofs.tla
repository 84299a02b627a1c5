--------------------------- MODULE SessionProofs ----------------------------
(***************************************************************************)
(* Theorems about Session, for any number of callers, any reads and any    *)
(* bounds: the types, the traffic of a session, its waits and screens, and *)
(* its flight recorder.                                                    *)
(*                                                                         *)
(* TypeInv is inductive by itself.  The rest of the inductive invariant is *)
(* in parts, each inductive with TypeInv: Traffic (SendsHold relates the   *)
(* writer to the end of what the host has got, EventsHold the channels and *)
(* the history to the number of events, AnswersHold the enquiries in the   *)
(* history to the answerbacks of the host's input, UnsupportedHold the     *)
(* reports in it to what is tracked); Ended, WaitsHold and ScreensHold     *)
(* about the callers; RecorderHolds and OutputsHold about the recorder.    *)
(***************************************************************************)
EXTENDS SessionProperties, Loops, FiniteSetTheorems

(* Where the read loop is tells what it has in hand (session.go:416-473):  *)
(* the bytes of a read until they are applied, the event it is handling,   *)
(* and room in the bound on reads.                                         *)
ReaderHolds ==
  /\ reader.pc = "signalOutput" => session.output < MaxOutput
  /\ reader.pc \in {"signalOutput", "apply", "record", "signalChange"} => reader.chunk \in Chunks
  /\ reader.pc \in {"answer", "answering", "publish"} => reader.pending # <<>>

(* A resize past its first step has dimensions a caller asked for. *)
ResizeAsked ==
  \A r \in Resizers :
    resize[r].pc \in {"stream", "terminal", "record", "signal"} => resize[r].size \in Sizes

TypeInv == TypeOK /\ ReaderHolds /\ ResizeAsked

(* A new session (session.go:60-73) is typed.                              *)
LEMMA InitTyped == Init => TypeInv
  BY SessionAssumption
  DEF Init, TypeInv, TypeOK, ReaderHolds, ResizeAsked, SessionType, EventsType, TerminalType,
      StreamType, ReaderType, WaiterType, ObserverType, SubscriberType, SenderType,
      ResizerType, CloserType, HistoryType, Errors

(* The bytes a caller writes are its own, and numbered (session.go:102-114). *)
LEMMA InputTyped ==
  ASSUME NEW t \in Senders \cup {Reader}, NEW from \in 1..SendLength, NEW to \in from..SendLength,
         SendLength \in Nat
  PROVE  InputBytes(t, from, to) \in Seq((Senders \cup {Reader}) \X (1..SendLength))
<1> DEFINE S == (Senders \cup {Reader}) \X (1..SendLength)
<1>1. to - from + 1 \in Nat
  OBVIOUS
<1>2. \A i \in 1..(to - from + 1) : <<t, from + i - 1>> \in S
  OBVIOUS
<1>3. InputBytes(t, from, to) \in [1..(to - from + 1) -> S]
  BY <1>2 DEF InputBytes
<1> HIDE DEF S
<1>4. InputBytes(t, from, to) \in Seq(S)
  BY <1>1, <1>3
<1> QED
  BY <1>4 DEF S

(* Offering an event leaves a subscriber a subscriber (session.go:566-573). *)
LEMMA OfferTyped ==
  ASSUME NEW s \in SubscriberType, NEW n \in Nat
  PROVE  Offer(s, n) \in SubscriberType
<1>1. s.channel \in Seq(Nat) /\ Append(s.channel, n) \in Seq(Nat)
  BY DEF SubscriberType
<1>2. [s EXCEPT !.channel = Append(@, n)] \in SubscriberType
  BY <1>1 DEF SubscriberType
<1>3. [s EXCEPT !.pc = "closed"] \in SubscriberType
  BY DEF SubscriberType
<1> QED
  BY <1>2, <1>3 DEF Offer

(* The read loop (session.go:416-493) keeps the types.                     *)
LEMMA ReaderTyped == TypeInv /\ ReaderNext => TypeInv'
<1> SUFFICES ASSUME TypeInv, ReaderNext PROVE TypeInv'
  OBVIOUS
<1>t. TypeOK /\ ReaderHolds /\ ResizeAsked
  BY DEF TypeInv
<1>r. reader \in ReaderType /\ session \in SessionType
  BY <1>t DEF TypeOK
<1>h. history \in HistoryType
  BY <1>t DEF TypeOK
<1>1. CASE Read
  <2>1. reader' \in ReaderType
    <3>1. PICK c \in Chunks \cup {NoChunk}, e \in {"nil", "EOF", "reading"} :
            LET r == [reader EXCEPT !.chunk = c, !.readErr = e]
            IN  \/ c = NoChunk /\ e # "nil" /\ reader' = NextTurn(r, e)
                \/ c # NoChunk /\ reader' = [r EXCEPT !.pc = "signalOutput"]
      BY <1>1 DEF Read
    <3> DEFINE r == [reader EXCEPT !.chunk = c, !.readErr = e]
    <3>2. r \in ReaderType
      BY <1>r DEF ReaderType
    <3>3. [r EXCEPT !.pc = "signalOutput"] \in ReaderType /\ NextTurn(r, e) \in ReaderType
      <4> HIDE DEF r
      <4>1. [r EXCEPT !.pc = "signalOutput"] \in ReaderType
        BY <3>2 DEF ReaderType
      <4>2. \A p \in {"read", "closeStream"}, q \in Errors :
              [r EXCEPT !.pc = p, !.terminalErr = q] \in ReaderType
        BY <3>2 DEF ReaderType
      <4>3. /\ (IF e = "nil" THEN "read" ELSE "closeStream") \in {"read", "closeStream"}
            /\ (IF e = "reading" THEN e ELSE r.terminalErr) \in Errors
        BY <3>2 DEF ReaderType, Errors
      <4> QED
        BY <4>1, <4>2, <4>3 DEF NextTurn
    <3> QED
      BY <3>1, <3>3
  <2>2. ReaderHolds'
    BY <1>1, <1>r DEF Read, NextTurn, ReaderHolds, ReaderType
  <2> QED
    BY <1>1, <1>t, <2>1, <2>2 DEF Read, TypeInv, TypeOK, ResizeAsked, callers
<1>2. CASE SignalOutput
  <2>1. session.output < MaxOutput /\ MaxOutput \in Nat
    BY <1>2, <1>t, SessionAssumption DEF SignalOutput, ReaderHolds
  <2>2. (IF session.done THEN session.output ELSE session.output + 1) \in 0..MaxOutput
    BY <1>r, <2>1 DEF SessionType
  <2>3. NextChanged \in Nat
    BY <1>r DEF SessionType, NextChanged
  <2>4. session' \in SessionType
    BY <1>2, <1>r, <2>2, <2>3 DEF SignalOutput, SessionType
  <2>5. reader' \in ReaderType /\ reader'.pc = "apply" /\ reader'.chunk \in Chunks
    BY <1>2, <1>r, <1>t DEF SignalOutput, ReaderType, ReaderHolds
  <2> QED
    BY <1>2, <1>t, <2>4, <2>5 DEF SignalOutput, TypeInv, TypeOK, ReaderHolds, ResizeAsked, callers
<1>3. CASE ApplyOutput
  <2>1. reader.chunk \in Chunk /\ reader.chunk \in Chunks
    BY <1>3, <1>t, SessionAssumption DEF ApplyOutput, ReaderHolds
  <2>2. terminal' \in TerminalType
    BY <1>3, <1>t DEF ApplyOutput, TypeOK, TerminalType
  <2>3. OutputRecord(reader.chunk.bytes, terminal'.revision) \in Record
    BY <2>1, <2>2 DEF OutputRecord, Record, Chunk, TerminalType
  <2>4. terminal'.revision = terminal.revision + (IF reader.chunk.visible THEN 1 ELSE 0)
    BY <1>3, <1>t DEF ApplyOutput, TypeOK, TerminalType
  <2>5. history' = [history EXCEPT !.applied =
                      Append(@, OutputRecord(reader.chunk.bytes, terminal'.revision))]
    BY <1>3, <2>4 DEF ApplyOutput
  <2>6. history' \in HistoryType
    <3>1. Append(history.applied, OutputRecord(reader.chunk.bytes, terminal'.revision))
            \in Seq(Record)
      BY <1>h, <2>3 DEF HistoryType
    <3> QED
      BY <1>h, <2>5, <3>1 DEF HistoryType
  <2>7. reader' \in ReaderType /\ reader'.pc = "record" /\ reader'.chunk \in Chunks
    BY <1>3, <1>r, <2>1 DEF ApplyOutput, ReaderType, Errors
  <2> QED
    BY <1>3, <1>t, <2>2, <2>6, <2>7
    DEF ApplyOutput, TypeInv, TypeOK, ReaderHolds, ResizeAsked, callers
<1>4. CASE RecordOutput
  <2>1. reader.chunk \in Chunk /\ reader.chunk \in Chunks
    BY <1>4, <1>t, SessionAssumption DEF RecordOutput, ReaderHolds
  <2>2. OutputRecord(reader.chunk.bytes, terminal.revision) \in Record
    BY <1>t, <2>1 DEF TypeOK, OutputRecord, Record, Chunk, TerminalType
  <2>3. history' = [history EXCEPT !.recorded =
                      Append(@, OutputRecord(reader.chunk.bytes, terminal.revision))]
    BY <1>4 DEF RecordOutput
  <2>4. history' \in HistoryType
    <3>1. Append(history.recorded, OutputRecord(reader.chunk.bytes, terminal.revision))
            \in Seq(Record)
      BY <1>h, <2>2 DEF HistoryType
    <3> QED
      BY <1>h, <2>3, <3>1 DEF HistoryType
  <2>5. reader' \in ReaderType /\ reader'.chunk \in Chunks
        /\ reader'.pc \in {"signalChange", "closeStream"}
    BY <1>4, <1>r, <2>1 DEF RecordOutput, ReaderType
  <2> QED
    BY <1>4, <1>t, <2>4, <2>5
    DEF RecordOutput, TypeInv, TypeOK, ReaderHolds, ResizeAsked, callers
<1>5. CASE SignalApplied
  <2>1. reader.chunk.events \in Seq(Event)
    BY <1>5, <1>t, SessionAssumption DEF SignalApplied, ReaderHolds, Chunk
  <2>2. NextChanged \in Nat
    BY <1>r DEF SessionType, NextChanged
  <2>3. session' \in SessionType
    BY <1>5, <1>r, <2>2 DEF SignalApplied, SignalChange, SessionType
  <2>4. reader' \in ReaderType /\ reader'.pc = "drain"
    BY <1>5, <1>r, <2>1 DEF SignalApplied, ReaderType
  <2> QED
    BY <1>5, <1>t, <2>3, <2>4
    DEF SignalApplied, TypeInv, TypeOK, ReaderHolds, ResizeAsked, callers
<1>6. CASE DrainEvent
  <2>1. ASSUME reader.pending # <<>>
        PROVE  Head(reader.pending) \in Event /\ Tail(reader.pending) \in Seq(Event)
    BY <1>r, <2>1 DEF ReaderType
  <2>2. ASSUME Head(reader.pending) \in Event
        PROVE  Counted(Head(reader.pending).data) \in Seq([sequence : STRING, count : Nat])
    <3> DEFINE data == Head(reader.pending).data
               U    == [sequence : STRING, count : Nat]
    <3>1. data \in STRING /\ events.unsupported \in Seq(U)
      BY <1>t, <2>2 DEF TypeOK, EventsType, Event
    <3>2. [sequence |-> data, count |-> 1] \in U
      BY <3>1
    <3>3. \A u \in U : (IF u.sequence = data THEN [u EXCEPT !.count = @ + 1] ELSE u) \in U
      OBVIOUS
    <3>4. CASE ToPublish(data)
      BY <3>1, <3>2, <3>4 DEF Counted
    <3>5. CASE ~ToPublish(data)
      <4> HIDE DEF data, U
      <4>1. \A i \in DOMAIN events.unsupported : events.unsupported[i] \in U
        BY <3>1
      <4>2. /\ DOMAIN events.unsupported = 1..Len(events.unsupported)
            /\ Len(events.unsupported) \in Nat
        BY <3>1
      <4>3. Counted(data) =
              [i \in 1..Len(events.unsupported) |->
                 IF events.unsupported[i].sequence = data
                   THEN [events.unsupported[i] EXCEPT !.count = @ + 1]
                   ELSE events.unsupported[i]]
        BY <3>5, <4>2 DEF Counted
      <4>4. Counted(data) \in [1..Len(events.unsupported) -> U]
        BY <3>3, <4>1, <4>2, <4>3
      <4>5. Counted(data) \in Seq(U)
        BY <4>2, <4>4
      <4> QED
        BY <4>5 DEF data, U
    <3> QED
      BY <3>4, <3>5
  <2>3. events' \in EventsType
    <3>1. CASE UNCHANGED events
      BY <1>t, <3>1 DEF TypeOK
    <3>2. CASE /\ reader.pending # <<>>
               /\ events' = [events EXCEPT !.unsupported = Counted(Head(reader.pending).data)]
      BY <1>t, <2>1, <2>2, <3>2 DEF TypeOK, EventsType
    <3> QED
      BY <1>6, <3>1, <3>2 DEF DrainEvent
  <2>4. reader' \in ReaderType
    <3>1. NextTurn(reader, reader.readErr) \in ReaderType
      BY <1>r DEF NextTurn, ReaderType, Errors
    <3>2. \A pc \in {"answer", "publish"} : [reader EXCEPT !.pc = pc] \in ReaderType
      BY <1>r DEF ReaderType
    <3>3. reader.pending # <<>> => [reader EXCEPT !.pending = Tail(@)] \in ReaderType
      BY <1>r, <2>1 DEF ReaderType
    <3> QED
      BY <1>6, <3>1, <3>2, <3>3 DEF DrainEvent
  <2>5. ReaderHolds'
    BY <1>6, <1>r DEF DrainEvent, NextTurn, ReaderHolds, ReaderType
  <2> QED
    BY <1>6, <1>t, <2>3, <2>4, <2>5 DEF DrainEvent, TypeInv, TypeOK, ResizeAsked, callers
<1>f. AnswerFailed \in ReaderType /\ AnswerFailed.pc = "closeStream"
  <2>1. 0 \in 0..(SendLength - 1)
    BY SessionAssumption
  <2> QED
    BY <1>r, <2>1 DEF AnswerFailed, ReaderType, Errors
<1>7. CASE AnswerBegin
  <2>1. reader' \in ReaderType
    BY <1>7, <1>r, <1>f DEF AnswerBegin, ReaderType
  <2>2. ReaderHolds'
    BY <1>7, <1>r, <1>t, <1>f DEF AnswerBegin, ReaderHolds, ReaderType
  <2> QED
    BY <1>7, <1>t, <2>1, <2>2 DEF AnswerBegin, TypeInv, TypeOK, ResizeAsked, callers
<1>8. CASE AnswerWrite
  <2>1. /\ reader.sent \in 0..(SendLength - 1) /\ SendLength \in Nat \ {0}
        /\ 0 \in 0..(SendLength - 1)
    BY <1>r, SessionAssumption DEF ReaderType
  <2>2. PICK to \in (reader.sent + 1)..SendLength :
          \/ /\ stream' = [stream EXCEPT !.wire = @ \o InputBytes(Reader, reader.sent + 1, to)]
             /\ reader' = IF to = SendLength THEN [reader EXCEPT !.pc = "publish", !.sent = 0]
                                             ELSE [reader EXCEPT !.sent = to]
          \/ reader' = AnswerFailed /\ UNCHANGED stream
    <3>1. SendLength \in (reader.sent + 1)..SendLength
      BY <2>1
    <3> QED
      BY <1>8, <3>1 DEF AnswerWrite
  <2>3. to # SendLength => to \in 0..(SendLength - 1)
    BY <2>1
  <2>4. reader' \in ReaderType
    BY <1>r, <1>f, <2>1, <2>2, <2>3 DEF ReaderType
  <2>5. ReaderHolds'
    BY <1>8, <1>r, <1>t, <1>f, <2>2 DEF AnswerWrite, ReaderHolds, ReaderType
  <2>6. stream' \in StreamType
    <3> DEFINE bytes == InputBytes(Reader, reader.sent + 1, to)
               S     == (Senders \cup {Reader}) \X (1..SendLength)
    <3>1. stream \in StreamType /\ stream.wire \in Seq(S)
      BY <1>t DEF TypeOK, StreamType
    <3>2. bytes \in Seq(S)
      <4>1. reader.sent + 1 \in 1..SendLength /\ SendLength \in Nat
        BY <2>1
      <4> QED
        BY <2>2, <4>1, InputTyped
    <3> HIDE DEF bytes, S
    <3>3. stream.wire \o bytes \in Seq(S)
      BY <3>1, <3>2
    <3> QED
      BY <2>2, <3>1, <3>3 DEF StreamType, bytes, S
  <2> QED
    BY <1>8, <1>t, <2>4, <2>5, <2>6 DEF AnswerWrite, TypeInv, TypeOK, ResizeAsked, callers
<1>9. CASE PublishEvent
  <2> DEFINE H     == [sequence : Nat, event : Event]
             event == [sequence |-> events.sequence + 1, event |-> Head(reader.pending)]
  <2>1. Head(reader.pending) \in Event /\ Tail(reader.pending) \in Seq(Event)
    BY <1>9, <1>r, <1>t DEF PublishEvent, ReaderType, ReaderHolds
  <2>2. events.sequence + 1 \in Nat /\ events.history \in Seq(H)
    BY <1>t DEF TypeOK, EventsType
  <2>3. event \in H
    BY <2>1, <2>2
  <2>4. Append(Retained(events.history), event) \in Seq(H)
    <3> HIDE DEF H, event
    <3>1. Retained(events.history) \in Seq(H)
      <4>1. Len(events.history) = RetainedEvents => events.history # <<>>
        BY <2>2, SessionAssumption
      <4> QED
        BY <2>2, <4>1 DEF Retained
    <3> QED
      BY <2>3, <3>1
  <2>5. events' \in EventsType
    BY <1>9, <1>t, <2>2, <2>4 DEF PublishEvent, TypeOK, EventsType
  <2>6. reader' \in ReaderType /\ reader'.pc = "drain"
    BY <1>9, <1>r, <2>1 DEF PublishEvent, ReaderType
  <2>7. \A s \in Subscribers : Offer(subscription[s], events.sequence + 1) \in SubscriberType
    BY <1>t, <2>2, OfferTyped DEF TypeOK
  <2>8. subscription' \in [Subscribers -> SubscriberType]
    BY <1>9, <2>7 DEF PublishEvent
  <2> QED
    BY <1>9, <1>t, <2>5, <2>6, <2>8
    DEF PublishEvent, TypeInv, TypeOK, ReaderHolds, ResizeAsked
<1>10. CASE CloseEndedStream
  <2>1. reader' \in ReaderType /\ reader'.pc = "finish"
    BY <1>10, <1>r DEF CloseEndedStream, ReaderType, Errors
  <2>2. stream' \in StreamType
    BY <1>10, <1>t DEF CloseEndedStream, TypeOK, StreamType
  <2> QED
    BY <1>10, <1>t, <2>1, <2>2
    DEF CloseEndedStream, TypeInv, TypeOK, ReaderHolds, ResizeAsked, callers
<1>11. CASE Finish
  <2>1. (IF session.closing THEN "nil" ELSE reader.terminalErr) \in Errors
    BY <1>r DEF ReaderType, Errors
  <2>2. session' \in SessionType
    BY <1>11, <1>r, <2>1 DEF Finish, SessionType
  <2>3. reader' \in ReaderType /\ reader'.pc = "stopped"
    BY <1>11, <1>r DEF Finish, ReaderType
  <2>4. history' \in HistoryType
    BY <1>11, <1>t DEF Finish, TypeOK, HistoryType, TerminalType
  <2>5. subscription' \in [Subscribers -> SubscriberType]
    BY <1>11, <1>t DEF Finish, TypeOK, SubscriberType
  <2> QED
    BY <1>11, <1>t, <2>2, <2>3, <2>4, <2>5
    DEF Finish, TypeInv, TypeOK, ReaderHolds, ResizeAsked
<1> QED
  BY <1>1, <1>2, <1>3, <1>4, <1>5, <1>6, <1>7, <1>8, <1>9, <1>10, <1>11 DEF ReaderNext

(* Send (session.go:89-114) keeps the types.                               *)
LEMMA SendTyped ==
  ASSUME TypeInv, NEW s \in Senders, SendBegin(s) \/ SendWrite(s) PROVE TypeInv'
<1>t. TypeOK /\ ReaderHolds /\ ResizeAsked
  BY DEF TypeInv
<1>s. send \in [Senders -> SenderType] /\ send[s] \in SenderType
  BY <1>t DEF TypeOK
<1>1. CASE SendBegin(s)
  <2>1. send' \in [Senders -> SenderType]
    BY <1>1, <1>s DEF SendBegin, SenderType
  <2> QED
    BY <1>1, <1>t, <2>1 DEF SendBegin, TypeInv, TypeOK, ReaderHolds, ResizeAsked, callers
<1>2. CASE SendWrite(s)
  <2>1. SendLength \in Nat \ {0} /\ send[s].sent \in 0..SendLength
    BY <1>s, SessionAssumption DEF SenderType
  <2>2. CASE send' = [send EXCEPT ![s].pc = "failed"] /\ UNCHANGED stream
    <3>1. send' \in [Senders -> SenderType]
      BY <1>s, <2>2 DEF SenderType
    <3> QED
      BY <1>2, <1>t, <2>2, <3>1
      DEF SendWrite, TypeInv, TypeOK, ReaderHolds, ResizeAsked, callers
  <2>3. ASSUME NEW to \in (send[s].sent + 1)..SendLength,
               stream' = [stream EXCEPT !.wire = @ \o InputBytes(s, send[s].sent + 1, to)],
               send' = [send EXCEPT ![s] =
                          [pc |-> IF to = SendLength THEN "sent" ELSE "writing", sent |-> to]]
        PROVE  TypeInv'
    <3> DEFINE bytes == InputBytes(s, send[s].sent + 1, to)
               S     == (Senders \cup {Reader}) \X (1..SendLength)
    <3>1. stream \in StreamType /\ stream.wire \in Seq(S)
      BY <1>t DEF TypeOK, StreamType
    <3>2. bytes \in Seq(S)
      <4>1. send[s].sent + 1 \in 1..SendLength /\ SendLength \in Nat
        BY <2>1
      <4> QED
        BY <4>1, InputTyped
    <3>3. stream' \in StreamType
      <4> HIDE DEF bytes, S
      <4>1. stream.wire \o bytes \in Seq(S)
        BY <3>1, <3>2
      <4> QED
        BY <2>3, <3>1, <4>1 DEF StreamType, bytes, S
    <3>4. to \in 0..SendLength
      BY <2>1
    <3>5. send' \in [Senders -> SenderType]
      BY <1>s, <2>3, <3>4 DEF SenderType
    <3> QED
      BY <1>2, <1>t, <3>3, <3>5
      DEF SendWrite, TypeInv, TypeOK, ReaderHolds, ResizeAsked, callers
  <2> QED
    BY <1>2, <2>2, <2>3 DEF SendWrite
<1> QED
  BY <1>1, <1>2

(* Resize (session.go:150-170) keeps the types: the terminal takes only    *)
(* dimensions it does not reject.                                          *)
LEMMA ResizeTyped ==
  ASSUME TypeInv, NEW r \in Resizers, ResizeBegin(r) \/ ResizeStream(r) \/ ResizeNext(r)
  PROVE  TypeInv'
<1>t. TypeOK /\ ReaderHolds /\ ResizeAsked
  BY DEF TypeInv
<1>r. resize \in [Resizers -> ResizerType] /\ resize[r] \in ResizerType
  BY <1>t DEF TypeOK
<1>s. history \in HistoryType /\ session \in SessionType
  BY <1>t DEF TypeOK
(* A step of a resize from a pc that has dimensions to any pc. *)
<1>p. ASSUME NEW pc \in {"stream", "terminal", "record", "signal", "resized", "failed"},
             resize[r].size \in Sizes, resize' = [resize EXCEPT ![r].pc = pc]
      PROVE  resize' \in [Resizers -> ResizerType] /\ ResizeAsked'
  BY <1>r, <1>t, <1>p DEF ResizerType, ResizeAsked
<1>1. CASE ResizeBegin(r)
  <2>1. resize' \in [Resizers -> ResizerType]
    BY <1>1, <1>r DEF ResizeBegin, ResizerType
  <2>2. ResizeAsked'
    BY <1>1, <1>r, <1>t DEF ResizeBegin, ResizeAsked, ResizerType
  <2> QED
    BY <1>1, <1>t, <2>1, <2>2 DEF ResizeBegin, TypeInv, TypeOK, ReaderHolds, callers
<1>2. CASE ResizeStream(r)
  <2>1. resize[r].size \in Sizes
    BY <1>2, <1>t DEF ResizeStream, ResizeAsked
  <2>2. stream' \in StreamType
    BY <1>2, <1>t, <2>1 DEF ResizeStream, TypeOK, StreamType
  <2>3. resize' \in [Resizers -> ResizerType] /\ ResizeAsked'
    BY <1>2, <1>p, <2>1 DEF ResizeStream
  <2> QED
    BY <1>2, <1>t, <2>2, <2>3 DEF ResizeStream, TypeInv, TypeOK, ReaderHolds, callers
<1>3. CASE ResizeTerminal(r)
  <2>1. resize[r].size \in Sizes
    BY <1>3, <1>t DEF ResizeTerminal, ResizeAsked
  <2>2. resize' \in [Resizers -> ResizerType] /\ ResizeAsked'
    BY <1>3, <1>p, <2>1 DEF ResizeTerminal
  <2>3. terminal' \in TerminalType
    BY <1>3, <1>t, <2>1 DEF ResizeTerminal, TypeOK, TerminalType, Rejects
  <2>4. history' \in HistoryType
    <3>1. Append(history.applied, ResizeRecord(resize[r].size)) \in Seq(Record)
      <4>1. ResizeRecord(resize[r].size) \in Record
        BY <2>1 DEF ResizeRecord, Record
      <4> QED
        BY <1>s, <4>1 DEF HistoryType
    <3> QED
      BY <1>3, <1>s, <3>1 DEF ResizeTerminal, HistoryType
  <2> QED
    BY <1>3, <1>t, <2>2, <2>3, <2>4 DEF ResizeTerminal, TypeInv, TypeOK, ReaderHolds, callers
<1>4. CASE ResizeRecorder(r)
  <2>1. resize[r].size \in Sizes
    BY <1>4, <1>t DEF ResizeRecorder, ResizeAsked
  <2>2. resize' \in [Resizers -> ResizerType] /\ ResizeAsked'
    BY <1>4, <1>p, <2>1 DEF ResizeRecorder
  <2>3. history' \in HistoryType
    <3>1. Append(history.recorded, ResizeRecord(resize[r].size)) \in Seq(Record)
      <4>1. ResizeRecord(resize[r].size) \in Record
        BY <2>1 DEF ResizeRecord, Record
      <4> QED
        BY <1>s, <4>1 DEF HistoryType
    <3> QED
      BY <1>4, <1>s, <3>1 DEF ResizeRecorder, HistoryType
  <2> QED
    BY <1>4, <1>t, <2>2, <2>3 DEF ResizeRecorder, TypeInv, TypeOK, ReaderHolds, callers
<1>5. CASE ResizeSignal(r)
  <2>1. resize[r].size \in Sizes
    BY <1>5, <1>t DEF ResizeSignal, ResizeAsked
  <2>2. resize' \in [Resizers -> ResizerType] /\ ResizeAsked'
    BY <1>5, <1>p, <2>1 DEF ResizeSignal
  <2>3. NextChanged \in Nat
    BY <1>s DEF SessionType, NextChanged
  <2>4. session' \in SessionType /\ session'.output = session.output
    BY <1>5, <1>s, <2>3 DEF ResizeSignal, SignalChange, SessionType
  <2> QED
    BY <1>5, <1>t, <2>2, <2>4 DEF ResizeSignal, TypeInv, TypeOK, ReaderHolds, callers
<1> QED
  BY <1>1, <1>2, <1>3, <1>4, <1>5 DEF ResizeNext

(* Close (session.go:394-414) keeps the types.                             *)
LEMMA CloseTyped ==
  ASSUME TypeInv, NEW c \in Closers, CloseBegin(c) \/ CloseStream(c) \/ CloseReturn(c)
  PROVE  TypeInv'
<1>t. TypeOK /\ ReaderHolds /\ ResizeAsked
  BY DEF TypeInv
<1>s. session \in SessionType /\ stream \in StreamType /\ close \in [Closers -> CloserType]
  BY <1>t DEF TypeOK
<1>1. session' \in SessionType /\ session'.output = session.output
  BY <1>s DEF CloseBegin, CloseStream, CloseReturn, SessionType
<1>2. close' \in [Closers -> CloserType]
  BY <1>s DEF CloseBegin, CloseStream, CloseReturn, CloserType
<1>3. stream' \in StreamType
  BY <1>s DEF CloseBegin, CloseStream, CloseReturn, StreamType
<1> QED
  BY <1>t, <1>1, <1>2, <1>3
  DEF CloseBegin, CloseStream, CloseReturn, TypeInv, TypeOK, ReaderHolds, ResizeAsked, callers

(* WaitFor and WaitForStable (session.go:172-286) keep the types: every    *)
(* step replaces the caller's record by another one.                       *)
LEMMA WaitTyped ==
  ASSUME TypeInv, NEW w \in Waiting, WaitBegin(w) \/ WaitNext(w) PROVE TypeInv'
<1>t. TypeOK /\ ReaderHolds /\ ResizeAsked
  BY DEF TypeInv
<1>w. wait \in [Waiting -> WaiterType] /\ wait[w] \in WaiterType
  BY <1>t DEF TypeOK
<1>s. /\ session.changed \in Nat /\ session.done \in BOOLEAN /\ session.err \in Errors
      /\ session.output \in Nat /\ terminal.revision \in Nat /\ Len(history.applied) \in Nat
  BY <1>t, SessionAssumption DEF TypeOK, SessionType, TerminalType, HistoryType
<1>p. \A pc \in {"loop", "snapshot", "select", "quiet", "check", "recheck", "matched", "ended",
                 "canceled", "failed"} :
        /\ Snapshot(wait[w], pc) \in WaiterType
        /\ [Snapshot(wait[w], pc) EXCEPT !.quietFrom = session.output] \in WaiterType
        /\ [wait[w] EXCEPT !.pc = pc] \in WaiterType
  <2> SUFFICES ASSUME NEW pc \in {"loop", "snapshot", "select", "quiet", "check", "recheck",
                                  "matched", "ended", "canceled", "failed"}
               PROVE  /\ Snapshot(wait[w], pc) \in WaiterType
                      /\ [Snapshot(wait[w], pc) EXCEPT !.quietFrom = session.output]
                           \in WaiterType
                      /\ [wait[w] EXCEPT !.pc = pc] \in WaiterType
    OBVIOUS
  <2>1. Snapshot(wait[w], pc) \in WaiterType
    BY <1>w, <1>s DEF Snapshot, WaiterType
  <2>2. [Snapshot(wait[w], pc) EXCEPT !.quietFrom = session.output] \in WaiterType
    BY <1>s, <2>1 DEF WaiterType
  <2>3. [wait[w] EXCEPT !.pc = pc] \in WaiterType
    BY <1>w DEF WaiterType
  <2> QED
    BY <2>1, <2>2, <2>3
<1>u. UNCHANGED <<machine, observe, subscription, ctxDone>>
  BY DEF WaitBegin, WaitNext, WaitCapture, WaitSnapshot, StableSnapshot, WaitSelect,
         StableCheck, StableRecheck, WaitFails, WaitFrame
<1>1. \E x \in WaiterType : wait' = [wait EXCEPT ![w] = x]
  <2>1. CASE WaitBegin(w)
    <3>1. PICK m \in Matchers : wait' = [wait EXCEPT ![w].pc = "loop", ![w].matcher = m]
      BY <2>1 DEF WaitBegin
    <3>2. [wait[w] EXCEPT !.pc = "loop", !.matcher = m] \in WaiterType
      BY <1>w DEF WaiterType
    <3> QED
      BY <1>w, <3>1, <3>2
  <2>2. CASE WaitCapture(w)
    <3> DEFINE x == [wait[w] EXCEPT !.pc = "snapshot", !.changed = session.changed,
                                    !.finished = session.done, !.err = session.err,
                                    !.output = session.output]
    <3>1. x \in WaiterType
      BY <1>w, <1>s DEF WaiterType
    <3>2. wait' = [wait EXCEPT ![w] = x]
      BY <1>w, <2>2 DEF WaitCapture
    <3> QED
      BY <3>1, <3>2
  <2>3. CASE WaitSnapshot(w)
    BY <1>p, <2>3 DEF WaitSnapshot
  <2>4. CASE StableSnapshot(w)
    BY <1>p, <2>4 DEF StableSnapshot
  <2>5. CASE WaitSelect(w)
    BY <1>p, <2>5 DEF WaitSelect
  <2>6. CASE StableCheck(w)
    <3> DEFINE x == [wait[w] EXCEPT !.pc = "recheck", !.quiet = SameOutput(w),
                                    !.finished = session.done, !.err = session.err]
    <3>1. x \in WaiterType
      BY <1>w, <1>s DEF WaiterType, SameOutput
    <3>2. wait' = [wait EXCEPT ![w] = x]
      BY <1>w, <2>6 DEF StableCheck
    <3> QED
      BY <3>1, <3>2
  <2>7. CASE StableRecheck(w)
    BY <1>p, <2>7 DEF StableRecheck
  <2>8. CASE WaitFails(w)
    BY <1>p, <2>8 DEF WaitFails
  <2> QED
    BY <2>1, <2>2, <2>3, <2>4, <2>5, <2>6, <2>7, <2>8 DEF WaitNext
<1>2. wait' \in [Waiting -> WaiterType]
  BY <1>w, <1>1
<1> QED
  BY <1>t, <1>u, <1>2 DEF machine, TypeInv, TypeOK, ReaderHolds, ResizeAsked

(* Screens (session.go:288-329, 601-620) keeps the types.                  *)
LEMMA ObserveTyped ==
  ASSUME TypeInv, NEW o \in Observers, ObserveBegin(o) \/ ObserveNext(o) \/ ReceiveScreen(o)
  PROVE  TypeInv'
<1>t. TypeOK /\ ReaderHolds /\ ResizeAsked
  BY DEF TypeInv
<1>o. observe \in [Observers -> ObserverType] /\ observe[o] \in ObserverType
  BY <1>t DEF TypeOK
<1>s. session.changed \in Nat /\ terminal.revision \in Nat
  BY <1>t DEF TypeOK, SessionType, TerminalType
<1>u. UNCHANGED <<machine, wait, subscription, ctxDone>>
  BY DEF ObserveBegin, ObserveNext, PublishScreen, DropScreen, ResendScreen, ObserveCapture,
         ObserveSelect, ObserveDone, ObserveSnapshot, ReceiveScreen, ObserveFrame
<1>p. \A pc \in {"publish", "drop", "resend", "loop", "select", "snapshot", "closed"} :
        [observe[o] EXCEPT !.pc = pc] \in ObserverType
  BY <1>o DEF ObserverType
<1>e. <<>> \in Seq(Nat)
  OBVIOUS
<1>n. SendScreen(o) => \E x \in ObserverType : observe' = [observe EXCEPT ![o] = x]
  <2>1. ASSUME observe' = [observe EXCEPT ![o].channel = <<observe[o].last>>,
                                          ![o].pc = observe[o].then]
        PROVE  \E x \in ObserverType : observe' = [observe EXCEPT ![o] = x]
    <3>1. <<observe[o].last>> \in Seq(Nat) /\ observe[o].then \in {"loop", "closed"}
      BY <1>o DEF ObserverType
    <3>2. [observe[o] EXCEPT !.channel = <<observe[o].last>>, !.pc = observe[o].then]
            \in ObserverType
      BY <1>o, <3>1 DEF ObserverType
    <3> QED
      BY <1>o, <2>1, <3>2
  <2> QED
    BY <1>p, <2>1 DEF SendScreen
<1>1. \E x \in ObserverType : observe' = [observe EXCEPT ![o] = x]
  <2>1. CASE ObserveBegin(o)
    <3>1. [observe[o] EXCEPT !.pc = "publish", !.last = terminal.revision] \in ObserverType
      BY <1>o, <1>s DEF ObserverType
    <3> QED
      BY <1>o, <2>1, <3>1 DEF ObserveBegin
  <2>2. CASE ObserveSnapshot(o)
    <3> DEFINE pc == IF NewScreen(o) THEN "publish" ELSE observe[o].then
    <3>1. pc \in {"publish", "loop", "closed"}
      BY <1>o DEF ObserverType
    <3>2. [observe[o] EXCEPT !.last = terminal.revision, !.pc = pc] \in ObserverType
      <4> HIDE DEF pc
      <4> QED
        BY <1>o, <1>s, <3>1 DEF ObserverType
    <3>3. observe' = [observe EXCEPT ![o] =
                        [observe[o] EXCEPT !.last = terminal.revision, !.pc = pc]]
      BY <1>o, <2>2 DEF ObserveSnapshot
    <3> QED
      BY <3>2, <3>3
  <2>3. CASE PublishScreen(o) \/ ResendScreen(o)
    BY <2>3, <1>p, <1>n DEF PublishScreen, ResendScreen
  <2>4. CASE DropScreen(o)
    <3>1. [observe[o] EXCEPT !.pc = "resend", !.channel = <<>>] \in ObserverType
      BY <1>o, <1>e DEF ObserverType
    <3> QED
      BY <1>o, <2>4, <3>1 DEF DropScreen
  <2>5. CASE ObserveCapture(o)
    <3>1. [observe[o] EXCEPT !.pc = "select", !.changed = session.changed] \in ObserverType
      BY <1>o, <1>s DEF ObserverType
    <3> QED
      BY <1>o, <2>5, <3>1 DEF ObserveCapture
  <2>6. CASE ObserveSelect(o)
    BY <1>p, <2>6 DEF ObserveSelect
  <2>7. CASE ObserveDone(o)
    <3>1. [observe[o] EXCEPT !.pc = "snapshot", !.then = "closed"] \in ObserverType
      BY <1>o DEF ObserverType
    <3> QED
      BY <1>o, <2>7, <3>1 DEF ObserveDone
  <2>8. CASE ReceiveScreen(o)
    <3>1. observe[o].received \o observe[o].channel \in Seq(Nat)
      BY <1>o DEF ObserverType
    <3>2. [observe[o] EXCEPT !.received = @ \o observe[o].channel, !.channel = <<>>]
            \in ObserverType
      BY <1>o, <1>e, <3>1 DEF ObserverType
    <3> QED
      BY <1>o, <2>8, <3>2 DEF ReceiveScreen
  <2> QED
    BY <2>1, <2>2, <2>3, <2>4, <2>5, <2>6, <2>7, <2>8 DEF ObserveNext
<1>2. observe' \in [Observers -> ObserverType]
  BY <1>o, <1>1
<1> QED
  BY <1>t, <1>u, <1>2 DEF machine, TypeInv, TypeOK, ReaderHolds, ResizeAsked

(* Events (session.go:331-362) keeps the types.                            *)
LEMMA SubscriptionTyped ==
  ASSUME TypeInv, NEW s \in Subscribers, Subscribe(s) \/ Unsubscribe(s) \/ ReceiveEvent(s)
  PROVE  TypeInv'
<1>t. TypeOK /\ ReaderHolds /\ ResizeAsked
  BY DEF TypeInv
<1>s. /\ subscription \in [Subscribers -> SubscriberType] /\ subscription[s] \in SubscriberType
      /\ events.sequence \in Nat
  BY <1>t DEF TypeOK, EventsType
<1>1. subscription' \in [Subscribers -> SubscriberType]
  <2>1. CASE Subscribe(s)
    BY <1>s, <2>1 DEF Subscribe, SubscriberType
  <2>2. CASE Unsubscribe(s)
    BY <1>s, <2>2 DEF Unsubscribe, SubscriberType
  <2>3. CASE ReceiveEvent(s)
    <3>1. /\ Head(subscription[s].channel) \in Nat
          /\ Tail(subscription[s].channel) \in Seq(Nat)
      BY <1>s, <2>3 DEF ReceiveEvent, SubscriberType
    <3> QED
      BY <1>s, <2>3, <3>1 DEF ReceiveEvent, SubscriberType
  <2> QED
    BY <2>1, <2>2, <2>3
<1>2. UNCHANGED <<machine, wait, observe, ctxDone>>
  BY DEF Subscribe, Unsubscribe, ReceiveEvent
<1> QED
  BY <1>t, <1>1, <1>2 DEF machine, TypeInv, TypeOK, ReaderHolds, ResizeAsked

(* Every step keeps the types.                                             *)
LEMMA NextTyped == TypeInv /\ [Next]_vars => TypeInv'
<1> SUFFICES ASSUME TypeInv, [Next]_vars PROVE TypeInv'
  OBVIOUS
<1>1. ASSUME NEW t \in Cancellable, Cancel(t) PROVE TypeInv'
  <2>1. ctxDone' \in [Cancellable -> BOOLEAN]
    BY <1>1 DEF Cancel, TypeInv, TypeOK
  <2> QED
    BY <1>1, <2>1 DEF Cancel, machine, TypeInv, TypeOK, ReaderHolds, ResizeAsked
<1>2. CASE UNCHANGED vars
  BY <1>2 DEF vars, machine, callers, TypeInv, TypeOK, ReaderHolds, ResizeAsked
<1> QED
  BY <1>1, <1>2, ReaderTyped, SendTyped, ResizeTyped, CloseTyped, WaitTyped, ObserveTyped,
     SubscriptionTyped DEF Next

(* The session, the terminal and every caller keep their types             *)
(* (session.go:34-58): no sequence of calls, reads and failures makes the  *)
(* terminal accept dimensions it rejects.                                  *)
THEOREM TypeCorrect == Spec => []TypeOK
<1>1. TypeInv => TypeOK
  BY DEF TypeInv
<1> QED
  BY <1>1, InitTyped, NextTyped, PTL DEF Spec

-----------------------------------------------------------------------------
(* The steps that are not a caller's who only looks.                       *)
MachineNext ==
  \/ ReaderNext
  \/ \E s \in Senders : SendBegin(s) \/ SendWrite(s)
  \/ \E r \in Resizers : ResizeBegin(r) \/ ResizeStream(r) \/ ResizeNext(r)
  \/ \E c \in Closers : CloseBegin(c) \/ CloseStream(c) \/ CloseReturn(c)

(* Every step is one of the machine or of one caller who only looks        *)
(* (session.go:89-473).                                                    *)
LEMMA StepKinds ==
  [Next]_vars =>
    \/ MachineNext /\ UNCHANGED <<wait, observe, ctxDone>>
    \/ /\ UNCHANGED <<machine, observe, subscription, ctxDone>>
       /\ \E w \in Waiting : WaitBegin(w) \/ WaitNext(w)
    \/ /\ UNCHANGED <<machine, wait, subscription, ctxDone>>
       /\ \E o \in Observers : ObserveBegin(o) \/ ObserveNext(o) \/ ReceiveScreen(o)
    \/ /\ UNCHANGED <<machine, wait, observe, ctxDone>>
       /\ \E s \in Subscribers : Subscribe(s) \/ Unsubscribe(s) \/ ReceiveEvent(s)
    \/ /\ UNCHANGED <<machine, wait, observe, subscription>>
       /\ ctxDone' = ctxDone \/ \E t \in Cancellable : Cancel(t)
<1>1. MachineNext => UNCHANGED <<wait, observe, ctxDone>>
  BY DEF MachineNext, ReaderNext, Read, SignalOutput, ApplyOutput, RecordOutput, SignalApplied,
         DrainEvent, AnswerBegin, AnswerWrite, PublishEvent, CloseEndedStream, Finish,
         SendBegin, SendWrite, ResizeBegin, ResizeStream, ResizeNext, ResizeTerminal,
         ResizeRecorder, ResizeSignal, CloseBegin, CloseStream, CloseReturn, callers
<1>2. ASSUME NEW w \in Waiting, WaitBegin(w) \/ WaitNext(w)
      PROVE  UNCHANGED <<machine, observe, subscription, ctxDone>>
  BY <1>2 DEF WaitBegin, WaitNext, WaitCapture, WaitSnapshot, StableSnapshot, WaitSelect,
              StableCheck, StableRecheck, WaitFails, WaitFrame
<1>3. ASSUME NEW o \in Observers, ObserveBegin(o) \/ ObserveNext(o) \/ ReceiveScreen(o)
      PROVE  UNCHANGED <<machine, wait, subscription, ctxDone>>
  BY <1>3 DEF ObserveBegin, ObserveNext, PublishScreen, DropScreen, ResendScreen,
              ObserveCapture, ObserveSelect, ObserveDone, ObserveSnapshot, ReceiveScreen,
              ObserveFrame
<1>4. ASSUME NEW s \in Subscribers, Subscribe(s) \/ Unsubscribe(s) \/ ReceiveEvent(s)
      PROVE  UNCHANGED <<machine, wait, observe, ctxDone>>
  BY <1>4 DEF Subscribe, Unsubscribe, ReceiveEvent
<1>5. ASSUME NEW t \in Cancellable, Cancel(t)
      PROVE  UNCHANGED <<machine, wait, observe, subscription>>
  BY <1>5 DEF Cancel
<1>6. UNCHANGED vars => UNCHANGED <<machine, wait, observe, subscription, ctxDone>>
  BY DEF vars, callers
<1> QED
  BY <1>1, <1>2, <1>3, <1>4, <1>5, <1>6 DEF Next, MachineNext

-----------------------------------------------------------------------------
(* Who may write to the host, and how much of its input the host has got.  *)
Writers == Senders \cup {Reader}
Writing(t) == IF t = Reader THEN reader.pc = "answering" ELSE send[t].pc = "writing"
Sent(t) == IF t = Reader THEN reader.sent ELSE send[t].sent

(* The host has got the inputs in one piece each, but for what was cut     *)
(* off, and what ends with the byte at is.                                 *)
Unbroken(wire) ==
  \A i \in 1..Len(wire) :
    wire[i][2] > 1 => i > 1 /\ wire[i - 1] = <<wire[i][1], wire[i][2] - 1>>
EndsWith(wire, byte) == wire # <<>> /\ wire[Len(wire)] = byte

(* There is one writer at a time, and the host's input ends with what it   *)
(* has sent.                                                               *)
SendsHold ==
  /\ SendsNotInterleaved
  /\ \A t, u \in Writers : Writing(t) /\ Writing(u) => t = u
  /\ \A t \in Writers : Writing(t) /\ Sent(t) > 0 => EndsWith(stream.wire, <<t, Sent(t)>>)
  /\ \A s \in Senders : send[s].pc = "idle" => send[s].sent = 0
  /\ reader.pc # "answering" => reader.sent = 0

(* Write goes on where it stopped (session.go:102-114).                    *)
LEMMA InputFollows ==
  ASSUME NEW B, NEW t, SendLength \in Nat, NEW wire \in Seq(B),
         NEW n \in 0..(SendLength - 1), NEW to \in (n + 1)..SendLength,
         InputBytes(t, n + 1, to) \in Seq(B),
         Unbroken(wire), n > 0 => EndsWith(wire, <<t, n>>)
  PROVE  /\ wire \o InputBytes(t, n + 1, to) \in Seq(B)
         /\ Unbroken(wire \o InputBytes(t, n + 1, to))
         /\ EndsWith(wire \o InputBytes(t, n + 1, to), <<t, to>>)
<1> DEFINE input == InputBytes(t, n + 1, to)
           more == wire \o input
           a == Len(wire)
           d == to - n
<1>1. n \in Nat /\ d \in Nat /\ d > 0 /\ n + d = to
  OBVIOUS
<1>2. Len(input) = d /\ \A i \in 1..d : input[i] = <<t, n + i>>
  <2>1. input = [i \in 1..d |-> <<t, n + i>>]
    <3>1. /\ to - (n + 1) + 1 = d
          /\ \A i \in 1..d : n + 1 + i - 1 = n + i
      BY <1>1
    <3> QED
      BY <3>1 DEF InputBytes
  <2> HIDE DEF input, d
  <2> QED
    BY <1>1, <2>1
<1>3. /\ more \in Seq(B) /\ Len(more) = Len(wire) + Len(input) /\ a \in Nat
      /\ \A i \in 1..(Len(wire) + Len(input)) :
           more[i] = IF i <= Len(wire) THEN wire[i] ELSE input[i - Len(wire)]
  <2> HIDE DEF input
  <2> QED
    BY ConcatProperties, LenProperties DEF input
<1>4. a > 0 <=> wire # <<>>
  BY <1>3, EmptySeq
<1>5. /\ EndsWith(wire, <<t, n>>) <=> wire # <<>> /\ wire[a] = <<t, n>>
      /\ EndsWith(more, <<t, to>>) <=> more # <<>> /\ more[Len(more)] = <<t, to>>
      /\ Unbroken(wire) <=> \A i \in 1..a : wire[i][2] > 1 =>
                              i > 1 /\ wire[i - 1] = <<wire[i][1], wire[i][2] - 1>>
      /\ Unbroken(more) <=> \A i \in 1..Len(more) : more[i][2] > 1 =>
                              i > 1 /\ more[i - 1] = <<more[i][1], more[i][2] - 1>>
  BY DEF EndsWith, Unbroken
<1>6. Len(more) # 0 => more # <<>>
  OBVIOUS
<1>7. /\ Len(more) = a + d
      /\ \A i \in 1..a : more[i] = wire[i]
      /\ \A i \in (a + 1)..(a + d) : more[i] = <<t, n + (i - a)>>
  <2>1. /\ Len(more) = a + d
        /\ \A i \in 1..(a + d) : more[i] = IF i <= a THEN wire[i] ELSE input[i - a]
    BY <1>2, <1>3
  <2> HIDE DEF more, input, a, d
  <2>2. \A i \in 1..a : more[i] = wire[i]
    BY <1>1, <1>3, <2>1
  <2>3. \A i \in (a + 1)..(a + d) : more[i] = input[i - a] /\ i - a \in 1..d
    BY <1>1, <1>3, <2>1
  <2> QED
    BY <1>2, <2>1, <2>2, <2>3
<1> HIDE DEF more, input, a, d
<1>8. EndsWith(more, <<t, to>>)
  <2>1. a + d \in (a + 1)..(a + d) /\ n + ((a + d) - a) = to /\ a + d # 0
    BY <1>1, <1>3
  <2>2. more[a + d] = <<t, to>>
    BY <1>7, <2>1
  <2> QED
    BY <1>5, <1>6, <1>7, <2>1, <2>2
<1>9. Unbroken(more)
  <2> SUFFICES ASSUME NEW i \in 1..(a + d), more[i][2] > 1
               PROVE  i > 1 /\ more[i - 1] = <<more[i][1], more[i][2] - 1>>
    BY <1>5, <1>7
  <2>1. CASE i <= a
    <3>1. i \in 1..a /\ more[i] = wire[i]
      BY <1>1, <1>3, <1>7, <2>1
    <3>2. i > 1 /\ wire[i - 1] = <<wire[i][1], wire[i][2] - 1>>
      BY <1>5, <3>1
    <3>3. i - 1 \in 1..a
      BY <1>3, <3>1, <3>2
    <3> QED
      BY <1>7, <3>1, <3>2, <3>3
  <2>2. CASE i = a + 1
    <3>1. i \in (a + 1)..(a + d) /\ i - a = 1 /\ n + 1 - 1 = n /\ a + 1 - 1 = a
      BY <1>1, <1>3, <2>2
    <3>2. more[i] = <<t, n + 1>>
      BY <1>7, <3>1
    <3>3. n > 0
      <4>1. more[i][2] = n + 1
        BY <3>2
      <4>2. n + 1 > 1
        BY <4>1
      <4> QED
        BY <1>1, <4>2
    <3>4. a > 0 /\ wire[a] = <<t, n>>
      BY <1>4, <1>5, <3>3
    <3>5. a \in 1..a /\ i > 1
      BY <1>3, <2>2, <3>4
    <3>6. more[i - 1] = <<t, n>>
      <4>1. i - 1 = a
        BY <1>3, <2>2
      <4> QED
        BY <1>7, <3>4, <3>5, <4>1
    <3>7. more[i][1] = t /\ more[i][2] - 1 = n
      <4>1. more[i][1] = t /\ more[i][2] = n + 1
        BY <3>2
      <4> QED
        BY <1>1, <4>1
    <3>8. <<more[i][1], more[i][2] - 1>> = <<t, n>>
      BY <3>7
    <3> QED
      BY <3>5, <3>6, <3>8
  <2>3. CASE i > a + 1
    <3>1. /\ i \in (a + 1)..(a + d) /\ i - 1 \in (a + 1)..(a + d) /\ i > 1
          /\ n + (i - a) - 1 = n + ((i - 1) - a)
      <4>1. a \in Int /\ d \in Int /\ n \in Int /\ i \in Int /\ a >= 0 /\ i <= a + d
        BY <1>1, <1>3
      <4> QED
        BY <2>3, <4>1
    <3>2. more[i] = <<t, n + (i - a)>> /\ more[i - 1] = <<t, n + ((i - 1) - a)>>
      BY <1>7, <3>1
    <3>3. more[i][1] = t /\ more[i][2] = n + (i - a)
      BY <3>2
    <3>4. more[i][2] - 1 = n + ((i - 1) - a)
      BY <1>1, <1>3, <3>1, <3>3
    <3> QED
      BY <3>1, <3>2, <3>3, <3>4
  <2> QED
    BY <1>1, <1>3, <2>1, <2>2, <2>3
<1> QED
  BY <1>3, <1>8, <1>9 DEF more, input

(* Nothing is sent before the first call (session.go:60-73).               *)
LEMMA InitSends == Init => SendsHold
BY SessionAssumption
DEF Init, SendsHold, SendsNotInterleaved, Writers, Writing, Sent

(* A step in which nobody writes.                                          *)
LEMMA NobodyWrites ==
  ASSUME SendsHold, stream'.wire = stream.wire, UNCHANGED send,
         reader.pc # "answering", reader'.pc # "answering", reader'.sent = reader.sent
  PROVE  SendsHold'
BY DEF SendsHold, SendsNotInterleaved, Writers, Writing, Sent

(* A writer writes on, or stops (session.go:102-114).                      *)
LEMMA WriterWrites ==
  ASSUME TypeOK, SendsHold, NEW t \in Writers, Writing(t), Sent(t) < SendLength,
         \A u \in Writers \ {t} : Writing(u)' = Writing(u) /\ Sent(u)' = Sent(u),
         \A s \in Senders : send'[s].pc = "idle" => send[s].pc = "idle" /\ send'[s] = send[s],
         reader'.pc # "answering" => reader'.sent = 0,
         \/ ~Writing(t)' /\ stream'.wire = stream.wire
         \/ \E to \in (Sent(t) + 1)..SendLength :
              /\ stream'.wire = stream.wire \o InputBytes(t, Sent(t) + 1, to)
              /\ Writing(t)' => Sent(t)' = to
  PROVE  SendsHold'
<1> DEFINE B == Writers \X (1..SendLength)
<1>0. /\ stream.wire \in Seq(B) /\ SendLength \in Nat \ {0}
      /\ SendsNotInterleaved <=> Unbroken(stream.wire)
      /\ SendsNotInterleaved' <=> Unbroken(stream'.wire)
      /\ Sent(t) \in 0..(SendLength - 1)
  BY SessionAssumption DEF TypeOK, StreamType, Writers, SendsNotInterleaved, Unbroken, Sent,
     ReaderType, SenderType
<1>1. \A u \in Writers : Writing(u) => u = t
  BY DEF SendsHold
<1>2. \A u \in Writers : Writing(u)' => u = t
  BY <1>1
<1>3. \A s \in Senders : send'[s].pc = "idle" => send'[s].sent = 0
  BY DEF SendsHold
<1>4. Unbroken(stream'.wire) /\ (Writing(t)' => EndsWith(stream'.wire, <<t, Sent(t)'>>))
  <2>1. CASE ~Writing(t)' /\ stream'.wire = stream.wire
    BY <1>0, <2>1 DEF SendsHold
  <2>2. ASSUME NEW to \in (Sent(t) + 1)..SendLength,
               stream'.wire = stream.wire \o InputBytes(t, Sent(t) + 1, to),
               Writing(t)' => Sent(t)' = to
        PROVE  Unbroken(stream'.wire) /\ (Writing(t)' => EndsWith(stream'.wire, <<t, Sent(t)'>>))
    <3>1. InputBytes(t, Sent(t) + 1, to) \in Seq(B)
      <4>1. Sent(t) + 1 \in 1..SendLength
        BY <1>0
      <4> QED
        BY <1>0, <4>1, InputTyped DEF Writers
    <3>2. Unbroken(stream.wire) /\ (Sent(t) > 0 => EndsWith(stream.wire, <<t, Sent(t)>>))
      BY <1>0 DEF SendsHold
    <3> DEFINE w == stream.wire
               k == Sent(t)
               more == w \o InputBytes(t, k + 1, to)
    <3>3. /\ w \in Seq(B) /\ k \in 0..(SendLength - 1) /\ to \in (k + 1)..SendLength
          /\ InputBytes(t, k + 1, to) \in Seq(B) /\ SendLength \in Nat
          /\ Unbroken(w) /\ (k > 0 => EndsWith(w, <<t, k>>))
      BY <1>0, <2>2, <3>1, <3>2
    <3> HIDE DEF B, w, k
    <3>4. Unbroken(more) /\ EndsWith(more, <<t, to>>)
      BY <3>3, InputFollows
    <3>5. stream'.wire = more
      BY <2>2 DEF w, k
    <3> HIDE DEF more
    <3> QED
      BY <2>2, <3>4, <3>5
  <2> QED
    BY <2>1, <2>2
<1> QED
  BY <1>0, <1>2, <1>3, <1>4 DEF SendsHold

(* Send and the answerback take turns (session.go:89-114, 436-449).        *)
LEMMA SendStep == TypeInv /\ SendsHold /\ [Next]_vars => SendsHold'
<1> SUFFICES ASSUME TypeInv, SendsHold, [Next]_vars
             PROVE  SendsHold'
  OBVIOUS
<1>t. /\ TypeOK /\ reader \in ReaderType /\ send \in [Senders -> SenderType]
      /\ stream \in StreamType
      /\ Reader \notin Senders /\ SendLength \in Nat \ {0}
  BY SessionAssumption DEF TypeInv, TypeOK
<1>1. CASE \/ Read \/ SignalOutput \/ ApplyOutput \/ RecordOutput \/ SignalApplied
           \/ DrainEvent \/ PublishEvent \/ CloseEndedStream \/ Finish
  <2>1. /\ stream'.wire = stream.wire /\ UNCHANGED send
        /\ reader.pc # "answering" /\ reader'.pc # "answering" /\ reader'.sent = reader.sent
    <3>1. /\ stream'.wire = stream.wire /\ UNCHANGED send /\ reader.pc # "answering"
      BY <1>1, <1>t DEF Read, SignalOutput, ApplyOutput, RecordOutput, SignalApplied, DrainEvent,
         PublishEvent, CloseEndedStream, Finish, StreamType
    <3>2. CASE Read
      BY <1>t, <3>2 DEF Read, NextTurn, ReaderType
    <3>3. CASE SignalOutput \/ ApplyOutput \/ RecordOutput \/ SignalApplied
      BY <1>t, <3>3 DEF SignalOutput, ApplyOutput, RecordOutput, SignalApplied, ReaderType
    <3>4. CASE DrainEvent
      BY <1>t, <3>4 DEF DrainEvent, NextTurn, ReaderType
    <3>5. CASE PublishEvent
      BY <1>t, <3>5 DEF PublishEvent, ReaderType
    <3>6. CASE CloseEndedStream
      BY <1>t, <3>6 DEF CloseEndedStream, ReaderType
    <3>7. CASE Finish
      BY <1>t, <3>7 DEF Finish, ReaderType
    <3> QED
      BY <1>1, <3>1, <3>2, <3>3, <3>4, <3>5, <3>6, <3>7
  <2> QED
    BY <2>1, NobodyWrites
<1>2. CASE AnswerBegin
  <2>1. \A u \in Writers : ~Writing(u)
    BY <1>2 DEF AnswerBegin, SendMuFree, Writers, Writing
  <2>2. UNCHANGED <<stream, send>> /\ reader'.sent = 0
    BY <1>2, <1>t DEF AnswerBegin, AnswerFailed, ReaderType, SendsHold
  <2> QED
    BY <1>t, <2>1, <2>2 DEF SendsHold, SendsNotInterleaved, Writers, Writing, Sent
<1>3. CASE AnswerWrite
  <2>1. /\ Writing(Reader) /\ Sent(Reader) = reader.sent /\ Reader \in Writers
        /\ reader.sent < SendLength /\ UNCHANGED send
    BY <1>3, <1>t DEF AnswerWrite, Writing, Sent, ReaderType, Writers
  <2>2. \A u \in Writers \ {Reader} : Writing(u)' = Writing(u) /\ Sent(u)' = Sent(u)
    BY <2>1 DEF Writing, Sent
  <2>3. reader'.pc # "answering" => reader'.sent = 0
    BY <1>3, <1>t DEF AnswerWrite, AnswerFailed, ReaderType
  <2>4. \/ ~Writing(Reader)' /\ stream'.wire = stream.wire
        \/ \E to \in (reader.sent + 1)..SendLength :
             /\ stream'.wire = stream.wire \o InputBytes(Reader, reader.sent + 1, to)
             /\ Writing(Reader)' => Sent(Reader)' = to
    <3>1. CASE reader' = AnswerFailed /\ UNCHANGED stream
      BY <1>t, <3>1 DEF AnswerFailed, ReaderType, Writing
    <3>2. ASSUME NEW to \in (reader.sent + 1)..SendLength,
                 stream' = [stream EXCEPT !.wire =
                              stream.wire \o InputBytes(Reader, reader.sent + 1, to)],
                 reader' = IF to = SendLength THEN [reader EXCEPT !.pc = "publish", !.sent = 0]
                                              ELSE [reader EXCEPT !.sent = to]
          PROVE  /\ stream'.wire = stream.wire \o InputBytes(Reader, reader.sent + 1, to)
                 /\ Writing(Reader)' => Sent(Reader)' = to
      BY <1>t, <3>2 DEF ReaderType, StreamType, Writing, Sent
    <3> QED
      BY <1>3, <3>1, <3>2 DEF AnswerWrite
  <2> QED
    BY <1>t, <2>1, <2>2, <2>3, <2>4, WriterWrites
<1>4. ASSUME NEW s \in Senders, SendBegin(s)
      PROVE  SendsHold'
  <2>1. /\ UNCHANGED <<stream, reader>> /\ send[s].pc = "idle" /\ send'[s].sent = send[s].sent
        /\ send'[s].pc # "idle"
        /\ \A u \in Senders : u # s => send'[u] = send[u]
        /\ \A u \in Writers : ~Writing(u)
    BY <1>4, <1>t DEF SendBegin, SendMuFree, SenderType, Writers, Writing
  <2>2. \A u \in Writers : Writing(u)' => u = s
    BY <1>t, <2>1 DEF Writing, Writers
  <2>3. Sent(s)' = 0
    BY <1>t, <2>1 DEF Sent, SendsHold
  <2> QED
    BY <1>t, <2>1, <2>2, <2>3 DEF SendsHold, SendsNotInterleaved
<1>5. ASSUME NEW s \in Senders, SendWrite(s)
      PROVE  SendsHold'
  <2>0. /\ Writing(s) /\ Sent(s) = send[s].sent /\ s \in Writers /\ s # Reader
        /\ UNCHANGED reader /\ send[s] \in SenderType
    BY <1>5, <1>t DEF SendWrite, Writing, Sent, Writers
  <2>1. ASSUME NEW to \in (send[s].sent + 1)..SendLength,
               stream' = [stream EXCEPT !.wire =
                            stream.wire \o InputBytes(s, send[s].sent + 1, to)],
               send' = [send EXCEPT ![s] = [pc   |-> IF to = SendLength THEN "sent" ELSE "writing",
                                            sent |-> to]]
        PROVE  SendsHold'
    <3>1. /\ send'[s].pc # "idle" /\ send'[s].sent = to
          /\ \A u \in Senders : u # s => send'[u] = send[u]
      BY <1>t, <2>1
    <3>2. stream'.wire = stream.wire \o InputBytes(s, Sent(s) + 1, to)
      BY <1>t, <2>0, <2>1 DEF StreamType
    <3>3. Sent(s) < SendLength /\ Sent(s)' = to
      BY <1>t, <2>0, <2>1, <3>1 DEF SenderType, Sent
    <3>4. \A u \in Writers \ {s} : Writing(u)' = Writing(u) /\ Sent(u)' = Sent(u)
      BY <2>0, <3>1 DEF Writing, Sent, Writers
    <3>5. reader'.pc # "answering" => reader'.sent = 0
      BY <2>0 DEF SendsHold
    <3>6. to \in (Sent(s) + 1)..SendLength
      BY <2>0, <2>1
    <3> QED
      BY <1>t, <2>0, <3>1, <3>2, <3>3, <3>4, <3>5, <3>6, WriterWrites
  <2>2. CASE send' = [send EXCEPT ![s].pc = "failed"] /\ UNCHANGED stream
    <3>1. /\ UNCHANGED <<stream, reader>> /\ send'[s].pc = "failed"
          /\ \A u \in Senders : u # s => send'[u] = send[u]
      BY <1>t, <2>0, <2>2
    <3> QED
      BY <1>t, <3>1 DEF SendsHold, SendsNotInterleaved, Writers, Writing, Sent
  <2> QED
    BY <1>5, <2>1, <2>2 DEF SendWrite
<1>6. CASE UNCHANGED <<reader, send>> /\ stream'.wire = stream.wire
  BY <1>6 DEF SendsHold, SendsNotInterleaved, Writers, Writing, Sent
<1>7. ASSUME NEW r \in Resizers, ResizeBegin(r) \/ ResizeStream(r) \/ ResizeNext(r)
      PROVE  UNCHANGED <<reader, send>> /\ stream'.wire = stream.wire
  BY <1>7, <1>t DEF ResizeBegin, ResizeStream, ResizeNext, ResizeTerminal, ResizeRecorder,
                    ResizeSignal, StreamType
<1>8. ASSUME NEW c \in Closers, CloseBegin(c) \/ CloseStream(c) \/ CloseReturn(c)
      PROVE  UNCHANGED <<reader, send>> /\ stream'.wire = stream.wire
  BY <1>8, <1>t DEF CloseBegin, CloseStream, CloseReturn, StreamType
<1>9. UNCHANGED machine => UNCHANGED <<reader, send>> /\ stream'.wire = stream.wire
  BY DEF machine
<1> QED
  BY <1>1, <1>2, <1>3, <1>4, <1>5, <1>6, <1>7, <1>8, <1>9, StepKinds
  DEF MachineNext, ReaderNext

-----------------------------------------------------------------------------
(* The numbers in a channel follow the last one received, up to the last   *)
(* one published as long as the channel is open.                           *)
Follows(sub, top) ==
  /\ \A i \in 1..Len(sub.channel) : sub.channel[i] = sub.received + i
  /\ sub.pc = "open" => sub.received + Len(sub.channel) = top
  /\ sub.pc = "idle" => sub.channel = <<>>

(* A history holds the newest events, as many as are retained.             *)
Keeps(h, top) ==
  /\ Len(h) <= RetainedEvents
  /\ Len(h) < RetainedEvents => Len(h) = top
  /\ \A i \in 1..Len(h) : h[i].sequence = top - Len(h) + i

EventsHold ==
  /\ \A s \in Subscribers : Follows(subscription[s], events.sequence)
  /\ Keeps(events.history, events.sequence)

(* A bounded history without its first event, if it is full                *)
(* (session.go:558-565).                                                   *)
LEMMA RetainedIs ==
  ASSUME NEW S, NEW h \in Seq(S), Len(h) <= RetainedEvents, RetainedEvents \in Nat \ {0}
  PROVE  \E d \in {0, 1} :
           /\ Retained(h) \in Seq(S) /\ Len(Retained(h)) = Len(h) - d
           /\ d = 1 <=> Len(h) = RetainedEvents
           /\ \A i \in 1..(Len(h) - d) : Retained(h)[i] = h[i + d]
<1>1. Len(h) \in Nat
  BY LenProperties
<1>2. CASE Len(h) = RetainedEvents
  <2>1. h # <<>>
    BY <1>2
  <2>2. /\ Retained(h) = Tail(h) /\ Tail(h) \in Seq(S) /\ Len(Tail(h)) = Len(h) - 1
        /\ \A i \in 1..(Len(h) - 1) : Tail(h)[i] = h[i + 1]
    BY <1>2, <2>1, HeadTailProperties DEF Retained
  <2> QED
    BY <1>1, <1>2, <2>2
<1>3. CASE Len(h) # RetainedEvents
  BY <1>1, <1>3 DEF Retained
<1> QED
  BY <1>2, <1>3

(* The history goes on with the next event (session.go:558-575).           *)
LEMMA HistoryGoesOn ==
  ASSUME NEW S, NEW h \in Seq(S), NEW e \in S, NEW top \in Nat, Keeps(h, top),
         e.sequence = top + 1, RetainedEvents \in Nat \ {0}
  PROVE  Keeps(Append(Retained(h), e), top + 1)
<1> DEFINE q == Retained(h)
           m == Append(q, e)
<1>1. PICK d \in {0, 1} :
        /\ q \in Seq(S) /\ Len(q) = Len(h) - d
        /\ d = 1 <=> Len(h) = RetainedEvents
        /\ \A i \in 1..(Len(h) - d) : q[i] = h[i + d]
  BY RetainedIs DEF Keeps
<1> HIDE DEF q
<1>2. /\ Len(h) \in Nat /\ Len(q) \in Nat /\ Len(m) = Len(q) + 1
      /\ \A i \in 1..Len(q) : m[i] = q[i]
      /\ m[Len(q) + 1] = e
  BY <1>1, LenProperties, AppendProperties
<1> HIDE DEF m
<1>3. Len(m) <= RetainedEvents /\ (Len(m) < RetainedEvents => Len(m) = top + 1)
  BY <1>1, <1>2 DEF Keeps
<1>4. ASSUME NEW i \in 1..Len(m)
      PROVE  m[i].sequence = (top + 1) - Len(m) + i
  <2>1. CASE i = Len(q) + 1
    <3>1. (top + 1) - Len(m) + i = top + 1
      BY <1>2, <2>1
    <3> QED
      BY <1>2, <2>1, <3>1
  <2>2. CASE i \in 1..Len(q)
    <3>1. i \in 1..(Len(h) - d) /\ i + d \in 1..Len(h)
      BY <1>1, <1>2, <2>2
    <3>2. m[i] = h[i + d]
      BY <1>1, <1>2, <2>2, <3>1
    <3>3. h[i + d].sequence = top - Len(h) + (i + d)
      BY <3>1 DEF Keeps
    <3>4. top - Len(h) + (i + d) = (top + 1) - Len(m) + i
      <4>1. /\ Len(m) = Len(h) - d + 1 /\ Len(h) \in Int /\ Len(m) \in Int
            /\ d \in Int /\ i \in Int
        BY <1>1, <1>2
      <4> QED
        BY <4>1
    <3> QED
      BY <3>2, <3>3, <3>4
  <2> QED
    BY <1>2, <2>1, <2>2
<1> QED
  BY <1>3, <1>4 DEF Keeps, m, q

(* A subscriber is offered the next event (session.go:566-573).            *)
LEMMA OfferFollows ==
  ASSUME NEW s \in SubscriberType, NEW top \in Nat, Follows(s, top)
  PROVE  Follows(Offer(s, top + 1), top + 1)
<1>1. /\ s.channel \in Seq(Nat) /\ Len(s.channel) \in Nat /\ s.received \in Nat
      /\ s = [pc |-> s.pc, channel |-> s.channel, received |-> s.received]
  BY LenProperties DEF SubscriberType
<1>2. CASE s.pc # "open"
  BY <1>2 DEF Offer, Follows
<1>3. CASE s.pc = "open" /\ Len(s.channel) < EventBuffer
  <2> DEFINE c == Append(s.channel, top + 1)
             o == [s EXCEPT !.channel = c]
  <2>1. /\ Len(c) = Len(s.channel) + 1
        /\ \A i \in 1..Len(s.channel) : c[i] = s.channel[i]
        /\ c[Len(s.channel) + 1] = top + 1
    BY <1>1, AppendProperties
  <2> HIDE DEF c
  <2>2. o.channel = c /\ o.pc = "open" /\ o.received = s.received /\ Offer(s, top + 1) = o
    BY <1>1, <1>3 DEF Offer, c
  <2> HIDE DEF o
  <2>3. s.received + Len(s.channel) = top
    BY <1>3 DEF Follows
  <2>4. \A i \in 1..Len(c) : c[i] = s.received + i
    <3> SUFFICES ASSUME NEW i \in 1..Len(c)
                 PROVE  c[i] = s.received + i
      OBVIOUS
    <3>1. CASE i \in 1..Len(s.channel)
      BY <2>1, <3>1 DEF Follows
    <3>2. CASE i = Len(s.channel) + 1
      BY <1>1, <2>1, <2>3, <3>2
    <3> QED
      BY <1>1, <2>1, <3>1, <3>2
  <2> QED
    BY <1>1, <2>1, <2>2, <2>3, <2>4 DEF Follows
<1>4. CASE s.pc = "open" /\ ~(Len(s.channel) < EventBuffer)
  <2>1. Offer(s, top + 1) = [s EXCEPT !.pc = "closed"]
    BY <1>4 DEF Offer
  <2> QED
    BY <1>1, <2>1 DEF Follows
<1> QED
  BY <1>2, <1>3, <1>4

(* A step of the machine keeps what is delivered: it publishes, or ends    *)
(* the session, or leaves the events alone (session.go:436-493, 551-575).  *)
LEMMA MachineDelivers == TypeInv /\ EventsHold /\ MachineNext => EventsHold'
<1> SUFFICES ASSUME TypeInv, EventsHold, MachineNext
             PROVE  EventsHold'
  OBVIOUS
<1>t. /\ events \in EventsType /\ subscription \in [Subscribers -> SubscriberType]
      /\ events.sequence \in Nat /\ reader \in ReaderType /\ ReaderHolds
      /\ RetainedEvents \in Nat \ {0}
  BY SessionAssumption DEF TypeInv, TypeOK, EventsType
<1>1. CASE PublishEvent
  <2> DEFINE e == [sequence |-> events.sequence + 1, event |-> Head(reader.pending)]
             S == [sequence : Nat, event : Event]
  <2>1. e \in S /\ events.history \in Seq(S)
    <3>1. reader.pending \in Seq(Event) /\ reader.pending # <<>>
      BY <1>1, <1>t DEF PublishEvent, ReaderType, ReaderHolds
    <3>2. Head(reader.pending) \in Event
      BY <3>1, HeadTailProperties
    <3> QED
      BY <1>t, <3>2 DEF EventsType
  <2>2. /\ events'.sequence = events.sequence + 1
        /\ events'.history = Append(Retained(events.history), e)
        /\ subscription' = [s \in Subscribers |-> Offer(subscription[s], events.sequence + 1)]
    BY <1>1, <1>t DEF PublishEvent, EventsType
  <2>3. e.sequence = events.sequence + 1
    OBVIOUS
  <2> HIDE DEF e, S
  <2>4. Keeps(events'.history, events'.sequence)
    BY <1>t, <2>1, <2>2, <2>3, HistoryGoesOn DEF EventsHold
  <2>5. \A s \in Subscribers : Follows(subscription'[s], events'.sequence)
    BY <1>t, <2>2, OfferFollows DEF EventsHold
  <2> QED
    BY <2>4, <2>5 DEF EventsHold
<1>2. CASE Finish
  <2>1. /\ UNCHANGED events
        /\ \A s \in Subscribers :
             \/ subscription'[s] = [subscription[s] EXCEPT !.pc = "closed"]
             \/ subscription'[s] = subscription[s]
    BY <1>2 DEF Finish
  <2>2. \A s \in Subscribers : Follows(subscription'[s], events.sequence)
    <3> SUFFICES ASSUME NEW s \in Subscribers
                 PROVE  Follows(subscription'[s], events.sequence)
      OBVIOUS
    <3>1. Follows(subscription[s], events.sequence) /\ subscription[s] \in SubscriberType
      BY <1>t DEF EventsHold
    <3> QED
      BY <2>1, <3>1 DEF Follows, SubscriberType
  <2> QED
    BY <2>1, <2>2 DEF EventsHold
<1>3. CASE UNCHANGED subscription /\ events'.sequence = events.sequence
           /\ events'.history = events.history
  BY <1>3 DEF EventsHold
<1>4. ASSUME Read \/ SignalOutput \/ ApplyOutput \/ RecordOutput \/ SignalApplied
             \/ AnswerBegin \/ AnswerWrite \/ CloseEndedStream
      PROVE  UNCHANGED <<events, subscription>>
  BY <1>4 DEF Read, SignalOutput, ApplyOutput, RecordOutput, SignalApplied, AnswerBegin,
              AnswerWrite, CloseEndedStream, callers
<1>5. ASSUME DrainEvent
      PROVE  UNCHANGED subscription /\ events'.sequence = events.sequence
             /\ events'.history = events.history
  BY <1>5, <1>t DEF DrainEvent, EventsType, callers
<1>6. ASSUME MachineNext, ~ReaderNext
      PROVE  UNCHANGED <<events, subscription>>
  BY <1>6 DEF MachineNext, SendBegin, SendWrite, ResizeBegin, ResizeStream, ResizeNext,
     ResizeTerminal, ResizeRecorder, ResizeSignal, CloseBegin, CloseStream, CloseReturn, callers
<1> QED
  BY <1>1, <1>2, <1>3, <1>4, <1>5, <1>6 DEF ReaderNext

(* A step of a subscriber (session.go:335-362).                            *)
LEMMA SubscriberFollows ==
  ASSUME TypeInv, EventsHold, NEW s \in Subscribers,
         Subscribe(s) \/ Unsubscribe(s) \/ ReceiveEvent(s)
  PROVE  EventsHold'
<1>t. /\ subscription \in [Subscribers -> SubscriberType] /\ subscription[s] \in SubscriberType
      /\ events.sequence \in Nat /\ subscription[s].received \in Nat
      /\ subscription[s].channel \in Seq(Nat) /\ Len(subscription[s].channel) \in Nat
  BY LenProperties DEF TypeInv, TypeOK, EventsType, SubscriberType
<1>1. UNCHANGED events /\ \A u \in Subscribers \ {s} : subscription'[u] = subscription[u]
  BY <1>t DEF Subscribe, Unsubscribe, ReceiveEvent, machine
<1>2. Follows(subscription[s], events.sequence)
  BY DEF EventsHold
<1>3. CASE Subscribe(s)
  <2>1. /\ subscription'[s].channel = <<>> /\ subscription'[s].received = events.sequence
        /\ subscription'[s].pc \in {"open", "closed"}
    BY <1>2, <1>3, <1>t DEF Subscribe, Follows, SubscriberType
  <2> QED
    BY <1>1, <1>t, <2>1 DEF EventsHold, Follows
<1>4. CASE Unsubscribe(s)
  <2>1. Follows(subscription'[s], events.sequence)
    BY <1>2, <1>4, <1>t DEF Unsubscribe, Follows, SubscriberType
  <2> QED
    BY <1>1, <2>1 DEF EventsHold
<1>5. CASE ReceiveEvent(s)
  <2> DEFINE c == subscription[s].channel
             o == subscription'[s]
             r == subscription[s].received
  <2>1. /\ c # <<>> /\ o.channel = Tail(c) /\ o.received = Head(c) /\ o.pc = subscription[s].pc
    BY <1>5, <1>t DEF ReceiveEvent, SubscriberType
  <2>2. /\ Len(Tail(c)) = Len(c) - 1 /\ Head(c) = c[1] /\ Len(c) > 0
        /\ \A i \in 1..(Len(c) - 1) : Tail(c)[i] = c[i + 1]
    BY <1>t, <2>1, HeadTailProperties, EmptySeq
  <2>3. /\ c[1] = r + 1 /\ r \in Nat /\ Len(c) \in Nat
        /\ \A i \in 1..(Len(c) - 1) : c[i + 1] = r + (i + 1)
    BY <1>2, <1>t, <2>2 DEF Follows
  <2>4. subscription[s].pc # "idle"
    BY <1>2, <2>1 DEF Follows
  <2>5. subscription[s].pc = "open" => r + Len(c) = events.sequence
    BY <1>2 DEF Follows
  <2> HIDE DEF c, o, r
  <2>6. /\ \A i \in 1..Len(o.channel) : o.channel[i] = o.received + i
        /\ o.pc = "open" => o.received + Len(o.channel) = events.sequence
    <3>1. /\ o.received = r + 1 /\ o.channel = Tail(c) /\ Len(o.channel) = Len(c) - 1
          /\ o.pc = "open" => subscription[s].pc = "open"
          /\ \A i \in 1..(Len(c) - 1) : o.channel[i] = r + (i + 1)
      BY <2>1, <2>2, <2>3
    <3>2. \A i \in 1..(Len(c) - 1) : r + (i + 1) = (r + 1) + i
      BY <2>3
    <3>3. o.pc = "open" => o.received + Len(o.channel) = events.sequence
      BY <2>3, <2>5, <3>1
    <3> QED
      BY <3>1, <3>2, <3>3
  <2>7. Follows(o, events.sequence)
    BY <2>1, <2>4, <2>6 DEF Follows
  <2> QED
    BY <1>1, <2>7 DEF EventsHold, o
<1> QED
  BY <1>3, <1>4, <1>5

(* No step of the session opens a gap in its events.                      *)
LEMMA EventsStep == TypeInv /\ EventsHold /\ [Next]_vars => EventsHold'
<1> SUFFICES ASSUME TypeInv, EventsHold, [Next]_vars
             PROVE  EventsHold'
  OBVIOUS
<1>1. CASE MachineNext
  BY <1>1, MachineDelivers
<1>2. CASE \E s \in Subscribers : Subscribe(s) \/ Unsubscribe(s) \/ ReceiveEvent(s)
  BY <1>2, SubscriberFollows
<1>3. CASE UNCHANGED <<machine, subscription>>
  BY <1>3 DEF EventsHold, machine
<1> QED
  BY <1>1, <1>2, <1>3, StepKinds

-----------------------------------------------------------------------------
(* The enquiries in a history that have an answerback, and the answerbacks *)
(* the host has got in full.                                               *)
Enquiries(h) == {i \in DOMAIN h : NeedsAnswer(h[i].event)}
Answers(wire) == {i \in DOMAIN wire : wire[i] = <<Reader, SendLength>>}

(* The read loop is about to publish an enquiry it has answered.           *)
Due == IF reader.pc = "publish" /\ NeedsAnswer(Head(reader.pending)) THEN 1 ELSE 0

AnswersHold ==
  /\ reader.pc \in {"answer", "answering"} => NeedsAnswer(Head(reader.pending))
  /\ Cardinality(Enquiries(events.history)) + Due <= Cardinality(Answers(stream.wire))

(* A number is for an unsupported sequence, and which.                     *)
Reports(h, i, data) == h[i].event.type = "unsupported" /\ h[i].event.data = data

(* An unsupported sequence is tracked before it is published.              *)
UnsupportedHold ==
  /\ Len(events.unsupported) <= TrackedUnsupportedSequences
  /\ \A i, j \in 1..Len(events.history), data \in STRING :
       Reports(events.history, i, data) /\ Reports(events.history, j, data) => i = j
  /\ \A i \in 1..Len(events.history), data \in STRING :
       Reports(events.history, i, data) => Tracked(data)
  /\ reader.pc = "publish" /\ Head(reader.pending).type = "unsupported" =>
       /\ Tracked(Head(reader.pending).data)
       /\ \A i \in 1..Len(events.history) :
            ~Reports(events.history, i, Head(reader.pending).data)

(* An answerback that the host has got is not taken back, and the last     *)
(* byte of one completes it (session.go:102-114).                          *)
LEMMA AnswersGrow ==
  ASSUME NEW S, NEW wire \in Seq(S), NEW more \in Seq(S)
  PROVE  /\ Cardinality(Answers(wire)) \in Nat /\ Cardinality(Answers(wire \o more)) \in Nat
         /\ Cardinality(Answers(wire)) <= Cardinality(Answers(wire \o more))
         /\ more # <<>> /\ more[Len(more)] = <<Reader, SendLength>> =>
              Cardinality(Answers(wire)) + 1 <= Cardinality(Answers(wire \o more))
<1> DEFINE all == wire \o more
           last == Len(wire) + Len(more)
           old == Answers(wire)
           new == Answers(all)
<1>1. /\ all \in Seq(S) /\ DOMAIN all = 1..last /\ DOMAIN wire = 1..Len(wire)
      /\ Len(wire) \in Nat /\ Len(more) \in Nat /\ last \in Nat
      /\ \A i \in 1..last : all[i] = IF i <= Len(wire) THEN wire[i] ELSE more[i - Len(wire)]
  BY ConcatProperties, LenProperties
<1> HIDE DEF all, last
<1>2. IsFiniteSet(1..last) /\ new \in SUBSET (1..last)
  <2>1. 1 \in Int /\ last \in Int
    BY <1>1
  <2>2. new \in SUBSET (1..last)
    BY <1>1 DEF Answers
  <2> QED
    BY <2>1, <2>2, FS_Interval
<1>3. IsFiniteSet(new)
  BY <1>2, FS_Subset
<1>4. \A i \in 1..Len(wire) : i \in 1..last /\ all[i] = wire[i]
  BY <1>1 DEF last
<1>5. old \in SUBSET new
  BY <1>1, <1>4 DEF Answers
<1>6. IsFiniteSet(old) /\ Cardinality(old) \in Nat /\ Cardinality(new) \in Nat
      /\ Cardinality(old) <= Cardinality(new)
  BY <1>3, <1>5, FS_Subset, FS_CardinalityType
<1>7. ASSUME more # <<>>, more[Len(more)] = <<Reader, SendLength>>
      PROVE  Cardinality(old) + 1 <= Cardinality(new)
  <2>1. Len(more) > 0
    BY <1>7, EmptySeq
  <2>2. last \in 1..last /\ ~(last <= Len(wire)) /\ last - Len(wire) = Len(more)
    BY <1>1, <2>1 DEF last
  <2>3. all[last] = more[Len(more)]
    BY <1>1, <2>2
  <2>4. last \in new /\ last \notin old
    BY <1>1, <1>7, <2>2, <2>3 DEF Answers
  <2> HIDE DEF last, old, new
  <2>5. old \cup {last} \in SUBSET new
    BY <1>5, <2>4
  <2>6. Cardinality(old \cup {last}) = Cardinality(old) + 1
    BY <1>6, <2>4, FS_AddElement
  <2> QED
    BY <1>3, <2>5, <2>6, FS_Subset
<1> QED
  BY <1>6, <1>7 DEF all

(* The enquiries of a history can be counted (session.go:558-575).         *)
LEMMA EnquiriesTyped ==
  ASSUME NEW S, NEW h \in Seq(S)
  PROVE  IsFiniteSet(Enquiries(h)) /\ Cardinality(Enquiries(h)) \in Nat
<1>1. /\ Enquiries(h) \in SUBSET (1..Len(h)) /\ 1 \in Int /\ Len(h) \in Int
  BY LenProperties DEF Enquiries
<1> QED
  BY <1>1, FS_Interval, FS_Subset, FS_CardinalityType

(* A history has at most one more enquiry when an event joins it           *)
(* (session.go:558-575).                                                   *)
LEMMA EnquiriesGrow ==
  ASSUME NEW S, NEW h \in Seq(S), NEW e \in S, Len(h) <= RetainedEvents,
         RetainedEvents \in Nat \ {0}
  PROVE  /\ Cardinality(Enquiries(h)) \in Nat
         /\ Cardinality(Enquiries(Append(Retained(h), e))) \in Nat
         /\ Cardinality(Enquiries(Append(Retained(h), e)))
              <= Cardinality(Enquiries(h)) + (IF NeedsAnswer(e.event) THEN 1 ELSE 0)
<1> DEFINE q == Retained(h)
           m == Append(q, e)
           old == Enquiries(h)
           kept == Enquiries(q)
           new == Enquiries(m)
<1>1. PICK d \in {0, 1} :
        /\ q \in Seq(S) /\ Len(q) = Len(h) - d
        /\ \A i \in 1..(Len(h) - d) : q[i] = h[i + d]
  BY RetainedIs
<1> HIDE DEF q
<1>2. /\ DOMAIN h = 1..Len(h) /\ Len(h) \in Nat
      /\ DOMAIN q = 1..Len(q) /\ Len(q) \in Nat
      /\ DOMAIN m = 1..(Len(q) + 1)
      /\ \A i \in 1..Len(q) : m[i] = q[i]
      /\ m[Len(q) + 1] = e
  <2>1. m \in Seq(S) /\ Len(m) = Len(q) + 1
        /\ (\A i \in 1..Len(q) : m[i] = q[i]) /\ m[Len(q) + 1] = e
    BY <1>1, AppendProperties
  <2> HIDE DEF m
  <2> QED
    BY <1>1, <2>1, LenProperties
<1> HIDE DEF m
<1>e. /\ \A i : i \in old <=> i \in 1..Len(h) /\ NeedsAnswer(h[i].event)
      /\ \A i : i \in kept <=> i \in 1..Len(q) /\ NeedsAnswer(q[i].event)
      /\ \A i : i \in new <=> i \in 1..(Len(q) + 1) /\ NeedsAnswer(m[i].event)
  BY <1>2 DEF Enquiries
<1> HIDE DEF new, kept, old
<1>3. IsFiniteSet(old) /\ Cardinality(old) \in Nat
  BY EnquiriesTyped DEF old
<1>4. IsFiniteSet(kept) /\ Cardinality(kept) \in Nat /\ Cardinality(kept) <= Cardinality(old)
  <2> DEFINE f == [i \in kept |-> i + d]
  <2>1. \A i \in kept : i \in Nat /\ i + d \in old
    <3> SUFFICES ASSUME NEW i \in kept
                 PROVE  i \in Nat /\ i + d \in old
      OBVIOUS
    <3>1. i \in 1..Len(q) /\ NeedsAnswer(q[i].event)
      BY <1>e
    <3>2. i \in 1..(Len(h) - d) /\ i + d \in 1..Len(h)
      BY <1>1, <1>2, <3>1
    <3>3. q[i] = h[i + d]
      BY <1>1, <3>2
    <3> QED
      BY <1>e, <3>1, <3>2, <3>3
  <2>2. f \in [kept -> old] /\ \A i, j \in kept : f[i] = f[j] => i = j
    BY <2>1
  <2>3. f \in Injection(kept, old)
    BY <2>2 DEF Injection, IsInjective
  <2> HIDE DEF f
  <2> QED
    BY <1>3, <2>3, FS_Injection, FS_CardinalityType
<1>5. \A i \in new : i \in kept \/ (NeedsAnswer(e.event) /\ i = Len(q) + 1)
  <2> SUFFICES ASSUME NEW i \in new
               PROVE  i \in kept \/ (NeedsAnswer(e.event) /\ i = Len(q) + 1)
    OBVIOUS
  <2>1. i \in 1..(Len(q) + 1) /\ NeedsAnswer(m[i].event)
    BY <1>e
  <2>2. CASE i = Len(q) + 1
    BY <1>2, <2>1, <2>2
  <2>3. CASE i \in 1..Len(q)
    BY <1>2, <1>e, <2>1, <2>3
  <2> QED
    BY <1>2, <2>1, <2>2, <2>3
<1>6. CASE NeedsAnswer(e.event)
  <2>1. /\ IsFiniteSet(kept \cup {Len(q) + 1})
        /\ Cardinality(kept \cup {Len(q) + 1}) \in {Cardinality(kept), Cardinality(kept) + 1}
    BY <1>4, FS_AddElement
  <2>2. /\ new \in SUBSET (kept \cup {Len(q) + 1})
    BY <1>5, <1>6
  <2>3. IsFiniteSet(new) /\ Cardinality(new) <= Cardinality(kept \cup {Len(q) + 1})
    BY <2>1, <2>2, FS_Subset
  <2>4. Cardinality(new) \in Nat
    BY <2>3, FS_CardinalityType
  <2> QED
    BY <1>3, <1>4, <1>6, <2>1, <2>3, <2>4 DEF new, old, m, q
<1>7. CASE ~NeedsAnswer(e.event)
  <2>1. new \in SUBSET kept
    BY <1>5, <1>7
  <2>2. IsFiniteSet(new) /\ Cardinality(new) <= Cardinality(kept)
    BY <1>4, <2>1, FS_Subset
  <2>3. Cardinality(new) \in Nat
    BY <2>2, FS_CardinalityType
  <2> QED
    BY <1>3, <1>4, <1>7, <2>2, <2>3 DEF new, old, m, q
<1> QED
  BY <1>6, <1>7

(* Counting a sequence (session.go:540-556) forgets none, and one that is  *)
(* to be published is tracked from now on.                                 *)
LEMMA CountedTracks ==
  ASSUME events \in EventsType, NEW data \in STRING, TrackedUnsupportedSequences \in Nat,
         Len(events.unsupported) <= TrackedUnsupportedSequences
  PROVE  /\ Len(Counted(data)) <= TrackedUnsupportedSequences
         /\ \A d : Tracked(d) => \E i \in DOMAIN Counted(data) : Counted(data)[i].sequence = d
         /\ ToPublish(data) =>
              \E i \in DOMAIN Counted(data) : Counted(data)[i].sequence = data
<1> DEFINE S == [sequence : STRING, count : Nat]
           u == events.unsupported
<1>1. u \in Seq(S) /\ DOMAIN u = 1..Len(u) /\ Len(u) \in Nat
  BY LenProperties DEF EventsType
<1>2. CASE ToPublish(data)
  <2> DEFINE x == [sequence |-> data, count |-> 1]
             c == Append(u, x)
  <2>1. x \in S /\ x.sequence = data
    OBVIOUS
  <2> HIDE DEF S, x, u
  <2>2. /\ c \in Seq(S) /\ Len(c) = Len(u) + 1 /\ DOMAIN c = 1..(Len(u) + 1)
        /\ (\A i \in 1..Len(u) : c[i] = u[i]) /\ c[Len(u) + 1] = x
    BY <1>1, <2>1, AppendProperties, LenProperties
  <2>3. Counted(data) = c
    BY <1>2 DEF Counted, x, u
  <2> HIDE DEF c
  <2>4. Len(u) < TrackedUnsupportedSequences
    BY <1>2 DEF ToPublish, u
  <2>5. \A d : Tracked(d) => \E i \in DOMAIN c : c[i].sequence = d
    <3> SUFFICES ASSUME NEW d, NEW i \in 1..Len(u), u[i].sequence = d
                 PROVE  \E k \in DOMAIN c : c[k].sequence = d
      BY <1>1 DEF Tracked, u
    <3>1. i \in DOMAIN c /\ c[i] = u[i]
      BY <1>1, <2>2
    <3> QED
      BY <3>1
  <2>6. Len(u) + 1 \in DOMAIN c /\ c[Len(u) + 1].sequence = data
    BY <1>1, <2>1, <2>2
  <2> QED
    BY <1>1, <2>2, <2>3, <2>4, <2>5, <2>6
<1>3. CASE ~ToPublish(data)
  <2> DEFINE c == [i \in DOMAIN u |-> IF u[i].sequence = data
                                        THEN [u[i] EXCEPT !.count = u[i].count + 1] ELSE u[i]]
  <2>1. Counted(data) = c
    BY <1>3 DEF Counted
  <2>2. \A i \in 1..Len(u) : u[i] \in S
    BY <1>1, ElementOfSeq
  <2>3. \A i \in 1..Len(u) : c[i] \in S /\ c[i].sequence = u[i].sequence
    <3> SUFFICES ASSUME NEW i \in 1..Len(u)
                 PROVE  c[i] \in S /\ c[i].sequence = u[i].sequence
      OBVIOUS
    <3> DEFINE x == u[i]
               y == [x EXCEPT !.count = x.count + 1]
    <3>1. x \in S /\ c[i] = IF x.sequence = data THEN y ELSE x
      BY <1>1, <2>2
    <3> HIDE DEF x, c
    <3>2. y \in S /\ y.sequence = x.sequence
      BY <3>1
    <3> HIDE DEF y
    <3> QED
      BY <3>1, <3>2 DEF x
  <2>4. Len(c) = Len(u) /\ DOMAIN c = DOMAIN u
    <3>1. c \in [1..Len(u) -> S]
      BY <1>1, <2>3
    <3> HIDE DEF c, S, u
    <3>2. c \in Seq(S)
      BY <1>1, <3>1
    <3>3. DOMAIN c = 1..Len(u) /\ DOMAIN c = 1..Len(c) /\ Len(c) \in Nat
      BY <3>1, <3>2, LenProperties
    <3> QED
      BY <1>1, <3>3
  <2>5. \A d : Tracked(d) => \E i \in DOMAIN c : c[i].sequence = d
    BY <1>1, <2>3, <2>4 DEF Tracked
  <2> QED
    BY <1>3, <2>1, <2>4, <2>5
<1> QED
  BY <1>2, <1>3

(* What is answered is published after its answerback                      *)
(* (session.go:436-449).                                                   *)
LEMMA AnswersStep ==
  TypeInv /\ SendsHold /\ EventsHold /\ AnswersHold /\ [Next]_vars => AnswersHold'
<1> SUFFICES ASSUME TypeInv, SendsHold, EventsHold, AnswersHold, [Next]_vars
             PROVE  AnswersHold'
  OBVIOUS
<1> DEFINE B == Writers \X (1..SendLength)
           S == [sequence : Nat, event : Event]
           enquiries == Cardinality(Enquiries(events.history))
           answers == Cardinality(Answers(stream.wire))
<1>t. /\ TypeOK /\ reader \in ReaderType /\ send \in [Senders -> SenderType]
      /\ stream \in StreamType /\ events \in EventsType /\ ReaderHolds
      /\ stream.wire \in Seq(B) /\ events.history \in Seq(S)
      /\ Reader \in Writers /\ Reader \notin Senders /\ SendLength \in Nat \ {0}
      /\ RetainedEvents \in Nat \ {0} /\ events.sequence \in Nat
  BY SessionAssumption DEF TypeInv, TypeOK, StreamType, EventsType, Writers
<1> HIDE DEF B, S
<1>n. answers \in Nat /\ Due \in {0, 1} /\ enquiries + Due <= answers
  <2>1. answers \in Nat
    BY <1>t, AnswersGrow
  <2> QED
    BY <2>1 DEF AnswersHold, Due
<1>1. CASE PublishEvent
  <2> DEFINE e == [sequence |-> events.sequence + 1, event |-> Head(reader.pending)]
  <2>1. Head(reader.pending) \in Event
    BY <1>1, <1>t, HeadTailProperties DEF PublishEvent, ReaderType, ReaderHolds
  <2>2. e \in S /\ e.event = Head(reader.pending)
    BY <1>t, <2>1 DEF S
  <2>3. /\ events'.history = Append(Retained(events.history), e)
        /\ UNCHANGED stream /\ reader.pc = "publish" /\ reader'.pc = "drain"
    BY <1>1, <1>t DEF PublishEvent, EventsType, ReaderType
  <2> HIDE DEF e
  <2>4. Len(events.history) <= RetainedEvents
    BY DEF EventsHold, Keeps
  <2>5. /\ Cardinality(Enquiries(events'.history)) \in Nat /\ enquiries \in Nat
        /\ Cardinality(Enquiries(events'.history)) <= enquiries + Due
    BY <1>t, <2>2, <2>3, <2>4, EnquiriesGrow DEF Due
  <2>6. Cardinality(Enquiries(events'.history)) <= answers
    BY <1>n, <2>5
  <2>7. Due' = 0
    BY <2>3 DEF Due
  <2> QED
    BY <2>3, <2>5, <2>6, <2>7 DEF AnswersHold
<1>2. ASSUME events'.history = events.history, NEW more \in Seq(B),
             stream'.wire = stream.wire \o more,
             reader'.pc \in {"answer", "answering"} => NeedsAnswer(Head(reader'.pending)),
             \/ Due' <= Due
             \/ Due = 0 /\ more # <<>> /\ more[Len(more)] = <<Reader, SendLength>>
      PROVE  AnswersHold'
  <2>1. /\ Cardinality(Answers(stream'.wire)) \in Nat
        /\ answers <= Cardinality(Answers(stream'.wire))
        /\ more # <<>> /\ more[Len(more)] = <<Reader, SendLength>> =>
             answers + 1 <= Cardinality(Answers(stream'.wire))
    BY <1>2, <1>t, AnswersGrow
  <2>2. Due' \in {0, 1}
    BY DEF Due
  <2>3. enquiries \in Nat
    BY <1>t, EnquiriesTyped
  <2> HIDE DEF answers, enquiries
  <2>4. enquiries + Due' <= Cardinality(Answers(stream'.wire))
    BY <1>2, <1>n, <2>1, <2>2, <2>3
  <2> QED
    BY <1>2, <2>4 DEF AnswersHold, enquiries
<1>3. ASSUME events'.history = events.history, stream'.wire = stream.wire, Due' <= Due,
             reader'.pc \in {"answer", "answering"} => NeedsAnswer(Head(reader'.pending))
      PROVE  AnswersHold'
  <2>1. <<>> \in Seq(B) /\ stream.wire \o <<>> = stream.wire
    BY <1>t, ConcatEmptySeq, EmptySeq
  <2> QED
    BY <1>2, <1>3, <2>1
<1>4. CASE Read \/ SignalOutput \/ ApplyOutput \/ RecordOutput \/ SignalApplied
           \/ CloseEndedStream \/ Finish
  <2>1. reader'.pc \notin {"publish", "answer", "answering"}
    <3>1. CASE Read
      BY <1>t, <3>1 DEF Read, NextTurn, ReaderType
    <3>2. CASE SignalOutput \/ ApplyOutput \/ RecordOutput \/ SignalApplied
      BY <1>t, <3>2 DEF SignalOutput, ApplyOutput, RecordOutput, SignalApplied, ReaderType
    <3>3. CASE CloseEndedStream
      BY <1>t, <3>3 DEF CloseEndedStream, ReaderType
    <3>4. CASE Finish
      BY <1>t, <3>4 DEF Finish, ReaderType
    <3> QED
      BY <1>4, <3>1, <3>2, <3>3, <3>4
  <2>2. UNCHANGED events /\ stream'.wire = stream.wire
    BY <1>4, <1>t DEF Read, SignalOutput, ApplyOutput, RecordOutput, SignalApplied,
       CloseEndedStream, Finish, StreamType
  <2>3. Due' = 0
    BY <2>1 DEF Due
  <2> QED
    BY <1>3, <1>n, <2>1, <2>2, <2>3
<1>5. CASE DrainEvent
  <2>1. events'.history = events.history /\ UNCHANGED stream
    BY <1>5, <1>t DEF DrainEvent, EventsType
  <2>2. /\ reader'.pc = "answer" => NeedsAnswer(Head(reader'.pending))
        /\ reader'.pc = "publish" => ~NeedsAnswer(Head(reader'.pending))
        /\ reader'.pc # "answering"
    <3>1. CASE reader' = NextTurn(reader, reader.readErr)
      BY <1>t, <3>1 DEF NextTurn, ReaderType
    <3>2. CASE /\ Head(reader.pending).type # "unsupported"
               /\ reader' = [reader EXCEPT !.pc = IF NeedsAnswer(Head(reader.pending))
                                                    THEN "answer" ELSE "publish"]
      BY <1>t, <3>2 DEF ReaderType
    <3>3. CASE /\ Head(reader.pending).type = "unsupported" /\ reader.pc = "drain"
               /\ \/ reader' = [reader EXCEPT !.pc = "publish"]
                  \/ reader' = [reader EXCEPT !.pending = Tail(reader.pending)]
      BY <1>t, <3>3 DEF ReaderType, NeedsAnswer
    <3> QED
      BY <1>5, <3>1, <3>2, <3>3 DEF DrainEvent
  <2>3. Due' = 0
    BY <2>2 DEF Due
  <2> QED
    BY <1>3, <1>n, <2>1, <2>2, <2>3
<1>6. CASE AnswerBegin
  <2>1. UNCHANGED <<events, stream>> /\ Due' = 0
    BY <1>6, <1>t DEF AnswerBegin, AnswerFailed, ReaderType, Due
  <2>2. reader'.pc \in {"answer", "answering"} => NeedsAnswer(Head(reader'.pending))
    BY <1>6, <1>t DEF AnswerBegin, AnswerFailed, ReaderType, AnswersHold
  <2> QED
    BY <1>3, <1>n, <2>1, <2>2
<1>7. CASE AnswerWrite
  <2>0. UNCHANGED events /\ Due = 0 /\ NeedsAnswer(Head(reader.pending)) /\ Writing(Reader)
        /\ Sent(Reader) = reader.sent /\ reader.sent \in 0..(SendLength - 1)
    BY <1>7, <1>t DEF AnswerWrite, Due, AnswersHold, Writing, Sent, ReaderType
  <2>1. CASE reader' = AnswerFailed /\ UNCHANGED stream
    <3>1. reader'.pc = "closeStream" /\ Due' = 0
      BY <1>t, <2>1 DEF AnswerFailed, ReaderType, Due
    <3> QED
      BY <1>3, <1>n, <2>0, <2>1, <3>1
  <2>2. ASSUME NEW to \in (reader.sent + 1)..SendLength,
               stream' = [stream EXCEPT !.wire =
                            stream.wire \o InputBytes(Reader, reader.sent + 1, to)],
               reader' = IF to = SendLength THEN [reader EXCEPT !.pc = "publish", !.sent = 0]
                                            ELSE [reader EXCEPT !.sent = to]
        PROVE  AnswersHold'
    <3> DEFINE more == InputBytes(Reader, reader.sent + 1, to)
    <3>1. stream'.wire = stream.wire \o more /\ reader'.pending = reader.pending
      BY <1>t, <2>2 DEF StreamType, ReaderType
    <3>2. more \in Seq(B) /\ more # <<>> /\ more[Len(more)] = <<Reader, to>>
      <4>1. reader.sent + 1 \in 1..SendLength /\ to - (reader.sent + 1) + 1 = to - reader.sent
            /\ to - reader.sent \in Nat \ {0} /\ reader.sent \in Nat /\ to \in Nat
        BY <1>t, <2>0, <2>2
      <4>2. more \in Seq(B)
        BY <1>t, <2>2, <4>1, InputTyped DEF Writers, B
      <4>3. more = [i \in 1..(to - reader.sent) |-> <<Reader, reader.sent + 1 + i - 1>>]
        BY <4>1 DEF InputBytes
      <4> HIDE DEF more
      <4>4. Len(more) = to - reader.sent
        <5> DEFINE d == to - reader.sent
        <5>1. d \in Nat /\ DOMAIN more = 1..d
          BY <4>1, <4>3
        <5>2. DOMAIN more = 1..Len(more) /\ Len(more) \in Nat
          BY <4>2, LenProperties
        <5> HIDE DEF d
        <5>3. Len(more) = d
          BY <5>1, <5>2
        <5> QED
          BY <5>3 DEF d
      <4>5. Len(more) \in 1..(to - reader.sent) /\ reader.sent + 1 + Len(more) - 1 = to
        <5> DEFINE n == Len(more)
                   k == reader.sent
        <5>1. n = to - k /\ k \in Nat /\ to \in Nat /\ to - k \in Nat \ {0}
          BY <4>1, <4>4
        <5> HIDE DEF n, k
        <5>2. n \in 1..(to - k) /\ k + 1 + n - 1 = to
          BY <5>1
        <5> QED
          BY <5>2 DEF n, k
      <4>6. more[Len(more)] = <<Reader, to>>
        BY <4>3, <4>5
      <4>7. more # <<>>
        BY <4>2, <4>5, EmptySeq
      <4> QED
        BY <4>2, <4>6, <4>7
    <3>3. \/ to = SendLength \/ Due' = 0
      <4>1. reader.pc = "answering"
        BY <2>0 DEF Writing
      <4>2. to = SendLength \/ reader'.pc = "answering"
        BY <1>t, <2>2, <4>1 DEF ReaderType
      <4> QED
        BY <4>2 DEF Due
    <3> HIDE DEF more
    <3>4. events'.history = events.history /\ NeedsAnswer(Head(reader'.pending))
      BY <2>0, <3>1
    <3>5. \/ Due' <= Due
          \/ Due = 0 /\ more # <<>> /\ more[Len(more)] = <<Reader, SendLength>>
      BY <2>0, <3>2, <3>3
    <3> QED
      BY <1>2, <3>1, <3>2, <3>4, <3>5
  <2> QED
    BY <1>7, <2>1, <2>2 DEF AnswerWrite
<1>8. CASE \E s \in Senders : SendBegin(s) \/ SendWrite(s)
  <2> PICK s \in Senders : SendBegin(s) \/ SendWrite(s)
    BY <1>8
  <2>0. UNCHANGED <<reader, events>> /\ Due' = Due
    BY DEF SendBegin, SendWrite, Due
  <2>1. CASE stream'.wire = stream.wire
    BY <1>3, <1>n, <2>0, <2>1 DEF AnswersHold
  <2>2. ASSUME NEW to \in (send[s].sent + 1)..SendLength,
               stream' = [stream EXCEPT !.wire =
                            stream.wire \o InputBytes(s, send[s].sent + 1, to)]
        PROVE  AnswersHold'
    <3> DEFINE more == InputBytes(s, send[s].sent + 1, to)
    <3>1. stream'.wire = stream.wire \o more
      BY <1>t, <2>2 DEF StreamType
    <3>2. more \in Seq(B)
      <4>1. send[s] \in SenderType
        BY <1>t
      <4>2. send[s].sent + 1 \in 1..SendLength
        BY <1>t, <2>2, <4>1 DEF SenderType
      <4> QED
        BY <1>t, <2>2, <4>2, InputTyped DEF Writers, B
    <3> HIDE DEF more
    <3> QED
      BY <1>2, <1>n, <2>0, <3>1, <3>2 DEF AnswersHold
  <2> QED
    BY <1>t, <2>1, <2>2 DEF SendBegin, SendWrite
<1>9. CASE UNCHANGED <<reader, events>> /\ stream'.wire = stream.wire
  BY <1>3, <1>9, <1>n DEF AnswersHold, Due
<1>10. ASSUME NEW r \in Resizers, ResizeBegin(r) \/ ResizeStream(r) \/ ResizeNext(r)
       PROVE  UNCHANGED <<reader, events>> /\ stream'.wire = stream.wire
  BY <1>10, <1>t DEF ResizeBegin, ResizeStream, ResizeNext, ResizeTerminal, ResizeRecorder,
                     ResizeSignal, StreamType
<1>11. ASSUME NEW c \in Closers, CloseBegin(c) \/ CloseStream(c) \/ CloseReturn(c)
       PROVE  UNCHANGED <<reader, events>> /\ stream'.wire = stream.wire
  BY <1>11, <1>t DEF CloseBegin, CloseStream, CloseReturn, StreamType
<1>12. UNCHANGED machine => UNCHANGED <<reader, events>> /\ stream'.wire = stream.wire
  BY DEF machine
<1> QED
  BY <1>1, <1>4, <1>5, <1>6, <1>7, <1>8, <1>9, <1>10, <1>11, <1>12, StepKinds
  DEF MachineNext, ReaderNext

(* A report that joins a history with none of its sequence is the only one *)
(* (session.go:551-575).                                                   *)
LEMMA ReportsKept ==
  ASSUME NEW S, NEW h \in Seq(S), NEW e \in S, Len(h) <= RetainedEvents,
         RetainedEvents \in Nat \ {0},
         \A i, j \in 1..Len(h), data \in STRING :
           Reports(h, i, data) /\ Reports(h, j, data) => i = j,
         e.event.type = "unsupported" => \A i \in 1..Len(h) : ~Reports(h, i, e.event.data),
         NEW m, m = Append(Retained(h), e)
  PROVE  /\ \A i, j \in 1..Len(m), data \in STRING :
              Reports(m, i, data) /\ Reports(m, j, data) => i = j
         /\ \A i \in 1..Len(m), data \in STRING : Reports(m, i, data) =>
              \/ \E k \in 1..Len(h) : Reports(h, k, data)
              \/ e.event.type = "unsupported" /\ e.event.data = data
<1> DEFINE q == Retained(h)
<1>1. PICK d \in {0, 1} :
        /\ q \in Seq(S) /\ Len(q) = Len(h) - d
        /\ \A i \in 1..(Len(h) - d) : q[i] = h[i + d]
  BY RetainedIs
<1> HIDE DEF q
<1>2. /\ Len(h) \in Nat /\ Len(q) \in Nat /\ Len(m) = Len(q) + 1
      /\ \A i \in 1..Len(q) : m[i] = q[i]
      /\ m[Len(q) + 1] = e
  BY <1>1, LenProperties, AppendProperties DEF q
<1>3. ASSUME NEW i \in 1..Len(m)
      PROVE  \/ i + d \in 1..Len(h) /\ m[i] = h[i + d]
             \/ i = Len(q) + 1 /\ m[i] = e
  <2>1. CASE i \in 1..Len(q)
    <3>1. i \in 1..(Len(h) - d) /\ i + d \in 1..Len(h)
      BY <1>1, <1>2, <2>1
    <3> QED
      BY <1>1, <1>2, <2>1, <3>1
  <2>2. CASE i = Len(q) + 1
    BY <1>2, <2>2
  <2> QED
    BY <1>2, <2>1, <2>2
<1>4. ASSUME NEW i \in 1..Len(m), NEW data \in STRING, Reports(m, i, data)
      PROVE  \/ i + d \in 1..Len(h) /\ Reports(h, i + d, data)
             \/ /\ i = Len(q) + 1 /\ e.event.type = "unsupported" /\ e.event.data = data
                /\ \A k \in 1..Len(h) : ~Reports(h, k, data)
  BY <1>3, <1>4 DEF Reports
<1>5. ASSUME NEW i \in 1..Len(m), NEW j \in 1..Len(m), NEW data \in STRING,
             Reports(m, i, data), Reports(m, j, data)
      PROVE  i = j
  <2>1. CASE i + d \in 1..Len(h) /\ Reports(h, i + d, data)
    <3>1. j + d \in 1..Len(h) /\ Reports(h, j + d, data)
      BY <1>4, <1>5, <2>1
    <3>2. i + d = j + d
      BY <1>5, <2>1, <3>1
    <3>3. i \in Int /\ j \in Int /\ d \in Int
      OBVIOUS
    <3> QED
      BY <3>2, <3>3
  <2>2. CASE /\ i = Len(q) + 1
             /\ \A k \in 1..Len(h) : ~Reports(h, k, data)
    BY <1>4, <1>5, <2>2
  <2> QED
    BY <1>4, <1>5, <2>1, <2>2
<1>6. ASSUME NEW i \in 1..Len(m), NEW data \in STRING, Reports(m, i, data)
      PROVE  \/ \E k \in 1..Len(h) : Reports(h, k, data)
             \/ e.event.type = "unsupported" /\ e.event.data = data
  BY <1>4, <1>6
<1> QED
  BY <1>5, <1>6

(* An unsupported sequence is tracked first and reported then, once        *)
(* (session.go:442-448, 540-556).                                          *)
LEMMA UnsupportedStep ==
  TypeInv /\ EventsHold /\ AnswersHold /\ UnsupportedHold /\ [Next]_vars => UnsupportedHold'
<1> SUFFICES ASSUME TypeInv, EventsHold, AnswersHold, UnsupportedHold, [Next]_vars
             PROVE  UnsupportedHold'
  OBVIOUS
<1> DEFINE S == [sequence : Nat, event : Event]
<1>t. /\ reader \in ReaderType /\ events \in EventsType /\ ReaderHolds
      /\ events.history \in Seq(S) /\ events.sequence \in Nat
      /\ Len(events.history) <= RetainedEvents /\ RetainedEvents \in Nat \ {0}
      /\ TrackedUnsupportedSequences \in Nat
  BY SessionAssumption DEF TypeInv, TypeOK, EventsType, EventsHold, Keeps
<1> HIDE DEF S
<1>e. ASSUME reader.pending # <<>>
      PROVE  Head(reader.pending) \in Event /\ Head(reader.pending).data \in STRING
  <2>1. Head(reader.pending) \in Event
    BY <1>e, <1>t, HeadTailProperties DEF ReaderType
  <2> QED
    BY <2>1 DEF Event
<1>1. CASE PublishEvent
  <2> DEFINE x == Head(reader.pending)
             e == [sequence |-> events.sequence + 1, event |-> x]
             h == events.history
             m == events'.history
  <2>1. x \in Event /\ x.data \in STRING /\ reader.pc = "publish"
    BY <1>1, <1>e, <1>t DEF PublishEvent, ReaderHolds
  <2>2. e \in S /\ e.event = x
    BY <1>t, <2>1 DEF S
  <2>3. /\ m = Append(Retained(h), e) /\ events'.unsupported = events.unsupported
        /\ reader'.pc = "drain"
    BY <1>1, <1>t DEF PublishEvent, EventsType, ReaderType
  <2>4. x.type = "unsupported" =>
          Tracked(x.data) /\ \A i \in 1..Len(h) : ~Reports(h, i, x.data)
    BY <2>1 DEF UnsupportedHold
  <2>5. \A i, j \in 1..Len(h), data \in STRING :
          Reports(h, i, data) /\ Reports(h, j, data) => i = j
    BY DEF UnsupportedHold
  <2>6. \A i \in 1..Len(h), data \in STRING : Reports(h, i, data) => Tracked(data)
    BY DEF UnsupportedHold
  <2> HIDE DEF x, e, h, m
  <2>7. /\ \A i, j \in 1..Len(m), data \in STRING :
             Reports(m, i, data) /\ Reports(m, j, data) => i = j
        /\ \A i \in 1..Len(m), data \in STRING : Reports(m, i, data) =>
             \/ \E k \in 1..Len(h) : Reports(h, k, data)
             \/ x.type = "unsupported" /\ x.data = data
    <3>1. h \in Seq(S) /\ Len(h) <= RetainedEvents
      BY <1>t DEF h
    <3>2. e.event.type = "unsupported" => \A i \in 1..Len(h) : ~Reports(h, i, e.event.data)
      BY <2>2, <2>4
    <3>3. /\ \A i, j \in 1..Len(m), data \in STRING :
               Reports(m, i, data) /\ Reports(m, j, data) => i = j
          /\ \A i \in 1..Len(m), data \in STRING : Reports(m, i, data) =>
               \/ \E k \in 1..Len(h) : Reports(h, k, data)
               \/ e.event.type = "unsupported" /\ e.event.data = data
      <4>1. e \in S /\ RetainedEvents \in Nat \ {0} /\ m = Append(Retained(h), e)
        BY <1>t, <2>2, <2>3
      <4> QED
        BY <2>5, <3>1, <3>2, <4>1, ReportsKept, ZenonT(40)
    <3> QED
      BY <2>2, <3>3
  <2>8. \A i \in 1..Len(m), data \in STRING : Reports(m, i, data) => Tracked(data)
    BY <2>4, <2>6, <2>7
  <2>9. \A data : Tracked(data)' <=> Tracked(data)
    BY <2>3 DEF Tracked
  <2> QED
    BY <2>3, <2>7, <2>8, <2>9 DEF UnsupportedHold, m
<1>2. ASSUME events'.unsupported = events.unsupported, events'.history = events.history,
             \/ reader'.pc # "publish"
             \/ Head(reader'.pending).type # "unsupported"
             \/ reader' = reader
      PROVE  UnsupportedHold'
  <2>1. \A data : Tracked(data)' <=> Tracked(data)
    BY <1>2 DEF Tracked
  <2> QED
    BY <1>2, <2>1 DEF UnsupportedHold
<1>3. CASE DrainEvent
  <2>1. CASE UNCHANGED events /\ reader' = NextTurn(reader, reader.readErr)
    <3>1. reader'.pc # "publish"
      BY <1>t, <2>1 DEF NextTurn, ReaderType
    <3> QED
      BY <1>2, <2>1, <3>1
  <2>2. CASE UNCHANGED events /\ Head(reader.pending).type # "unsupported"
             /\ reader' = [reader EXCEPT !.pc = IF NeedsAnswer(Head(reader.pending))
                                                  THEN "answer" ELSE "publish"]
    <3>1. reader'.pending = reader.pending
      BY <1>t, <2>2 DEF ReaderType
    <3> QED
      BY <1>2, <2>2, <3>1
  <2>3. CASE /\ reader.pending # <<>> /\ reader.pc = "drain"
             /\ reader' = IF ToPublish(Head(reader.pending).data)
                            THEN [reader EXCEPT !.pc = "publish"]
                            ELSE [reader EXCEPT !.pending = Tail(reader.pending)]
             /\ events' = [events EXCEPT !.unsupported = Counted(Head(reader.pending).data)]
    <3> DEFINE h == events.history
    <3>1. PICK d \in STRING : d = Head(reader.pending).data
      BY <1>e, <2>3
    <3>2. /\ events'.history = h /\ events'.unsupported = Counted(d)
          /\ reader'.pc = "publish" => ToPublish(d) /\ reader'.pending = reader.pending
      BY <1>t, <2>3, <3>1 DEF EventsType, ReaderType
    <3>3. Len(events.unsupported) <= TrackedUnsupportedSequences
      BY DEF UnsupportedHold
    <3>4. \A i \in 1..Len(h) : ToPublish(d) => ~Reports(h, i, d)
      BY <3>1 DEF UnsupportedHold, ToPublish
    <3>5. /\ \A i, j \in 1..Len(h), data \in STRING :
               Reports(h, i, data) /\ Reports(h, j, data) => i = j
          /\ \A i \in 1..Len(h), data \in STRING : Reports(h, i, data) => Tracked(data)
      BY DEF UnsupportedHold
    <3> HIDE DEF h
    <3>6. /\ Len(Counted(d)) <= TrackedUnsupportedSequences
          /\ \A x : Tracked(x) => \E i \in DOMAIN Counted(d) : Counted(d)[i].sequence = x
          /\ ToPublish(d) => \E i \in DOMAIN Counted(d) : Counted(d)[i].sequence = d
      BY <1>t, <3>1, <3>3, CountedTracks
    <3>7. /\ \A x : Tracked(x) => Tracked(x)'
          /\ ToPublish(d) => Tracked(d)'
      <4>1. \A x : Tracked(x)' <=>
                     \E i \in DOMAIN Counted(d) : Counted(d)[i].sequence = x
        BY <3>2 DEF Tracked
      <4> QED
        BY <3>6, <4>1
    <3>8. reader'.pc = "publish" =>
            /\ d = Head(reader'.pending).data /\ Tracked(d)'
            /\ \A i \in 1..Len(h) : ~Reports(h, i, d)
      BY <3>1, <3>2, <3>4, <3>7
    <3> QED
      BY <3>2, <3>5, <3>6, <3>7, <3>8 DEF UnsupportedHold, h
  <2> QED
    BY <1>3, <2>1, <2>2, <2>3 DEF DrainEvent
<1>4. CASE AnswerWrite
  <2>1. UNCHANGED events /\ NeedsAnswer(Head(reader.pending))
    BY <1>4 DEF AnswerWrite, AnswersHold
  <2>2. reader'.pending = reader.pending
    BY <1>4, <1>t DEF AnswerWrite, AnswerFailed, ReaderType
  <2>3. Head(reader'.pending).type # "unsupported"
    BY <2>1, <2>2 DEF NeedsAnswer
  <2> QED
    BY <1>2, <2>1, <2>3
<1>5. CASE Read \/ SignalOutput \/ ApplyOutput \/ RecordOutput \/ SignalApplied
           \/ AnswerBegin \/ CloseEndedStream \/ Finish
  <2>1. reader'.pc # "publish"
    <3>1. CASE Read
      BY <1>t, <3>1 DEF Read, NextTurn, ReaderType
    <3>2. CASE SignalOutput \/ ApplyOutput \/ RecordOutput \/ SignalApplied
      BY <1>t, <3>2 DEF SignalOutput, ApplyOutput, RecordOutput, SignalApplied, ReaderType
    <3>3. CASE AnswerBegin
      BY <1>t, <3>3 DEF AnswerBegin, AnswerFailed, ReaderType
    <3>4. CASE CloseEndedStream \/ Finish
      BY <1>t, <3>4 DEF CloseEndedStream, Finish, ReaderType
    <3> QED
      BY <1>5, <3>1, <3>2, <3>3, <3>4
  <2>2. UNCHANGED events
    BY <1>5 DEF Read, SignalOutput, ApplyOutput, RecordOutput, SignalApplied, AnswerBegin,
       CloseEndedStream, Finish
  <2> QED
    BY <1>2, <2>1, <2>2
<1>6. CASE UNCHANGED <<reader, events>>
  BY <1>2, <1>6
<1>7. ASSUME MachineNext, ~ReaderNext
      PROVE  UNCHANGED <<reader, events>>
  BY <1>7 DEF MachineNext, SendBegin, SendWrite, ResizeBegin, ResizeStream, ResizeNext,
     ResizeTerminal, ResizeRecorder, ResizeSignal, CloseBegin, CloseStream, CloseReturn
<1>8. UNCHANGED machine => UNCHANGED <<reader, events>>
  BY DEF machine
<1> QED
  BY <1>1, <1>3, <1>4, <1>5, <1>6, <1>7, <1>8, StepKinds DEF ReaderNext

-----------------------------------------------------------------------------
(* Traffic holds in every state of the session.                            *)
Traffic == SendsHold /\ EventsHold /\ AnswersHold /\ UnsupportedHold

(* Nothing has been sent or published in a new session                     *)
(* (session.go:60-73).                                                     *)
LEMMA InitTraffic == Init => Traffic
<1> SUFFICES ASSUME Init PROVE Traffic
  OBVIOUS
<1>1. /\ events.history = <<>> /\ events.sequence = 0 /\ events.unsupported = <<>>
      /\ stream.wire = <<>> /\ reader.pc = "read"
      /\ \A s \in Subscribers : subscription[s] = [pc |-> "idle", channel |-> <<>>, received |-> 0]
      /\ RetainedEvents \in Nat \ {0} /\ TrackedUnsupportedSequences \in Nat
  BY SessionAssumption DEF Init
<1>2. EventsHold
  BY <1>1 DEF EventsHold, Follows, Keeps
<1>3. UnsupportedHold
  BY <1>1 DEF UnsupportedHold
<1>4. AnswersHold
  <2>1. Enquiries(events.history) = {} /\ Answers(stream.wire) = {} /\ Due = 0
    BY <1>1 DEF Enquiries, Answers, Due
  <2>2. Cardinality(Enquiries(events.history)) = 0 /\ Cardinality(Answers(stream.wire)) = 0
    BY <2>1, FS_EmptySet
  <2> QED
    BY <1>1, <2>1, <2>2 DEF AnswersHold
<1> QED
  BY <1>2, <1>3, <1>4, InitSends DEF Traffic

(* The invariants of the traffic hold in every state.                     *)
LEMMA TrafficHolds == Spec => [](TypeInv /\ Traffic)
<1>1. Init => TypeInv /\ Traffic
  BY InitTyped, InitTraffic
<1>2. TypeInv /\ Traffic /\ [Next]_vars => TypeInv' /\ Traffic'
  BY NextTyped, SendStep, EventsStep, AnswersStep, UnsupportedStep DEF Traffic
<1> QED
  BY <1>1, <1>2, PTL DEF Spec

(* Inputs of any number of concurrent sends, and the answerbacks, reach    *)
(* the host in one piece each, but for what was cut off                    *)
(* (session.go:89-114).                                                    *)
THEOREM InputsInOnePiece == Spec => []SendsNotInterleaved
<1>1. Traffic => SendsNotInterleaved
  BY DEF Traffic, SendsHold
<1> QED
  BY <1>1, TrafficHolds, PTL

(* No event is missing, in the channel of any subscriber or in the history *)
(* (session.go:334-380, 558-575).                                          *)
THEOREM EventsReachSubscribers == Spec => []EventsDelivered
<1>1. Traffic => EventsDelivered
  BY DEF Traffic, EventsHold, Follows, Keeps, EventsDelivered, EventsContiguous,
         HistoryContiguous
<1> QED
  BY <1>1, TrafficHolds, PTL

(* An enquiry is published after its answerback, and an unsupported        *)
(* sequence once (session.go:418-473, 540-556).                            *)
THEOREM PublishedInTime == Spec => []PublishedWhenDue
<1>1. TypeInv /\ Traffic => PublishedWhenDue
  <2> SUFFICES ASSUME TypeInv, Traffic PROVE PublishedWhenDue
    OBVIOUS
  <2> DEFINE S == [sequence : Nat, event : Event]
             h == events.history
             B == Writers \X (1..SendLength)
  <2>1. /\ h \in Seq(S) /\ DOMAIN h = 1..Len(h) /\ stream.wire \in Seq(B)
        /\ AnswersHold /\ UnsupportedHold
    BY LenProperties DEF TypeInv, TypeOK, EventsType, StreamType, Traffic, Writers
  <2>2. AnsweredBeforePublished
    <3>1. AnsweredBeforePublished <=>
            Cardinality(Enquiries(events.history)) <= Cardinality(Answers(stream.wire))
      BY DEF AnsweredBeforePublished, Enquiries, Answers, NeedsAnswer
    <3>2. /\ Cardinality(Enquiries(events.history)) \in Nat
          /\ Cardinality(Answers(stream.wire)) \in Nat
      <4> HIDE DEF S, B
      <4>1. <<>> \in Seq(B)
        BY EmptySeq
      <4> QED
        BY <2>1, <4>1, EnquiriesTyped, AnswersGrow
    <3>3. Due \in {0, 1}
      BY DEF Due
    <3> QED
      BY <2>1, <3>1, <3>2, <3>3 DEF AnswersHold
  <2>3. UnsupportedPublishedOnce
    <3>1. ASSUME NEW i \in DOMAIN h
          PROVE  i \in 1..Len(h) /\ h[i].event.data \in STRING
      <4>1. h[i] \in S
        BY <2>1, <3>1, ElementOfSeq
      <4> QED
        BY <2>1, <4>1 DEF Event
    <3> QED
      BY <2>1, <3>1 DEF UnsupportedPublishedOnce, UnsupportedHold, Reports
  <2> QED
    BY <2>2, <2>3 DEF PublishedWhenDue
<1> QED
  BY <1>1, TrafficHolds, PTL

-----------------------------------------------------------------------------
(* No wake-up of a wait is lost, the end of a session is settled, and      *)
(* observers are given newer and newer screens up to the last.             *)
(*                                                                         *)
(* A step of the machine leaves the callers alone, and Advances is all the *)
(* callers need to know of it: revisions and channel numbers grow, a new   *)
(* revision leaves a signal due, and a due signal goes away only by being  *)
(* given.  Ended and WaitsHold are preserved by the machine because it     *)
(* Advances, and a step of a waiter reads the machine as it is;            *)
(* ScreensHold is preserved for the same two reasons.                      *)

(* The end of a session (session.go:394-414, 462-493): the read loop has   *)
(* stopped and closed the stream, a Close that returned saw it, and the    *)
(* terminal still shows the last screen of the host or a later one.        *)
Ended ==
  /\ session.done => reader.pc = "stopped" /\ history.finalRevision <= terminal.revision
  /\ reader.pc \in {"finish", "stopped"} => ~stream.open
  /\ session.once = "done" => session.done
  /\ \A c \in Closers : close[c] = "returned" => session.done

(* What a waiter knows of the session (session.go:172-273).                *)
WaitsHold ==
  /\ NoLostWakeup
  /\ \A w \in Waiting :
       /\ wait[w].changed <= session.changed
       /\ wait[w].output <= session.output
       /\ wait[w].finished => session.done /\ wait[w].err = session.err
       /\ wait[w].pc = "ended" => wait[w].finished /\ history.finalRevision <= wait[w].screen
       /\ wait[w].pc \in {"quiet", "check"} =>
            wait[w].output <= wait[w].quietFrom /\ wait[w].quietFrom <= session.output

(* What a waiter needs to know of a step of the machine.                   *)
Advances ==
  /\ session.changed <= session'.changed /\ session.output <= session'.output
  /\ terminal.revision <= terminal'.revision
  /\ terminal.revision # terminal'.revision => SignalDue'
  /\ SignalDue => SignalDue' \/ session.changed < session'.changed \/ session'.done
  /\ session.done => /\ UNCHANGED events
                     /\ session'.done
                     /\ session'.err = session.err
                     /\ session'.changed = session.changed
                     /\ session'.output = session.output
                     /\ history'.finalRevision = history.finalRevision

-----------------------------------------------------------------------------
(* Nothing has happened to a new session (session.go:60-73).               *)
LEMMA InitHolds == Init => Ended /\ WaitsHold
  BY DEF Init, Ended, WaitsHold, NoLostWakeup

(* The read loop (session.go:416-493) advances the session: what it        *)
(* applies to the terminal, it signals.                                    *)
LEMMA ReaderAdvances == TypeInv /\ Ended /\ ReaderNext => Ended' /\ Advances
<1> SUFFICES ASSUME TypeInv, Ended, ReaderNext PROVE Ended' /\ Advances
  OBVIOUS
<1>t. /\ session \in SessionType /\ reader \in ReaderType /\ terminal \in TerminalType
      /\ stream \in StreamType /\ history \in HistoryType
  BY DEF TypeInv, TypeOK
<1>n. /\ session.changed \in Nat /\ session.output \in Nat /\ terminal.revision \in Nat
      /\ NextChanged \in Nat /\ session.changed <= NextChanged
      /\ ~session.done => session.changed < NextChanged
  BY <1>t, SessionAssumption DEF SessionType, TerminalType, NextChanged
<1>d. ~session.done
  BY DEF Ended, ReaderNext, Read, SignalOutput, ApplyOutput, RecordOutput, SignalApplied,
         DrainEvent, AnswerBegin, AnswerWrite, PublishEvent, CloseEndedStream, Finish
<1>1. CASE Read
  <2>1. reader.pc = "read" /\ reader'.pc \in {"read", "closeStream", "signalOutput"}
    BY <1>1, <1>t DEF Read, NextTurn, ReaderType
  <2> QED
    BY <1>1, <1>d, <1>n, <2>1 DEF Read, Ended, Advances, SignalDue
<1>2. CASE SignalOutput
  BY <1>2, <1>d, <1>n, <1>t DEF SignalOutput, Ended, Advances, SignalDue, ReaderType, SessionType
<1>3. CASE ApplyOutput
  BY <1>3, <1>d, <1>n, <1>t
  DEF ApplyOutput, Ended, Advances, SignalDue, ReaderType, TerminalType, HistoryType
<1>4. CASE RecordOutput
  BY <1>4, <1>d, <1>n, <1>t
  DEF RecordOutput, Ended, Advances, SignalDue, ReaderType, HistoryType
<1>5. CASE SignalApplied
  BY <1>5, <1>d, <1>n, <1>t
  DEF SignalApplied, SignalChange, Ended, Advances, SignalDue, ReaderType, SessionType
<1>6. CASE DrainEvent
  <2>1. /\ reader.pc = "drain"
        /\ reader'.pc \in {"drain", "read", "closeStream", "answer", "publish"}
    BY <1>6, <1>t DEF DrainEvent, NextTurn, ReaderType
  <2> QED
    BY <1>6, <1>d, <1>n, <2>1 DEF DrainEvent, Ended, Advances, SignalDue
<1>7. CASE AnswerBegin
  BY <1>7, <1>d, <1>n, <1>t DEF AnswerBegin, AnswerFailed, Ended, Advances, SignalDue, ReaderType
<1>8. CASE AnswerWrite
  <2>1. reader.pc = "answering" /\ reader'.pc \in {"answering", "publish", "closeStream"}
    BY <1>8, <1>t DEF AnswerWrite, AnswerFailed, ReaderType
  <2> QED
    BY <1>8, <1>d, <1>n, <2>1 DEF AnswerWrite, Ended, Advances, SignalDue
<1>9. CASE PublishEvent
  BY <1>9, <1>d, <1>n, <1>t DEF PublishEvent, Ended, Advances, SignalDue, ReaderType
<1>10. CASE CloseEndedStream
  BY <1>10, <1>d, <1>n, <1>t
  DEF CloseEndedStream, Ended, Advances, SignalDue, ReaderType, StreamType
<1>11. CASE Finish
  BY <1>11, <1>d, <1>n, <1>t
  DEF Finish, Ended, Advances, SignalDue, ReaderType, SessionType, HistoryType
<1> QED
  BY <1>1, <1>2, <1>3, <1>4, <1>5, <1>6, <1>7, <1>8, <1>9, <1>10, <1>11 DEF ReaderNext

(* And so do Send, Resize and Close (session.go:89-170, 394-414).          *)
LEMMA OthersAdvance == TypeInv /\ Ended /\ MachineNext /\ ~ReaderNext => Ended' /\ Advances
<1> SUFFICES ASSUME TypeInv, Ended, MachineNext, ~ReaderNext PROVE Ended' /\ Advances
  OBVIOUS
<1>t. /\ session \in SessionType /\ terminal \in TerminalType /\ stream \in StreamType
      /\ resize \in [Resizers -> ResizerType] /\ close \in [Closers -> CloserType]
      /\ history \in HistoryType
  BY DEF TypeInv, TypeOK
<1>n. /\ session.changed \in Nat /\ session.output \in Nat /\ terminal.revision \in Nat
      /\ NextChanged \in Nat /\ session.changed <= NextChanged
      /\ ~session.done => session.changed < NextChanged
      /\ session.done => session.changed = NextChanged
  BY <1>t, SessionAssumption DEF SessionType, TerminalType, NextChanged
<1>1. ASSUME NEW s \in Senders, SendBegin(s) \/ SendWrite(s) PROVE Ended' /\ Advances
  BY <1>1, <1>n, <1>t DEF SendBegin, SendWrite, Ended, Advances, SignalDue, StreamType
<1>2. ASSUME NEW r \in Resizers, ResizeBegin(r) \/ ResizeStream(r) PROVE Ended' /\ Advances
  <2>1. stream'.open = stream.open /\ resize[r].pc \in {"idle", "stream"}
    BY <1>2, <1>t DEF ResizeBegin, ResizeStream, StreamType
  <2>2. \A x \in Resizers : resize[x].pc \in {"record", "signal"} => resize'[x] = resize[x]
    BY <1>2, <1>t DEF ResizeBegin, ResizeStream
  <2>3. UNCHANGED <<session, events, terminal, reader, close, history>>
    BY <1>2 DEF ResizeBegin, ResizeStream
  <2> QED
    BY <1>n, <2>1, <2>2, <2>3 DEF Ended, Advances, SignalDue
<1>3. ASSUME NEW r \in Resizers, ResizeTerminal(r) PROVE Ended' /\ Advances
  <2>1. /\ resize[r].pc = "terminal"
        /\ \A x \in Resizers : resize[x].pc \in {"record", "signal"} => resize'[x] = resize[x]
    BY <1>3, <1>t DEF ResizeTerminal
  <2>2. /\ UNCHANGED <<session, events, stream, reader, close>>
        /\ terminal'.revision \in {terminal.revision, terminal.revision + 1}
    BY <1>3, <1>n, <1>t DEF ResizeTerminal, TerminalType
  <2>3. terminal'.revision # terminal.revision => resize'[r].pc = "record"
    BY <1>3, <1>n, <1>t DEF ResizeTerminal, TerminalType, ResizerType
  <2>4. /\ history'.finalRevision = history.finalRevision
        /\ Len(history'.applied) >= Len(history.applied)
    BY <1>3, <1>t DEF ResizeTerminal, HistoryType
  <2> QED
    BY <1>n, <1>t, <2>1, <2>2, <2>3, <2>4 DEF Ended, Advances, SignalDue, HistoryType
<1>4. ASSUME NEW r \in Resizers, ResizeRecorder(r) PROVE Ended' /\ Advances
  BY <1>4, <1>n, <1>t DEF ResizeRecorder, Ended, Advances, SignalDue, ResizerType, HistoryType
<1>5. ASSUME NEW r \in Resizers, ResizeSignal(r) PROVE Ended' /\ Advances
  BY <1>5, <1>n, <1>t
  DEF ResizeSignal, SignalChange, Ended, Advances, SignalDue, ResizerType, SessionType
<1>6. ASSUME NEW c \in Closers, CloseBegin(c) \/ CloseStream(c) \/ CloseReturn(c)
      PROVE  Ended' /\ Advances
  <2>1. /\ session'.done = session.done /\ session'.err = session.err
        /\ session'.changed = session.changed /\ session'.output = session.output
    BY <1>6, <1>t DEF CloseBegin, CloseStream, CloseReturn, SessionType
  <2>2. stream' = stream \/ ~stream'.open
    BY <1>6, <1>t DEF CloseBegin, CloseStream, CloseReturn, StreamType
  <2>3. session'.once = "done" => session.once = "done" \/ session.done
    BY <1>6, <1>t DEF CloseBegin, CloseStream, CloseReturn, SessionType
  <2>4. ASSUME NEW x \in Closers, close'[x] = "returned"
        PROVE  close[x] = "returned" \/ session.done
    BY <1>6, <1>t, <2>4 DEF CloseBegin, CloseStream, CloseReturn, Ended, CloserType
  <2>5. UNCHANGED <<events, terminal, reader, resize, history>>
    BY <1>6 DEF CloseBegin, CloseStream, CloseReturn
  <2> QED
    BY <1>n, <2>1, <2>2, <2>3, <2>4, <2>5 DEF Ended, Advances, SignalDue
<1> QED
  BY <1>1, <1>2, <1>3, <1>4, <1>5, <1>6 DEF MachineNext, ResizeNext

(* The machine does not touch a waiter, and what the waiter knows stays    *)
(* true as the machine advances.                                           *)
LEMMA WaitsHoldAsMachineAdvances ==
  ASSUME TypeInv, TypeInv', WaitsHold, Advances, UNCHANGED wait
  PROVE  WaitsHold'
<1>t. /\ wait \in [Waiting -> WaiterType]
      /\ session \in SessionType /\ session' \in SessionType /\ history \in HistoryType
  BY DEF TypeInv, TypeOK
<1>n. /\ session.changed \in Nat /\ session'.changed \in Nat
      /\ session.output \in Nat /\ session'.output \in Nat
      /\ session.done \in BOOLEAN /\ session'.done \in BOOLEAN
  BY <1>t, SessionAssumption DEF SessionType
<1>1. NoLostWakeup'
  <2> SUFFICES ASSUME NEW w \in Waiting, wait[w].pc \in {"select", "quiet"},
                      ~(wait[w].changed < session'.changed), ~session'.done,
                      wait[w].screen # terminal'.revision
               PROVE  SignalDue'
    BY DEF NoLostWakeup, ChangedClosed
  <2>1. wait[w].changed \in Nat /\ wait[w].changed <= session.changed
    BY <1>t DEF WaiterType, WaitsHold
  <2>2. session'.changed = session.changed /\ wait[w].changed = session.changed
    BY <1>n, <2>1 DEF Advances
  <2>3. ~session.done
    BY DEF Advances
  <2>4. CASE terminal.revision # terminal'.revision
    BY <2>4 DEF Advances
  <2>5. CASE terminal.revision = terminal'.revision
    <3>1. SignalDue
      BY <1>n, <2>2, <2>3, <2>5 DEF WaitsHold, NoLostWakeup, ChangedClosed
    <3> QED
      BY <1>n, <2>2, <3>1 DEF Advances
  <2> QED
    BY <2>4, <2>5
<1>2. ASSUME NEW w \in Waiting
      PROVE  /\ wait[w].changed <= session'.changed
             /\ wait[w].output <= session'.output
             /\ wait[w].finished => session'.done /\ wait[w].err = session'.err
             /\ wait[w].pc = "ended" =>
                  wait[w].finished /\ history'.finalRevision <= wait[w].screen
             /\ wait[w].pc \in {"quiet", "check"} =>
                  wait[w].output <= wait[w].quietFrom /\ wait[w].quietFrom <= session'.output
  <2>1. wait[w] \in WaiterType
    BY <1>t
  <2>2. wait[w].changed \in Nat /\ wait[w].output \in Nat /\ wait[w].quietFrom \in Nat
    BY <2>1 DEF WaiterType
  <2> QED
    BY <1>n, <2>2 DEF WaitsHold, Advances
<1> QED
  BY <1>1, <1>2 DEF WaitsHold

(* A step of a waiter. *)
LEMMA WaitsHoldAsWaiterRuns ==
  ASSUME TypeInv, Ended, WaitsHold, NEW w \in Waiting, WaitBegin(w) \/ WaitNext(w)
  PROVE  WaitsHold'
<1>t. /\ wait \in [Waiting -> WaiterType] /\ wait[w] \in WaiterType
      /\ session \in SessionType /\ history \in HistoryType /\ terminal \in TerminalType
  BY DEF TypeInv, TypeOK
<1>n. /\ session.changed \in Nat /\ session.output \in Nat /\ terminal.revision \in Nat
      /\ history.finalRevision \in Nat
  BY <1>t, SessionAssumption DEF SessionType, TerminalType, HistoryType
<1>u. UNCHANGED machine
  BY DEF WaitBegin, WaitNext, WaitCapture, WaitSnapshot, StableSnapshot, WaitSelect,
         StableCheck, StableRecheck, WaitFails, WaitFrame
<1>o. \A v \in Waiting : v # w => wait'[v] = wait[v]
  BY <1>t
  DEF WaitBegin, WaitNext, WaitCapture, WaitSnapshot, StableSnapshot, WaitSelect,
      StableCheck, StableRecheck, WaitFails
(* What has to be shown of the waiter that took the step. *)
<1> DEFINE Fine(x) ==
             /\ x.changed <= session.changed
             /\ x.output <= session.output
             /\ x.finished => session.done /\ x.err = session.err
             /\ x.pc = "ended" => x.finished /\ history.finalRevision <= x.screen
             /\ x.pc \in {"quiet", "check"} =>
                  x.output <= x.quietFrom /\ x.quietFrom <= session.output
             /\ x.pc \in {"select", "quiet"} /\ ~ChangedClosed(x.changed)
                  /\ x.screen # terminal.revision => SignalDue
<1>f. Fine(wait[w])
  BY DEF WaitsHold, NoLostWakeup
<1>1. Fine(wait'[w])
  <2>1. CASE WaitBegin(w) \/ WaitSelect(w) \/ WaitFails(w)
    BY <1>f, <1>t, <2>1 DEF WaitBegin, WaitSelect, WaitFails, WaiterType
  <2>2. CASE WaitCapture(w)
    BY <1>f, <1>n, <1>t, <2>2 DEF WaitCapture, WaiterType
  <2>3. CASE WaitSnapshot(w)
    BY <1>f, <1>n, <1>t, <2>3 DEF WaitSnapshot, Snapshot, WaiterType, Ended
  <2>4. CASE StableSnapshot(w)
    BY <1>f, <1>n, <1>t, <2>4 DEF StableSnapshot, Snapshot, WaiterType, Ended
  <2>5. CASE StableCheck(w)
    BY <1>f, <1>t, <2>5 DEF StableCheck, WaiterType
  <2>6. CASE StableRecheck(w)
    BY <1>f, <1>n, <1>t, <2>6 DEF StableRecheck, Snapshot, WaiterType, Ended
  <2> QED
    BY <2>1, <2>2, <2>3, <2>4, <2>5, <2>6 DEF WaitNext
<1>2. SignalDue' = SignalDue /\ UNCHANGED <<session, terminal, history>>
  BY <1>u DEF machine, SignalDue
<1>3. \A v \in Waiting : Fine(wait'[v])
  <2>1. \A v \in Waiting : Fine(wait[v])
    BY DEF WaitsHold, NoLostWakeup
  <2> HIDE DEF Fine
  <2> QED
    BY <1>1, <1>o, <2>1
<1> QED
  BY <1>2, <1>3 DEF WaitsHold, NoLostWakeup, ChangedClosed

(* The inductive invariant.                                                *)
IInv == TypeInv /\ Ended /\ WaitsHold

(* The invariant is inductive.                                             *)
LEMMA StepHolds == IInv /\ [Next]_vars => IInv'
<1> SUFFICES ASSUME IInv, [Next]_vars PROVE IInv'
  OBVIOUS
<1>i. TypeInv /\ Ended /\ WaitsHold /\ TypeInv'
  BY NextTyped DEF IInv
<1>1. CASE MachineNext /\ UNCHANGED wait
  <2>1. Ended' /\ Advances
    BY <1>1, <1>i, ReaderAdvances, OthersAdvance
  <2> QED
    BY <1>1, <1>i, <2>1, WaitsHoldAsMachineAdvances DEF IInv
<1>2. CASE UNCHANGED machine /\ \E w \in Waiting : WaitBegin(w) \/ WaitNext(w)
  <2>1. WaitsHold'
    BY <1>2, <1>i, WaitsHoldAsWaiterRuns
  <2> QED
    BY <1>2, <1>i, <2>1 DEF IInv, Ended, machine
<1>3. CASE UNCHANGED <<machine, wait>>
  BY <1>3, <1>i DEF IInv, Ended, WaitsHold, NoLostWakeup, ChangedClosed, SignalDue, machine
<1> QED
  BY <1>1, <1>2, <1>3, StepKinds

(* It holds in every state of the session.                                 *)
LEMMA Holds == Spec => []IInv
<1>1. Init => IInv
  BY InitTyped, InitHolds DEF IInv
<1> QED
  BY <1>1, StepHolds, PTL DEF Spec

(* WaitFor and WaitForStable (session.go:179-204, 217-255) never sleep     *)
(* over a screen they have not matched, however many callers there are.    *)
THEOREM WakeupsNotLost == Spec => []NoLostWakeup
<1>1. IInv => NoLostWakeup
  BY DEF IInv, WaitsHold
<1> QED
  BY <1>1, Holds, PTL

(* A wait that reports the end (session.go:191-196, 227-232, 266-271) has  *)
(* matched the last screen of the host and reports the final error.        *)
THEOREM EndSeenWithFinalScreen == Spec => []EndedSawFinalScreen
<1>1. IInv => EndedSawFinalScreen
  <2> SUFFICES ASSUME IInv, NEW w \in Waiting, wait[w].pc = "ended"
               PROVE  /\ session.done /\ wait[w].err = session.err
                      /\ wait[w].screen >= history.finalRevision
    BY DEF EndedSawFinalScreen
  <2>1. wait[w].screen \in Nat /\ history.finalRevision \in Nat
    BY DEF IInv, TypeInv, TypeOK, WaiterType, HistoryType
  <2> QED
    BY <2>1 DEF IInv, WaitsHold
<1> QED
  BY <1>1, Holds, PTL

(* A Close that has returned (session.go:394-414) has seen the read loop   *)
(* stop, and the stream is closed, for any number of callers of Close.     *)
THEOREM CloseStops == Spec => []CloseStopsReader
<1>1. IInv => CloseStopsReader
  BY DEF IInv, Ended, CloseStopsReader
<1> QED
  BY <1>1, Holds, PTL

(* Once a session is done its outcome is settled (session.go:475-512).     *)
THEOREM OutcomeSettled == Spec => OutcomeIsFinal
<1> DEFINE Settled == session.done => /\ UNCHANGED events
                                      /\ session'.done
                                      /\ session'.err = session.err
                                      /\ session'.changed = session.changed
                                      /\ session'.output = session.output
<1>1. IInv /\ [Next]_vars => [Settled]_vars
  <2> SUFFICES ASSUME IInv, [Next]_vars PROVE Settled
    OBVIOUS
  <2>1. CASE MachineNext
    BY <2>1, ReaderAdvances, OthersAdvance DEF IInv, Advances
  <2>2. CASE UNCHANGED machine
    BY <2>2 DEF machine
  <2> QED
    BY <2>1, <2>2, StepKinds
<1> QED
  BY <1>1, Holds, PTL DEF Spec, OutcomeIsFinal

(* WaitForStable (session.go:207-273) finds the output unchanged only if   *)
(* none arrived since its timer started, for any number of callers.        *)
THEOREM StableQuiet == Spec => StableMeansQuiet
<1> DEFINE Quiet == \A w \in Stables :
                      wait[w].pc = "check" /\ wait'[w].pc = "recheck" /\ wait'[w].quiet
                        => session.output = wait[w].quietFrom
<1>1. IInv /\ [Next]_vars => [Quiet]_vars
  <2> SUFFICES ASSUME IInv, [Next]_vars, NEW w \in Stables,
                      wait[w].pc = "check", wait'[w].pc = "recheck", wait'[w].quiet
               PROVE  session.output = wait[w].quietFrom
    OBVIOUS
  <2>1. /\ wait \in [Waiting -> WaiterType] /\ w \in Waiting
        /\ session.output \in Nat /\ wait[w].output \in Nat /\ wait[w].quietFrom \in Nat
    BY SessionAssumption DEF IInv, TypeInv, TypeOK, WaiterType, SessionType, Waiting
  <2>2. StableCheck(w)
    <3>1. PICK v \in Waiting : WaitBegin(v) \/ WaitNext(v)
      BY StepKinds
    <3>2. v = w
      BY <2>1, <3>1 DEF WaitBegin, WaitNext, WaitCapture, WaitSnapshot, StableSnapshot,
                        WaitSelect, StableCheck, StableRecheck, WaitFails
    <3> QED
      BY <2>1, <3>1, <3>2 DEF WaitBegin, WaitNext, WaitCapture, WaitSnapshot, StableSnapshot,
                              WaitSelect, StableRecheck, WaitFails
  <2>3. wait'[w].quiet = SameOutput(w)
    BY <2>1, <2>2 DEF StableCheck, WaiterType
  <2>4. wait[w].output <= wait[w].quietFrom /\ wait[w].quietFrom <= session.output
    BY <2>1 DEF IInv, WaitsHold
  <2>5. session.output = wait[w].output
    BY <2>3 DEF SameOutput
  <2> QED
    BY <2>1, <2>4, <2>5
<1> QED
  BY <1>1, Holds, PTL DEF Spec, StableMeansQuiet

-----------------------------------------------------------------------------
(* Screens of observers (session.go:288-329, 601-620): those received and  *)
(* the one in the channel.                                                 *)
Screens(x) == x.received \o x.channel
Rising(r) == \A i \in 2..Len(r) : r[i - 1] < r[i]
Below(r, v) == \A i \in 1..Len(r) : r[i] < v
EndsAt(r, v) == r # <<>> /\ r[Len(r)] = v /\ \A i \in 1..Len(r) : r[i] <= v

(* What an observer has been given, by where its goroutine is: it is       *)
(* about to send a newer screen, or has sent the last one it took, and it  *)
(* closes the channel once that is the session's last.                     *)
Watches(x, canceled, revision, done, final) ==
  /\ x.pc \in {"idle", "resend"} => x.channel = <<>>
  /\ x.pc = "idle" => x.received = <<>> /\ x.then = "loop"
  /\ Rising(Screens(x)) /\ x.last <= revision
  /\ x.pc \in {"publish", "drop", "resend"} => Below(Screens(x), x.last)
  /\ x.pc \in {"loop", "select", "snapshot"} \/ (x.pc = "closed" /\ ~canceled) =>
       EndsAt(Screens(x), x.last)
  /\ x.pc \in {"loop", "select"} => x.then = "loop"
  /\ x.then = "closed" => done /\ (x.pc # "snapshot" => final <= x.last)
  /\ x.pc = "closed" /\ ~canceled => x.then = "closed"

ScreensHold ==
  \A o \in Observers : Watches(observe[o], ctxDone[o], terminal.revision, session.done,
                               history.finalRevision)

(* A newer screen joins those that were sent (session.go:601-620).         *)
LEMMA ScreenSent ==
  ASSUME NEW r \in Seq(Nat), NEW v \in Nat, Rising(r), Below(r, v)
  PROVE  Rising(r \o <<v>>) /\ EndsAt(r \o <<v>>, v)
<1> DEFINE one == <<v>>
           s == r \o one
           n == Len(r)
<1>1. one \in Seq(Nat) /\ Len(one) = 1 /\ one[1] = v
  OBVIOUS
<1> HIDE DEF one
<1>2. /\ s \in Seq(Nat) /\ Len(s) = n + 1 /\ n \in Nat
      /\ \A i \in 1..(n + 1) : s[i] = IF i <= n THEN r[i] ELSE one[i - n]
  <2>1. /\ s \in Seq(Nat) /\ Len(s) = n + Len(one) /\ n \in Nat
        /\ \A i \in 1..(n + Len(one)) : s[i] = IF i <= n THEN r[i] ELSE one[i - n]
    BY <1>1, ConcatProperties, LenProperties
  <2> HIDE DEF s, n
  <2> QED
    BY <1>1, <2>1
<1> HIDE DEF s, n
<1>3. s[n + 1] = v
  <2>1. n + 1 \in 1..(n + 1) /\ ~(n + 1 <= n) /\ n + 1 - n = 1
    BY <1>2
  <2> QED
    BY <1>1, <1>2, <2>1
<1>4. \A i \in 1..n : s[i] = r[i] /\ r[i] \in Nat /\ r[i] < v
  BY <1>2, ElementOfSeq DEF Below, n
<1>5. Rising(s)
  <2> SUFFICES ASSUME NEW i \in 2..(n + 1)
               PROVE  s[i - 1] < s[i]
    BY <1>2 DEF Rising
  <2>1. CASE i = n + 1
    <3>1. i - 1 \in 1..n /\ i - 1 = n
      BY <1>2, <2>1
    <3> QED
      BY <1>3, <1>4, <2>1, <3>1
  <2>2. CASE i # n + 1
    <3>1. i \in 2..n /\ i - 1 \in 1..n /\ i \in 1..n
      BY <1>2, <2>2
    <3> QED
      BY <1>4, <3>1 DEF Rising, n
  <2> QED
    BY <2>1, <2>2
<1>6. EndsAt(s, v)
  <2>1. s # <<>>
    BY <1>2, EmptySeq
  <2>2. \A i \in 1..(n + 1) : s[i] <= v
    <3> SUFFICES ASSUME NEW i \in 1..(n + 1)
                 PROVE  s[i] <= v
      OBVIOUS
    <3>1. i = n + 1 \/ i \in 1..n
      BY <1>2
    <3> QED
      BY <1>3, <1>4, <3>1
  <2> QED
    BY <1>2, <1>3, <2>1, <2>2 DEF EndsAt
<1> QED
  BY <1>5, <1>6 DEF s, one

(* Those that were received stay when an unread one is dropped             *)
(* (session.go:610-613).                                                   *)
LEMMA ScreenDropped ==
  ASSUME NEW r \in Seq(Nat), NEW c \in Seq(Nat), NEW v, Rising(r \o c), Below(r \o c, v)
  PROVE  Rising(r) /\ Below(r, v)
<1> DEFINE s == r \o c
<1>1. /\ Len(s) = Len(r) + Len(c) /\ Len(r) \in Nat /\ Len(c) \in Nat
      /\ \A i \in 1..(Len(r) + Len(c)) : s[i] = IF i <= Len(r) THEN r[i] ELSE c[i - Len(r)]
  BY ConcatProperties, LenProperties
<1> HIDE DEF s
<1>2. \A i \in 1..Len(r) : s[i] = r[i] /\ i \in 1..Len(s)
  BY <1>1
<1>3. \A i \in 2..Len(r) : i \in 1..Len(r) /\ i - 1 \in 1..Len(r) /\ i \in 2..Len(s)
  BY <1>1
<1>4. Rising(s) /\ Below(s, v)
  BY DEF s
<1> QED
  BY <1>2, <1>3, <1>4 DEF Rising, Below

(* A newer screen is above the last one (session.go:318-325).              *)
LEMMA LastIsBelow ==
  ASSUME NEW r \in Seq(Nat), NEW v \in Nat, NEW w \in Nat, v < w, EndsAt(r, v)
  PROVE  Below(r, w)
<1> SUFFICES ASSUME NEW i \in 1..Len(r)
             PROVE  r[i] < w
  BY DEF Below
<1>1. r[i] \in Nat /\ r[i] <= v
  BY ElementOfSeq DEF EndsAt
<1> QED
  BY <1>1

(* A step of an observer and its reader (session.go:288-329, 601-620).     *)
LEMMA WatchesAsObserverRuns ==
  ASSUME TypeInv, Ended, ScreensHold, NEW o \in Observers,
         ObserveBegin(o) \/ ObserveNext(o) \/ ReceiveScreen(o)
  PROVE  Watches(observe'[o], ctxDone[o], terminal.revision, session.done,
                 history.finalRevision)
<1> DEFINE x == observe[o]
           y == observe'[o]
           canceled == ctxDone[o]
           revision == terminal.revision
           done == session.done
           final == history.finalRevision
<1>t. /\ observe \in [Observers -> ObserverType] /\ x \in ObserverType
      /\ x.received \in Seq(Nat) /\ x.channel \in Seq(Nat) /\ x.last \in Nat
      /\ x.then \in {"loop", "closed"}
      /\ revision \in Nat /\ final \in Nat /\ done \in BOOLEAN
      /\ done => final <= revision
      /\ Screens(x) \in Seq(Nat)
  BY ConcatProperties
  DEF TypeInv, TypeOK, ObserverType, TerminalType, HistoryType, SessionType, Ended, Screens
<1>w. Watches(x, canceled, revision, done, final)
  BY DEF ScreensHold
<1> SUFFICES Watches(y, canceled, revision, done, final)
  OBVIOUS
<1> HIDE DEF canceled, revision, done, final
<1>1. ASSUME x.pc \in {"publish", "resend"}, SendScreen(o)
      PROVE  Watches(y, canceled, revision, done, final)
  <2>1. CASE canceled /\ observe' = [observe EXCEPT ![o].pc = "closed"]
    <3>1. /\ y.pc = "closed" /\ y.channel = x.channel /\ y.received = x.received
          /\ y.last = x.last /\ y.then = x.then
      BY <1>t, <2>1 DEF ObserverType
    <3>2. Screens(y) = Screens(x)
      BY <3>1 DEF Screens
    <3> QED
      BY <1>1, <1>w, <2>1, <3>1, <3>2 DEF Watches
  <2>2. CASE /\ x.channel = <<>>
             /\ observe' = [observe EXCEPT ![o].channel = <<x.last>>, ![o].pc = x.then]
    <3>1. /\ y.pc = x.then /\ y.channel = <<x.last>> /\ y.received = x.received
          /\ y.last = x.last /\ y.then = x.then
      BY <1>t, <2>2 DEF ObserverType
    <3>2. Screens(x) = x.received
      BY <1>t, <2>2, ConcatEmptySeq DEF Screens
    <3>3. Screens(y) = x.received \o <<x.last>>
      BY <3>1 DEF Screens
    <3>4. Rising(Screens(x)) /\ Below(Screens(x), x.last)
      BY <1>1, <1>w DEF Watches
    <3>5. Rising(Screens(y)) /\ EndsAt(Screens(y), x.last)
      BY <1>t, <3>2, <3>3, <3>4, ScreenSent
    <3> HIDE DEF x, y
    <3> QED
      BY <1>1, <1>t, <1>w, <3>1, <3>5 DEF Watches
  <2> QED
    BY <1>1, <2>1, <2>2 DEF SendScreen, canceled
<1>2. CASE ObserveBegin(o)
  <2>1. /\ x.pc = "idle" /\ y.pc = "publish" /\ y.channel = x.channel
        /\ y.received = x.received /\ y.last = revision /\ y.then = x.then
    BY <1>2, <1>t DEF ObserveBegin, ObserverType, revision
  <2>2. /\ x.received = <<>> /\ x.channel = <<>> /\ x.then = "loop"
    BY <1>w, <2>1 DEF Watches
  <2>3. Screens(y) = <<>>
    <3>1. <<>> \o <<>> = <<>>
      OBVIOUS
    <3> QED
      BY <2>1, <2>2, <3>1 DEF Screens
  <2>4. Rising(Screens(y)) /\ Below(Screens(y), revision)
    BY <2>3 DEF Rising, Below
  <2> HIDE DEF x, y
  <2> QED
    BY <1>t, <2>1, <2>2, <2>4 DEF Watches
<1>3. CASE PublishScreen(o)
  <2>1. CASE /\ x.pc = "publish" /\ observe' = [observe EXCEPT ![o].pc = "drop"]
    <3>1. /\ y.pc = "drop" /\ y.channel = x.channel /\ y.received = x.received
          /\ y.last = x.last /\ y.then = x.then
      BY <1>t, <2>1 DEF ObserverType
    <3>2. Screens(y) = Screens(x)
      BY <3>1 DEF Screens
    <3> HIDE DEF x, y
    <3> QED
      BY <1>t, <1>w, <2>1, <3>1, <3>2 DEF Watches
  <2> QED
    BY <1>1, <1>3, <2>1 DEF PublishScreen
<1>4. CASE DropScreen(o)
  <2>1. /\ x.pc = "drop" /\ y.pc = "resend" /\ y.channel = <<>> /\ y.received = x.received
        /\ y.last = x.last /\ y.then = x.then
    BY <1>4, <1>t DEF DropScreen, ObserverType
  <2>2. Screens(y) = x.received
    BY <1>t, <2>1, ConcatEmptySeq DEF Screens
  <2>3. Rising(x.received \o x.channel) /\ Below(x.received \o x.channel, x.last)
    BY <1>w, <2>1 DEF Watches, Screens
  <2>4. Rising(x.received) /\ Below(x.received, x.last)
    BY <1>t, <2>3, ScreenDropped
  <2> HIDE DEF x, y
  <2> QED
    BY <1>t, <1>w, <2>1, <2>2, <2>4 DEF Watches
<1>5. CASE ResendScreen(o)
  BY <1>1, <1>5 DEF ResendScreen
<1>6. CASE ObserveCapture(o)
  <2>1. /\ x.pc = "loop" /\ y.pc = "select" /\ y.channel = x.channel
        /\ y.received = x.received /\ y.last = x.last /\ y.then = x.then
    BY <1>6, <1>t DEF ObserveCapture, ObserverType
  <2>2. Screens(y) = Screens(x)
    BY <2>1 DEF Screens
  <2> HIDE DEF x, y
  <2> QED
    BY <1>t, <1>w, <2>1, <2>2 DEF Watches
<1>7. CASE ObserveSelect(o) \/ ObserveDone(o)
  <2>1. /\ x.pc = "select" /\ y.channel = x.channel
        /\ y.received = x.received /\ y.last = x.last
        /\ \/ y.pc = "closed" /\ y.then = x.then /\ canceled
           \/ y.pc = "snapshot" /\ y.then = x.then
           \/ y.pc = "snapshot" /\ y.then = "closed" /\ done
    BY <1>7, <1>t DEF ObserveSelect, ObserveDone, ObserverType, canceled, done
  <2>2. Screens(y) = Screens(x)
    BY <2>1 DEF Screens
  <2>3. x.then = "loop"
    BY <1>w, <2>1 DEF Watches
  <2> HIDE DEF x, y
  <2> QED
    BY <1>t, <1>w, <2>1, <2>2, <2>3 DEF Watches
<1>8. CASE ObserveSnapshot(o)
  <2>1. /\ x.pc = "snapshot" /\ y.channel = x.channel
        /\ y.received = x.received /\ y.last = revision /\ y.then = x.then
        /\ y.pc = IF revision # x.last THEN "publish" ELSE x.then
    BY <1>8, <1>t DEF ObserveSnapshot, NewScreen, ObserverType, revision
  <2>2. Screens(y) = Screens(x)
    BY <2>1 DEF Screens
  <2>3. EndsAt(Screens(x), x.last) /\ Rising(Screens(x)) /\ x.last <= revision
        /\ (x.then = "closed" => done)
    BY <1>w, <2>1 DEF Watches
  <2>4. revision # x.last => Below(Screens(x), revision)
    BY <1>t, <2>3, LastIsBelow
  <2> HIDE DEF x, y
  <2> QED
    BY <1>t, <2>1, <2>2, <2>3, <2>4 DEF Watches
<1>9. CASE ReceiveScreen(o)
  <2>1. /\ y.pc = x.pc /\ y.channel = <<>> /\ y.received = Screens(x)
        /\ y.last = x.last /\ y.then = x.then /\ x.channel # <<>>
    BY <1>9, <1>t DEF ReceiveScreen, ObserverType, Screens
  <2>2. Screens(y) = Screens(x)
    BY <1>t, <2>1, ConcatEmptySeq DEF Screens
  <2>3. x.pc # "idle"
    BY <1>w, <2>1 DEF Watches
  <2> HIDE DEF x, y
  <2> QED
    BY <1>t, <1>w, <2>1, <2>2, <2>3 DEF Watches
<1> QED
  BY <1>2, <1>3, <1>4, <1>5, <1>6, <1>7, <1>8, <1>9
  DEF ObserveNext

(* An observer that takes no step sees the machine advance, and perhaps    *)
(* the end of its context (session.go:288-329).                            *)
LEMMA WatchesAsMachineAdvances ==
  ASSUME TypeInv, TypeInv', ScreensHold, Advances, UNCHANGED observe,
         NEW o \in Observers, ctxDone[o] => ctxDone'[o]
  PROVE  Watches(observe[o], ctxDone'[o], terminal'.revision, session'.done,
                 history'.finalRevision)
<1> DEFINE x == observe[o]
<1>1. /\ x.last \in Nat /\ terminal.revision \in Nat /\ terminal'.revision \in Nat
      /\ terminal.revision <= terminal'.revision
      /\ session.done => session'.done /\ history'.finalRevision = history.finalRevision
  BY DEF TypeInv, TypeOK, ObserverType, TerminalType, Advances
<1>2. Watches(x, ctxDone[o], terminal.revision, session.done, history.finalRevision)
  BY DEF ScreensHold
<1> HIDE DEF x
<1>3. Watches(x, ctxDone'[o], terminal'.revision, session'.done, history'.finalRevision)
  <2>1. x.last <= terminal'.revision
    BY <1>1, <1>2 DEF Watches
  <2> QED
    BY <1>1, <1>2, <2>1 DEF Watches
<1> QED
  BY <1>3 DEF x

(* What an observer has been given is inductive, with the invariant of the *)
(* machine.                                                                *)
LEMMA ScreensStep == IInv /\ ScreensHold /\ [Next]_vars => ScreensHold'
<1> SUFFICES ASSUME IInv, ScreensHold, [Next]_vars PROVE ScreensHold'
  OBVIOUS
<1>i. TypeInv /\ TypeInv' /\ Ended
  BY NextTyped DEF IInv
<1>t. observe \in [Observers -> ObserverType] /\ ctxDone \in [Cancellable -> BOOLEAN]
      /\ Observers \subseteq Cancellable
  BY <1>i DEF TypeInv, TypeOK, Cancellable
<1>1. CASE MachineNext /\ UNCHANGED <<observe, ctxDone>>
  <2>1. Advances
    BY <1>1, <1>i, ReaderAdvances, OthersAdvance
  <2>2. \A o \in Observers : Watches(observe[o], ctxDone'[o], terminal'.revision, session'.done,
                                     history'.finalRevision)
    BY <1>1, <1>i, <2>1, WatchesAsMachineAdvances
  <2> QED
    BY <1>1, <2>2 DEF ScreensHold
<1>2. CASE UNCHANGED <<machine, ctxDone>>
           /\ \E o \in Observers : ObserveBegin(o) \/ ObserveNext(o) \/ ReceiveScreen(o)
  <2> PICK o \in Observers : ObserveBegin(o) \/ ObserveNext(o) \/ ReceiveScreen(o)
    BY <1>2
  <2>1. Watches(observe'[o], ctxDone[o], terminal.revision, session.done,
                history.finalRevision)
    BY <1>i, WatchesAsObserverRuns
  <2>2. \A p \in Observers : p # o => observe'[p] = observe[p]
    BY <1>t DEF ObserveBegin, ObserveNext, PublishScreen, DropScreen, ResendScreen, SendScreen,
       ObserveCapture, ObserveSelect, ObserveDone, ObserveSnapshot, ReceiveScreen
  <2>3. UNCHANGED <<ctxDone, terminal, session, history>>
    BY <1>2 DEF machine
  <2> QED
    BY <2>1, <2>2, <2>3 DEF ScreensHold
<1>3. CASE UNCHANGED <<machine, observe, ctxDone>>
  BY <1>3 DEF ScreensHold, machine
<1>4. ASSUME UNCHANGED <<machine, observe>>, NEW t \in Cancellable, Cancel(t)
      PROVE  ScreensHold'
  <2>1. \A o \in Observers : ctxDone[o] => ctxDone'[o]
    BY <1>4, <1>t DEF Cancel
  <2>2. UNCHANGED <<terminal, session, history>>
    BY <1>4 DEF machine
  <2> SUFFICES ASSUME NEW o \in Observers
               PROVE  Watches(observe[o], ctxDone'[o], terminal.revision, session.done,
                              history.finalRevision)
    BY <1>4, <2>2 DEF ScreensHold
  <2>3. Watches(observe[o], ctxDone[o], terminal.revision, session.done,
                history.finalRevision)
    BY DEF ScreensHold
  <2> QED
    BY <2>1, <2>3 DEF Watches
<1> QED
  BY <1>1, <1>2, <1>3, <1>4, StepKinds

(* Screens (session.go:288-329, 601-620) gives any number of observers     *)
(* newer and newer screens, up to the last one of the session, and never   *)
(* blocks on a slow one.                                                   *)
THEOREM ScreensReachObservers == Spec => []ScreensDelivered
<1>1. Init => ScreensHold
  <2> SUFFICES ASSUME Init, NEW o \in Observers
               PROVE  Watches(observe[o], ctxDone[o], terminal.revision, session.done,
                              history.finalRevision)
    BY DEF ScreensHold
  <2>1. /\ observe[o].pc = "idle" /\ observe[o].then = "loop" /\ observe[o].last = 0
        /\ observe[o].channel = <<>> /\ observe[o].received = <<>> /\ terminal.revision = 0
    BY DEF Init
  <2>2. Screens(observe[o]) = <<>>
    BY <2>1 DEF Screens
  <2> QED
    BY <2>1, <2>2 DEF Watches, Rising
<1>2. IInv /\ ScreensHold => ScreensDelivered
  <2> SUFFICES ASSUME IInv, ScreensHold PROVE ScreensDelivered
    OBVIOUS
  <2>1. ScreensAdvance
    BY DEF ScreensHold, Watches, ScreensAdvance, Shown, Screens, Rising
  <2>2. ResendHasRoom
    BY DEF ScreensHold, Watches, ResendHasRoom
  <2>3. FinalScreenObserved
    <3> SUFFICES ASSUME NEW o \in Observers, observe[o].pc = "closed", ~ctxDone[o]
                 PROVE  \E i \in DOMAIN Shown(o) : Shown(o)[i] >= history.finalRevision
      BY DEF FinalScreenObserved
    <3>1. /\ observe[o] \in ObserverType /\ observe[o].last \in Nat
          /\ observe[o].received \in Seq(Nat) /\ observe[o].channel \in Seq(Nat)
          /\ history.finalRevision \in Nat
      BY DEF IInv, TypeInv, TypeOK, ObserverType, HistoryType
    <3>2. Shown(o) = Screens(observe[o]) /\ Screens(observe[o]) \in Seq(Nat)
      BY <3>1, ConcatProperties DEF Shown, Screens
    <3>3. EndsAt(Screens(observe[o]), observe[o].last)
          /\ history.finalRevision <= observe[o].last
      BY DEF ScreensHold, Watches
    <3> DEFINE r == Shown(o)
    <3>4. r \in Seq(Nat) /\ r # <<>> /\ r[Len(r)] = observe[o].last
      BY <3>2, <3>3 DEF EndsAt
    <3> HIDE DEF r
    <3>5. Len(r) \in DOMAIN r
      <4>1. Len(r) \in Nat \ {0} /\ DOMAIN r = 1..Len(r)
        BY <3>4, EmptySeq, LenProperties
      <4> QED
        BY <4>1
    <3>6. r[Len(r)] >= history.finalRevision
      BY <3>1, <3>3, <3>4
    <3> QED
      BY <3>5, <3>6 DEF r
  <2> QED
    BY <2>1, <2>2, <2>3 DEF ScreensDelivered
<1> QED
  BY <1>1, <1>2, Holds, ScreensStep, PTL DEF Spec

-----------------------------------------------------------------------------
(* The flight recorder.  What it computes over its records is defined by   *)
(* recursion over their number, so the lemmas about it are proved by       *)
(* induction (SetInduction of Loops).                                      *)

(* The bytes of the records (flightrecorder.go:102-111), passed one by one. *)
BytesPassed(s, f) ==
  f[0] = 0 /\ \A n \in 1..Len(s) : f[n] = f[n - 1] + RecordBytes(s[n])

(* Such a function exists, and evict counts what it reaches at the end     *)
(* (flightrecorder.go:102-111).                                            *)
LEMMA TotalIs ==
  ASSUME NEW s \in Seq(Record)
  PROVE  \E f \in [0..Len(s) -> Nat] : BytesPassed(s, f) /\ TotalBytes(s) = f[Len(s)]
<1> DEFINE step == [n \in 1..Len(s) |-> [sum \in Nat |-> sum + RecordBytes(s[n])]]
           Loop(f) == f = [n \in 0..Len(s) |->
                             IF n = 0 THEN 0 ELSE f[n - 1] + RecordBytes(s[n])]
<1>n. Len(s) \in Nat /\ 0 \in Nat
  OBVIOUS
<1>b. \A n \in 1..Len(s) : RecordBytes(s[n]) \in Nat
  BY DEF Record, RecordBytes
<1>1. step \in [1..Len(s) -> [Nat -> Nat]]
  BY <1>b
<1>2. PICK g \in [0..Len(s) -> Nat] : IsLoop(g, Len(s), 0, step)
  <2> HIDE DEF step
  <2> QED
    BY <1>n, <1>1, LoopDefined, ZenonT(30)
<1>3. g[0] = 0 /\ \A n \in 1..Len(s) : g[n] = g[n - 1] + RecordBytes(s[n])
  BY <1>2 DEF IsLoop
<1>4. Loop(g)
  <2> DEFINE h == [n \in 0..Len(s) |-> IF n = 0 THEN 0 ELSE g[n - 1] + RecordBytes(s[n])]
  <2>1. \A n \in 0..Len(s) : n = 0 \/ n \in 1..Len(s)
    OBVIOUS
  <2>2. \A n \in 0..Len(s) : h[n] = g[n]
    BY <1>3, <2>1
  <2> QED
    BY <2>2
<1>5. PICK f : f = CHOOSE x : Loop(x)
  OBVIOUS
<1>6. Loop(f)
  <2> HIDE DEF Loop
  <2> QED
    BY <1>4, <1>5
<1>7. TotalBytes(s) = f[Len(s)]
  BY <1>5 DEF TotalBytes
<1>8. DOMAIN f = 0..Len(s) /\ BytesPassed(s, f)
  BY <1>6 DEF BytesPassed
<1>9. \A n \in 0..Len(s) : f[n] \in Nat
  <2> DEFINE T == {n \in Nat : n <= Len(s) => f[n] \in Nat}
  <2>1. 0 \in T
    BY <1>8 DEF BytesPassed
  <2>2. ASSUME NEW n \in Nat, n \in T PROVE n + 1 \in T
    <3> SUFFICES ASSUME n + 1 <= Len(s) PROVE f[n + 1] \in Nat
      OBVIOUS
    <3>1. n + 1 \in 1..Len(s) /\ n + 1 - 1 = n /\ f[n] \in Nat
      BY <2>2
    <3> QED
      BY <1>8, <1>b, <3>1 DEF BytesPassed
  <2>3. Nat \subseteq T
    <3> HIDE DEF T
    <3> QED
      BY <2>1, <2>2, SetInduction
  <2> QED
    BY <2>3
<1>10. f \in [0..Len(s) -> Nat]
  BY <1>6, <1>9
<1> QED
  BY <1>7, <1>8, <1>10

(* The records of t are those of s after its first i.                      *)
IsPart(t, s, i) == i + Len(t) <= Len(s) /\ \A m \in 1..Len(t) : t[m] = s[i + m]

(* The bytes of a part of the records are counted as in the whole          *)
(* (flightrecorder.go:102-111).                                            *)
LEMMA PartBytes ==
  ASSUME NEW s \in Seq(Record), NEW t \in Seq(Record), NEW i \in Nat, IsPart(t, s, i),
         NEW f \in [0..Len(s) -> Nat], BytesPassed(s, f)
  PROVE  f[i + Len(t)] = f[i] + TotalBytes(t) /\ TotalBytes(t) \in Nat
<1>g. PICK g \in [0..Len(t) -> Nat] : BytesPassed(t, g) /\ TotalBytes(t) = g[Len(t)]
  BY TotalIs
<1> DEFINE T == {m \in Nat : m <= Len(t) => f[i + m] = f[i] + g[m]}
<1>1. 0 \in T
  <2>1. i \in 0..Len(s) /\ i + 0 = i /\ f[i] \in Nat
    <3>1. Len(s) \in Nat /\ Len(t) \in Nat /\ i <= Len(s)
      BY LenProperties DEF IsPart
    <3> QED
      BY <3>1
  <2>2. g[0] = 0
    BY <1>g DEF BytesPassed
  <2> QED
    BY <2>1, <2>2
<1>2. ASSUME NEW m \in Nat, m \in T PROVE m + 1 \in T
  <2> SUFFICES ASSUME m + 1 <= Len(t) PROVE f[i + (m + 1)] = f[i] + g[m + 1]
    OBVIOUS
  <2>1. /\ m + 1 \in 1..Len(t) /\ m + 1 - 1 = m /\ m \in 0..Len(t)
        /\ i + (m + 1) \in 1..Len(s) /\ i + (m + 1) - 1 = i + m /\ i \in 0..Len(s)
    BY DEF IsPart
  <2>2. f[i + m] = f[i] + g[m]
    BY <1>2, <2>1
  <2>3. f[i + (m + 1)] = f[i + m] + RecordBytes(s[i + (m + 1)])
    BY <2>1 DEF BytesPassed
  <2>4. g[m + 1] = g[m] + RecordBytes(t[m + 1])
    BY <1>g, <2>1 DEF BytesPassed
  <2>5. t[m + 1] = s[i + (m + 1)] /\ RecordBytes(t[m + 1]) \in Nat
    <3>1. t[m + 1] = s[i + (m + 1)]
      BY <2>1 DEF IsPart
    <3>2. m + 1 \in 1..Len(t) /\ t[m + 1] \in Record
      BY <2>1
    <3> QED
      BY <3>1, <3>2 DEF Record, RecordBytes
  <2>6. f[i] \in Nat /\ g[m] \in Nat
    BY <2>1
  <2> QED
    BY <2>2, <2>3, <2>4, <2>5, <2>6
<1>3. Nat \subseteq T
  <2> HIDE DEF T
  <2> QED
    BY <1>1, <1>2, SetInduction
<1> QED
  BY <1>g, <1>3

(* Dropping records moves their bytes from one count to the other          *)
(* (flightrecorder.go:107-108).                                            *)
LEMMA BytesDivide ==
  ASSUME NEW s \in Seq(Record), NEW i \in 0..Len(s), NEW j \in i..Len(s)
  PROVE  /\ TotalBytes(SubSeq(s, 1, i)) \in Nat /\ TotalBytes(SubSeq(s, i + 1, j)) \in Nat
         /\ TotalBytes(SubSeq(s, 1, j))
              = TotalBytes(SubSeq(s, 1, i)) + TotalBytes(SubSeq(s, i + 1, j))
<1> DEFINE A == SubSeq(s, 1, i)
           B == SubSeq(s, i + 1, j)
           C == SubSeq(s, 1, j)
<1>1. A \in Seq(Record) /\ Len(A) = i /\ IsPart(A, s, 0)
  BY DEF IsPart
<1>2. B \in Seq(Record) /\ Len(B) = j - i /\ IsPart(B, s, i)
  BY DEF IsPart
<1>3. C \in Seq(Record) /\ Len(C) = j /\ IsPart(C, s, 0)
  BY DEF IsPart
<1> HIDE DEF A, B, C
<1>4. PICK f \in [0..Len(s) -> Nat] : BytesPassed(s, f) /\ TotalBytes(s) = f[Len(s)]
  BY TotalIs
<1>5. f[0 + Len(A)] = f[0] + TotalBytes(A) /\ TotalBytes(A) \in Nat
  BY <1>1, <1>4, PartBytes
<1>6. i \in Nat /\ f[i + Len(B)] = f[i] + TotalBytes(B) /\ TotalBytes(B) \in Nat
  BY <1>2, <1>4, PartBytes
<1>7. f[0 + Len(C)] = f[0] + TotalBytes(C) /\ TotalBytes(C) \in Nat
  BY <1>3, <1>4, PartBytes
<1>8. f[0] = 0
  BY <1>4 DEF BytesPassed
<1> QED
  BY <1>1, <1>2, <1>3, <1>5, <1>6, <1>7, <1>8 DEF A, B, C

(* A new record adds its bytes (flightrecorder.go:87).                     *)
LEMMA BytesAppended ==
  ASSUME NEW s \in Seq(Record), NEW r \in Record
  PROVE  TotalBytes(Append(s, r)) = TotalBytes(s) + RecordBytes(r) /\ TotalBytes(s) \in Nat
<1> DEFINE t == Append(s, r)
<1>1. t \in Seq(Record) /\ Len(t) = Len(s) + 1 /\ IsPart(s, t, 0)
  BY DEF IsPart
<1>2. t[Len(s) + 1] = r
  OBVIOUS
<1> HIDE DEF t
<1>3. PICK f \in [0..Len(t) -> Nat] : BytesPassed(t, f) /\ TotalBytes(t) = f[Len(t)]
  BY <1>1, TotalIs
<1>4. f[0 + Len(s)] = f[0] + TotalBytes(s) /\ TotalBytes(s) \in Nat
  BY <1>1, <1>3, PartBytes
<1>5. Len(s) + 1 \in 1..Len(t) /\ Len(s) + 1 - 1 = Len(s) /\ 0 + Len(s) = Len(s)
  BY <1>1
<1>6. f[Len(s) + 1] = f[Len(s)] + RecordBytes(r) /\ f[0] = 0
  BY <1>2, <1>3, <1>5 DEF BytesPassed
<1> QED
  BY <1>1, <1>3, <1>4, <1>5, <1>6 DEF t

(* No records have no bytes (flightrecorder.go:70-72).                     *)
LEMMA NoBytes == TotalBytes(<<>>) = 0
<1>1. <<>> \in Seq(Record) /\ Len(<<>>) = 0
  OBVIOUS
<1>2. PICK f \in [0..Len(<<>>) -> Nat] : BytesPassed(<<>>, f) /\ TotalBytes(<<>>) = f[Len(<<>>)]
  BY <1>1, TotalIs
<1> QED
  BY <1>1, <1>2 DEF BytesPassed
(* The dimensions in effect (flightrecorder.go:104-106), passed one record *)
(* at a time.                                                              *)
SizePassed(s, size, f) ==
  /\ f[0] = size
  /\ \A n \in 1..Len(s) : f[n] = IF s[n].type = "resize" THEN s[n].size ELSE f[n - 1]

(* Such a function exists, and evict ends with the dimensions it reaches   *)
(* (flightrecorder.go:102-111).                                            *)
LEMMA SizeIs ==
  ASSUME NEW s \in Seq(Record), NEW size
  PROVE  \E f : SizePassed(s, size, f) /\ SizeAfter(size, s) = f[Len(s)]
<1> DEFINE S == Sizes \cup {size}
           step == [n \in 1..Len(s) |->
                      [z \in S |-> IF s[n].type = "resize" THEN s[n].size ELSE z]]
           Loop(f) == f = [n \in 0..Len(s) |->
                             IF n = 0 THEN size
                             ELSE IF s[n].type = "resize" THEN s[n].size ELSE f[n - 1]]
<1>n. Len(s) \in Nat /\ size \in S
  OBVIOUS
<1>b. \A n \in 1..Len(s) : s[n].type = "resize" => s[n].size \in S
  BY DEF Record
<1>1. step \in [1..Len(s) -> [S -> S]]
  BY <1>b
<1>2. PICK g \in [0..Len(s) -> S] : IsLoop(g, Len(s), size, step)
  <2> HIDE DEF step, S
  <2> QED
    BY <1>n, <1>1, LoopDefined, ZenonT(30)
<1>3. SizePassed(s, size, g)
  <2>1. ASSUME NEW n \in 1..Len(s)
        PROVE  g[n] = IF s[n].type = "resize" THEN s[n].size ELSE g[n - 1]
    <3>1. n - 1 \in 0..Len(s) /\ g[n - 1] \in S
      OBVIOUS
    <3>2. g[n] = step[n][g[n - 1]]
      BY <1>2 DEF IsLoop
    <3> HIDE DEF S
    <3> QED
      BY <3>1, <3>2
  <2> QED
    BY <1>2, <2>1 DEF IsLoop, SizePassed
<1>4. Loop(g)
  <2> DEFINE h == [n \in 0..Len(s) |->
                     IF n = 0 THEN size
                     ELSE IF s[n].type = "resize" THEN s[n].size ELSE g[n - 1]]
  <2>1. \A n \in 0..Len(s) : n = 0 \/ n \in 1..Len(s)
    OBVIOUS
  <2>2. \A n \in 0..Len(s) : h[n] = g[n]
    BY <1>3, <2>1 DEF SizePassed
  <2> QED
    BY <2>2
<1>5. PICK f : f = CHOOSE x : Loop(x)
  OBVIOUS
<1>6. Loop(f)
  <2> HIDE DEF Loop
  <2> QED
    BY <1>4, <1>5
<1>7. SizeAfter(size, s) = f[Len(s)]
  BY <1>5 DEF SizeAfter
<1>8. SizePassed(s, size, f)
  BY <1>6 DEF SizePassed
<1> QED
  BY <1>7, <1>8

(* The dimensions after a part of the records are those the loop reaches   *)
(* at its end.                                                             *)
LEMMA PartSize ==
  ASSUME NEW s \in Seq(Record), NEW t \in Seq(Record), NEW i \in Nat, IsPart(t, s, i),
         NEW size, NEW f, SizePassed(s, size, f)
  PROVE  f[i + Len(t)] = SizeAfter(f[i], t)
<1>g. PICK g : SizePassed(t, f[i], g) /\ SizeAfter(f[i], t) = g[Len(t)]
  BY SizeIs
<1> DEFINE T == {m \in Nat : m <= Len(t) => f[i + m] = g[m]}
<1>1. 0 \in T
  <2>1. i + 0 = i
    OBVIOUS
  <2> QED
    BY <1>g, <2>1 DEF SizePassed
<1>2. ASSUME NEW m \in Nat, m \in T PROVE m + 1 \in T
  <2> SUFFICES ASSUME m + 1 <= Len(t) PROVE f[i + (m + 1)] = g[m + 1]
    OBVIOUS
  <2>1. /\ m + 1 \in 1..Len(t) /\ m + 1 - 1 = m
        /\ i + (m + 1) \in 1..Len(s) /\ i + (m + 1) - 1 = i + m
    BY DEF IsPart
  <2>2. f[i + m] = g[m]
    BY <1>2, <2>1
  <2>3. f[i + (m + 1)] = IF s[i + (m + 1)].type = "resize" THEN s[i + (m + 1)].size
                                                           ELSE f[i + m]
    BY <2>1 DEF SizePassed
  <2>4. g[m + 1] = IF t[m + 1].type = "resize" THEN t[m + 1].size ELSE g[m]
    BY <1>g, <2>1 DEF SizePassed
  <2>5. t[m + 1] = s[i + (m + 1)]
    BY <2>1 DEF IsPart
  <2> QED
    BY <2>2, <2>3, <2>4, <2>5
<1>3. Nat \subseteq T
  <2> HIDE DEF T
  <2> QED
    BY <1>1, <1>2, SetInduction
<1> QED
  BY <1>g, <1>3

(* An evicted resize carries over to the dimensions at the start           *)
(* (flightrecorder.go:98-99, 104-106): after two parts the dimensions are  *)
(* those after the whole.                                                  *)
LEMMA SizesDivide ==
  ASSUME NEW s \in Seq(Record), NEW i \in 0..Len(s), NEW j \in i..Len(s), NEW size
  PROVE  SizeAfter(SizeAfter(size, SubSeq(s, 1, i)), SubSeq(s, i + 1, j))
           = SizeAfter(size, SubSeq(s, 1, j))
<1> DEFINE A == SubSeq(s, 1, i)
           B == SubSeq(s, i + 1, j)
           C == SubSeq(s, 1, j)
<1>1. A \in Seq(Record) /\ Len(A) = i /\ IsPart(A, s, 0)
  BY DEF IsPart
<1>2. B \in Seq(Record) /\ Len(B) = j - i /\ IsPart(B, s, i)
  BY DEF IsPart
<1>3. C \in Seq(Record) /\ Len(C) = j /\ IsPart(C, s, 0)
  BY DEF IsPart
<1> HIDE DEF A, B, C
<1>4. PICK f : SizePassed(s, size, f) /\ SizeAfter(size, s) = f[Len(s)]
  BY SizeIs
<1>5. f[0 + Len(A)] = SizeAfter(f[0], A)
  BY <1>1, <1>4, PartSize
<1>6. i \in Nat /\ f[i + Len(B)] = SizeAfter(f[i], B)
  BY <1>2, <1>4, PartSize
<1>7. f[0 + Len(C)] = SizeAfter(f[0], C)
  BY <1>3, <1>4, PartSize
<1>8. f[0] = size
  BY <1>4 DEF SizePassed
<1>9. 0 + Len(A) = i /\ i + Len(B) = j /\ 0 + Len(C) = j
  BY <1>1, <1>2, <1>3
<1>10. SizeAfter(SizeAfter(size, A), B) = SizeAfter(size, C)
  BY <1>5, <1>6, <1>7, <1>8, <1>9
<1> QED
  BY <1>10 DEF A, B, C

(* No records leave the dimensions as they are (flightrecorder.go:70-72).  *)
LEMMA SameSize == \A size : SizeAfter(size, <<>>) = size
<1> SUFFICES ASSUME NEW size PROVE SizeAfter(size, <<>>) = size
  OBVIOUS
<1>1. <<>> \in Seq(Record) /\ Len(<<>>) = 0
  OBVIOUS
<1>2. PICK f : SizePassed(<<>>, size, f) /\ SizeAfter(size, <<>>) = f[Len(<<>>)]
  BY <1>1, SizeIs
<1> QED
  BY <1>1, <1>2 DEF SizePassed

(* There is a first number of records that fits: the loop of evict stops   *)
(* (flightrecorder.go:102).                                                *)
LEMMA LeastNumber ==
  ASSUME NEW S, S \subseteq Nat, S # {}
  PROVE  \E d \in S : \A e \in S : ~(e < d)
<1>1. IsWellFoundedOn(OpToRel(<, Nat), Nat)
  BY NatLessThanWellFounded
<1>2. PICK d \in S : \A e \in S : ~(<<e, d>> \in OpToRel(<, Nat))
  BY <1>1, WFMin
<1> QED
  BY <1>2 DEF OpToRel

(* evict drops the least first part of the records after which both bounds *)
(* hold or nothing is left (flightrecorder.go:98-113).                     *)
LEMMA EvictDrops ==
  ASSUME NEW r, r.records \in Seq(Record)
  PROVE  \E d \in 0..Len(r.records) :
           /\ FitsAfter(r, d) /\ \A e \in 0..(d - 1) : ~FitsAfter(r, e)
           /\ Evict(r) = [size         |-> SizeAfter(r.size, SubSeq(r.records, 1, d)),
                          droppedBytes |-> r.droppedBytes + TotalBytes(SubSeq(r.records, 1, d)),
                          bytes        |-> r.bytes - TotalBytes(SubSeq(r.records, 1, d)),
                          records      |-> SubSeq(r.records, d + 1, Len(r.records))]
<1> DEFINE First(d) == FitsAfter(r, d) /\ \A e \in 0..(d - 1) : ~FitsAfter(r, e)
           S == {d \in 0..Len(r.records) : FitsAfter(r, d)}
<1>1. S \subseteq Nat /\ Len(r.records) \in S
  BY DEF FitsAfter
<1>2. PICK d \in S : \A e \in S : ~(e < d)
  <2> HIDE DEF S
  <2> QED
    BY <1>1, LeastNumber
<1>3. \E x \in 0..Len(r.records) : First(x)
  <2>1. \A e \in 0..(d - 1) : e \in 0..Len(r.records) /\ e < d
    OBVIOUS
  <2> QED
    BY <1>2, <2>1
<1>4. PICK x : x = CHOOSE y \in 0..Len(r.records) : First(y)
  OBVIOUS
<1>5. x \in 0..Len(r.records) /\ First(x)
  <2> HIDE DEF First
  <2> QED
    BY <1>3, <1>4
<1>6. Evict(r) = [size         |-> SizeAfter(r.size, SubSeq(r.records, 1, x)),
                  droppedBytes |-> r.droppedBytes + TotalBytes(SubSeq(r.records, 1, x)),
                  bytes        |-> r.bytes - TotalBytes(SubSeq(r.records, 1, x)),
                  records      |-> SubSeq(r.records, x + 1, Len(r.records))]
  BY <1>4 DEF Evict
<1> QED
  BY <1>5, <1>6

-----------------------------------------------------------------------------
(* What the recorder keeps.                                                *)

(* What the recorder r keeps of the operations h once the first k of them  *)
(* are gone (flightrecorder.go:60-68).                                     *)
Recording(r, h, k) ==
  r = [size         |-> SizeAfter(InitSize, SubSeq(h, 1, k)),
       droppedBytes |-> TotalBytes(SubSeq(h, 1, k)),
       bytes        |-> TotalBytes(SubSeq(h, k + 1, Len(h))),
       records      |-> SubSeq(h, k + 1, Len(h))]

Bounded(r) == r.bytes <= FlightRecorderBytes /\ Len(r.records) <= FlightRecorderRecords

(* With the last of the k operations that are gone the recorder would      *)
(* exceed a bound (flightrecorder.go:102).                                 *)
Full(r, h, k) ==
  k > 0 => \/ r.bytes + RecordBytes(h[k]) > FlightRecorderBytes
           \/ Len(r.records) + 1 > FlightRecorderRecords

(* The recorder keeps the newest of what was recorded, as many as its      *)
(* bounds allow.                                                           *)
RecorderHolds ==
  /\ \E k \in 0..Len(history.recorded) :
       Recording(recorder, history.recorded, k) /\ Full(recorder, history.recorded, k)
  /\ Bounded(recorder)

(* What lies between the first k and the first n operations.               *)
LEMMA PartIs ==
  ASSUME NEW S, NEW h \in Seq(S), NEW k \in 0..Len(h), NEW n \in k..Len(h)
  PROVE  /\ SubSeq(h, k + 1, n) \in Seq(S) /\ Len(SubSeq(h, k + 1, n)) = n - k
         /\ \A i \in 1..(n - k) : SubSeq(h, k + 1, n)[i] = h[k + i]
<1>1. \A i \in (k + 1)..n : h[i] \in S
  OBVIOUS
<1>2. k + 1 \in Int /\ n \in Int
  OBVIOUS
<1>3. /\ SubSeq(h, k + 1, n) \in Seq(S)
      /\ Len(SubSeq(h, k + 1, n)) = IF k + 1 <= n THEN n - (k + 1) + 1 ELSE 0
      /\ \A i \in 1..(n - (k + 1) + 1) : SubSeq(h, k + 1, n)[i] = h[k + 1 + i - 1]
  BY <1>1, <1>2, SubSeqProperties
<1>4. n - (k + 1) + 1 = n - k /\ \A i \in 1..(n - k) : k + 1 + i - 1 = k + i
  OBVIOUS
<1> QED
  BY <1>3, <1>4

(* Sequences with the same elements are the same.                          *)
LEMMA SameElements ==
  ASSUME NEW S, NEW s \in Seq(S), NEW t \in Seq(S), NEW n \in Nat, Len(s) = n, Len(t) = n,
         \A i \in 1..n : s[i] = t[i]
  PROVE  s = t
  BY SeqEqual

(* Parts of a part are parts of the whole.                                 *)
LEMMA PartOfPart ==
  ASSUME NEW S, NEW h \in Seq(S), NEW k \in 0..Len(h), NEW d \in 0..(Len(h) - k)
  PROVE  /\ SubSeq(SubSeq(h, k + 1, Len(h)), 1, d) = SubSeq(h, k + 1, k + d)
         /\ SubSeq(SubSeq(h, k + 1, Len(h)), d + 1, Len(h) - k) = SubSeq(h, k + d + 1, Len(h))
<1> DEFINE t == SubSeq(h, k + 1, Len(h))
           A == SubSeq(t, 0 + 1, d)
           B == SubSeq(h, k + 1, k + d)
           C == SubSeq(t, d + 1, Len(t))
           D == SubSeq(h, (k + d) + 1, Len(h))
<1>1. t \in Seq(S) /\ Len(t) = Len(h) - k /\ \A i \in 1..(Len(h) - k) : t[i] = h[k + i]
  BY PartIs
<1> HIDE DEF t
<1>n. /\ k + d \in 0..Len(h) /\ k + d \in k..Len(h) /\ Len(h) \in (k + d)..Len(h)
      /\ 0 \in 0..Len(t) /\ d \in 0..Len(t) /\ Len(t) \in d..Len(t)
  BY <1>1
<1>2. A \in Seq(S) /\ Len(A) = d - 0 /\ \A i \in 1..(d - 0) : A[i] = t[0 + i]
  BY <1>1, <1>n, PartIs
<1>3. B \in Seq(S) /\ Len(B) = k + d - k /\ \A i \in 1..(k + d - k) : B[i] = h[k + i]
  BY <1>n, PartIs
<1>4. C \in Seq(S) /\ Len(C) = Len(t) - d /\ \A i \in 1..(Len(t) - d) : C[i] = t[d + i]
  BY <1>1, <1>n, PartIs, ZenonT(40)
<1>5. /\ D \in Seq(S) /\ Len(D) = Len(h) - (k + d)
      /\ \A i \in 1..(Len(h) - (k + d)) : D[i] = h[k + d + i]
  BY <1>n, PartIs
<1> HIDE DEF A, B, C, D
<1>6. A = B
  <2>2. /\ d \in Nat /\ d - 0 = d /\ k + d - k = d
        /\ \A i \in 1..d : 0 + i = i /\ i \in 1..(Len(h) - k)
    OBVIOUS
  <2>1. d \in Nat /\ Len(A) = d /\ Len(B) = d /\ \A i \in 1..d : A[i] = B[i]
    <3>1. Len(A) = d /\ \A i \in 1..d : A[i] = t[i]
      BY <1>2, <2>2
    <3>2. Len(B) = d /\ \A i \in 1..d : B[i] = h[k + i]
      BY <1>3, <2>2
    <3> QED
      BY <1>1, <2>2, <3>1, <3>2
  <2> QED
    BY <1>2, <1>3, <2>1, SameElements
<1>7. C = D
  <2> DEFINE n == Len(h) - (k + d)
  <2>1. n \in Nat /\ Len(C) = n /\ Len(D) = n
    BY <1>1, <1>4, <1>5
  <2>2. ASSUME NEW i \in 1..n PROVE C[i] = D[i]
    <3>1. d + i \in 1..(Len(h) - k) /\ k + (d + i) = k + d + i /\ Len(t) - d = n
      BY <1>1
    <3>2. C[i] = t[d + i] /\ D[i] = h[k + d + i]
      BY <1>4, <1>5, <3>1
    <3> QED
      BY <1>1, <3>1, <3>2
  <2> HIDE DEF n
  <2> QED
    BY <1>4, <1>5, <2>1, <2>2, SameElements
<1>8. SubSeq(t, 1, d) = A /\ SubSeq(t, d + 1, Len(h) - k) = C
  BY <1>1 DEF A, C
<1> QED
  BY <1>6, <1>7, <1>8 DEF B, D, t

(* A recorder with other records and another count of bytes.               *)
LEMMA RecorderWith ==
  ASSUME NEW r, NEW b2, NEW s2,
         r = [size         |-> r.size, droppedBytes |-> r.droppedBytes, bytes |-> r.bytes,
              records      |-> r.records]
  PROVE  [r EXCEPT !.records = s2, !.bytes = b2]
           = [size |-> r.size, droppedBytes |-> r.droppedBytes, bytes |-> b2, records |-> s2]
<1>1. PICK p : p = [r EXCEPT !.records = s2, !.bytes = b2]
  OBVIOUS
<1>2. PICK q : q = [size |-> r.size, droppedBytes |-> r.droppedBytes, bytes |-> b2,
                    records |-> s2]
  OBVIOUS
<1>3. DOMAIN q = DOMAIN p
  BY <1>1, <1>2
<1>4. \A f \in DOMAIN q : q[f] = p[f]
  BY <1>1, <1>2
<1>5. p = q
  BY <1>1, <1>2, <1>3, <1>4
<1> QED
  BY <1>1, <1>2, <1>5

(* Both output and resize append a record (flightrecorder.go:81-87, 94).   *)
LEMMA AppendRecording ==
  ASSUME NEW h \in Seq(Record), NEW k \in 0..Len(h), NEW r, Recording(r, h, k), NEW x \in Record
  PROVE  Recording([r EXCEPT !.records = Append(@, x), !.bytes = @ + RecordBytes(x)],
                   Append(h, x), k)
<1> DEFINE H == Append(h, x)
<1>1. H \in Seq(Record) /\ Len(H) = Len(h) + 1
  OBVIOUS
<1>2. SubSeq(H, 1, k) = SubSeq(h, 1, k)
  OBVIOUS
<1>4. SubSeq(h, k + 1, Len(h)) \in Seq(Record)
  OBVIOUS
<1>3. SubSeq(H, k + 1, Len(H)) = Append(SubSeq(h, k + 1, Len(h)), x)
  <2> DEFINE A == SubSeq(H, k + 1, Len(H))
             B == Append(SubSeq(h, k + 1, Len(h)), x)
             n == Len(h) - k
  <2>1. A \in Seq(Record) /\ Len(A) = n + 1 /\ \A i \in 1..(n + 1) : A[i] = H[k + i]
    <3>1. k \in 0..Len(H) /\ Len(H) \in k..Len(H) /\ Len(H) - k = n + 1
      BY <1>1
    <3> HIDE DEF H
    <3>2. A \in Seq(Record) /\ Len(A) = Len(H) - k /\ \A i \in 1..(Len(H) - k) : A[i] = H[k + i]
      BY <1>1, <3>1, PartIs
    <3> QED
      BY <3>1, <3>2
  <2>2. B \in Seq(Record) /\ Len(B) = n + 1
    BY <1>4
  <2>3. B[n + 1] = x /\ \A i \in 1..n : B[i] = h[k + i]
    OBVIOUS
  <2>4. ASSUME NEW i \in 1..(n + 1) PROVE A[i] = B[i]
    <3>1. H[Len(h) + 1] = x /\ k + (n + 1) = Len(h) + 1
      OBVIOUS
    <3>2. i \in 1..n => k + i \in 1..Len(h) /\ H[k + i] = h[k + i]
      OBVIOUS
    <3>3. i \in 1..n \/ i = n + 1
      OBVIOUS
    <3> HIDE DEF A, B, H
    <3> QED
      BY <2>1, <2>3, <3>1, <3>2, <3>3
  <2>5. n + 1 \in Nat
    OBVIOUS
  <2> HIDE DEF A, B, n
  <2>6. A = B
    BY <2>1, <2>2, <2>4, <2>5, SameElements
  <2> QED
    BY <2>6 DEF A, B
<1>5. TotalBytes(SubSeq(H, k + 1, Len(H))) = TotalBytes(SubSeq(h, k + 1, Len(h))) + RecordBytes(x)
  BY <1>3, <1>4, BytesAppended
<1> HIDE DEF H
<1>6. [r EXCEPT !.records = Append(@, x), !.bytes = @ + RecordBytes(x)]
        = [size         |-> SizeAfter(InitSize, SubSeq(h, 1, k)),
           droppedBytes |-> TotalBytes(SubSeq(h, 1, k)),
           bytes        |-> TotalBytes(SubSeq(h, k + 1, Len(h))) + RecordBytes(x),
           records      |-> Append(SubSeq(h, k + 1, Len(h)), x)]
  <2>1. /\ r.size = SizeAfter(InitSize, SubSeq(h, 1, k))
        /\ r.droppedBytes = TotalBytes(SubSeq(h, 1, k))
        /\ r.bytes = TotalBytes(SubSeq(h, k + 1, Len(h)))
        /\ r.records = SubSeq(h, k + 1, Len(h))
    BY DEF Recording
  <2>2. r = [size |-> r.size, droppedBytes |-> r.droppedBytes, bytes |-> r.bytes,
             records |-> r.records]
    BY DEF Recording
  <2>3. \A b2, s2 : [r EXCEPT !.records = s2, !.bytes = b2]
                     = [size |-> r.size, droppedBytes |-> r.droppedBytes, bytes |-> b2,
                        records |-> s2]
    BY <2>2, RecorderWith, Zenon
  <2>4. [r EXCEPT !.records = Append(@, x), !.bytes = @ + RecordBytes(x)]
          = [r EXCEPT !.records = Append(r.records, x), !.bytes = r.bytes + RecordBytes(x)]
    OBVIOUS
  <2> QED
    BY <2>1, <2>3, <2>4, Zenon
<1> QED
  BY <1>2, <1>3, <1>5, <1>6 DEF Recording, H

(* evict keeps a recording, and brings it within its bounds                *)
(* (flightrecorder.go:98-113).                                             *)
LEMMA EvictRecording ==
  ASSUME NEW h \in Seq(Record), NEW k \in 0..Len(h), NEW r, Recording(r, h, k), Full(r, h, k)
  PROVE  /\ \E m \in 0..Len(h) : Recording(Evict(r), h, m) /\ Full(Evict(r), h, m)
         /\ Bounded(Evict(r))
<1>1. r.records = SubSeq(h, k + 1, Len(h)) /\ r.records \in Seq(Record)
      /\ Len(r.records) = Len(h) - k
  BY DEF Recording
<1>2. PICK d \in 0..Len(r.records) :
        /\ FitsAfter(r, d) /\ \A e \in 0..(d - 1) : ~FitsAfter(r, e)
        /\ Evict(r) = [size         |-> SizeAfter(r.size, SubSeq(r.records, 1, d)),
                       droppedBytes |-> r.droppedBytes + TotalBytes(SubSeq(r.records, 1, d)),
                       bytes        |-> r.bytes - TotalBytes(SubSeq(r.records, 1, d)),
                       records      |-> SubSeq(r.records, d + 1, Len(r.records))]
  BY <1>1, EvictDrops
<1>3. k + d \in 0..Len(h) /\ d \in 0..(Len(h) - k) /\ k \in 0..Len(h) /\ k + d \in k..Len(h)
      /\ Len(h) \in k..Len(h) /\ Len(h) \in (k + d)..Len(h)
  BY <1>1
<1>4. /\ SubSeq(r.records, 1, d) = SubSeq(h, k + 1, k + d)
      /\ SubSeq(r.records, d + 1, Len(r.records)) = SubSeq(h, k + d + 1, Len(h))
  BY <1>1, <1>3, PartOfPart
<1>5. SizeAfter(r.size, SubSeq(h, k + 1, k + d)) = SizeAfter(InitSize, SubSeq(h, 1, k + d))
  BY <1>3, SizesDivide DEF Recording
<1> DEFINE N(i, j) == TotalBytes(SubSeq(h, i, j))
<1>6. N(1, k + d) = N(1, k) + N(k + 1, k + d) /\ N(1, k) \in Nat /\ N(k + 1, k + d) \in Nat
  BY <1>3, BytesDivide
<1>7. N(1, Len(h)) = N(1, k) + N(k + 1, Len(h)) /\ N(k + 1, Len(h)) \in Nat
  BY <1>3, BytesDivide
<1>8. N(1, Len(h)) = N(1, k + d) + N(k + d + 1, Len(h)) /\ N(k + d + 1, Len(h)) \in Nat
  BY <1>3, BytesDivide
<1>9. r.droppedBytes = N(1, k) /\ r.bytes = N(k + 1, Len(h))
  BY DEF Recording
<1>10. Evict(r) = [size         |-> SizeAfter(InitSize, SubSeq(h, 1, k + d)),
                   droppedBytes |-> N(1, k + d),
                   bytes        |-> r.bytes - N(k + 1, k + d),
                   records      |-> SubSeq(h, k + d + 1, Len(h))]
  BY <1>2, <1>4, <1>5, <1>6, <1>9
<1>11. r.bytes - N(k + 1, k + d) = N(k + d + 1, Len(h))
  <2> HIDE DEF N
  <2> QED
    BY <1>6, <1>7, <1>8, <1>9
<1>12. Recording(Evict(r), h, k + d)
  BY <1>10, <1>11 DEF Recording
<1>13. Bounded(Evict(r))
  <2>1. CASE d = Len(r.records)
    <3>1. SubSeq(h, k + d + 1, Len(h)) = <<>>
      BY <1>1, <2>1
    <3>2. N(k + d + 1, Len(h)) = 0
      BY <3>1, NoBytes
    <3>3. Evict(r).bytes = 0 /\ Evict(r).records = <<>>
      BY <1>10, <1>11, <3>1, <3>2
    <3> QED
      BY <3>3, RecorderAssumption DEF Bounded
  <2>2. CASE d # Len(r.records)
    <3>1. /\ r.bytes - TotalBytes(SubSeq(r.records, 1, d)) <= FlightRecorderBytes
          /\ Len(r.records) - d <= FlightRecorderRecords
      BY <1>2, <2>2 DEF FitsAfter
    <3>2. Len(SubSeq(h, k + d + 1, Len(h))) = Len(h) - (k + d)
      BY <1>3
    <3>3. Len(Evict(r).records) = Len(r.records) - d
      BY <1>1, <1>3, <1>10, <3>2
    <3>4. Evict(r).bytes = r.bytes - TotalBytes(SubSeq(r.records, 1, d))
      BY <1>2
    <3> QED
      BY <3>1, <3>3, <3>4 DEF Bounded
  <2> QED
    BY <2>1, <2>2
<1>14. Full(Evict(r), h, k + d)
  <2>r. Evict(r).records = SubSeq(r.records, d + 1, Len(r.records))
        /\ Evict(r).bytes = r.bytes - TotalBytes(SubSeq(r.records, 1, d))
    BY <1>2
  <2>l. Len(Evict(r).records) = Len(r.records) - d
    BY <1>1, <2>r
  <2>1. CASE d = 0
    <3>1. SubSeq(r.records, 1, d) = <<>>
      BY <2>1
    <3>2. Evict(r).bytes = r.bytes
      <4>1. r.bytes \in Nat
        BY <1>7, <1>9
      <4>2. TotalBytes(SubSeq(r.records, 1, d)) = 0
        BY <3>1, NoBytes, Zenon
      <4> QED
        BY ONLY <2>r, <4>1, <4>2
    <3>3. Len(Evict(r).records) = Len(r.records) /\ k + d = k
      BY <1>1, <2>1, <2>l
    <3> QED
      BY <3>2, <3>3 DEF Full
  <2>2. CASE d > 0
    <3> DEFINE P(j) == TotalBytes(SubSeq(r.records, 1, j))
    <3>1. d - 1 \in 0..(d - 1) /\ d - 1 \in 0..Len(r.records) /\ d \in (d - 1)..Len(r.records)
          /\ d - 1 # Len(r.records) /\ d - 1 + 1 = d /\ d \in 1..Len(r.records)
      BY <1>1, <2>2
    <3>2. \/ ~(r.bytes - P(d - 1) <= FlightRecorderBytes)
          \/ ~(Len(r.records) - (d - 1) <= FlightRecorderRecords)
      BY <1>2, <3>1 DEF FitsAfter
    <3>3. r.records[d] = h[k + d] /\ r.records[d] \in Record
      <4>1. d \in 1..(Len(h) - k)
        BY <1>1, <3>1
      <4>2. \A i \in 1..(Len(h) - k) : SubSeq(h, k + 1, Len(h))[i] = h[k + i]
        BY <1>3, PartIs
      <4>3. r.records[d] \in Record
        BY <1>1, <3>1
      <4> QED
        BY <1>1, <4>1, <4>2, <4>3
    <3>4. P(d) = P(d - 1) + RecordBytes(h[k + d]) /\ P(d - 1) \in Nat
      <4>1. SubSeq(r.records, 1, d) = Append(SubSeq(r.records, 1, d - 1), r.records[d])
            /\ SubSeq(r.records, 1, d - 1) \in Seq(Record)
        BY <1>1, <3>1
      <4> QED
        BY <3>3, <4>1, BytesAppended
    <3>5. RecordBytes(h[k + d]) \in Nat
      BY <3>3 DEF RecordBytes, Record
    <3>6. r.bytes \in Nat
      BY <1>7, <1>9
    <3> HIDE DEF P
    <3>7. Evict(r).bytes + RecordBytes(h[k + d]) = r.bytes - P(d - 1)
      BY <2>r, <3>4, <3>5, <3>6 DEF P
    <3>8. Len(Evict(r).records) + 1 = Len(r.records) - (d - 1)
      BY <1>1, <2>l
    <3>9. \/ r.bytes - P(d - 1) > FlightRecorderBytes
          \/ Len(r.records) - (d - 1) > FlightRecorderRecords
      BY <1>1, <3>2, <3>4, <3>6, RecorderAssumption
    <3> QED
      BY <3>7, <3>8, <3>9 DEF Full
  <2> QED
    BY <2>1, <2>2
<1> QED
  BY <1>3, <1>12, <1>13, <1>14

(* Nothing is recorded in a new session (session.go:60-73).                *)
LEMMA InitRecorder == Init => RecorderHolds
<1> SUFFICES ASSUME Init PROVE RecorderHolds
  OBVIOUS
<1>1. history.recorded = <<>> /\ Len(<<>>) = 0
      /\ recorder = [size |-> InitSize, droppedBytes |-> 0, bytes |-> 0, records |-> <<>>]
  BY DEF Init, NewFlightRecorder
<1>2. SubSeq(<<>>, 1, 0) = <<>> /\ SubSeq(<<>>, 0 + 1, 0) = <<>>
  BY SubSeqEmpty
<1>3. Recording(recorder, history.recorded, 0)
  BY <1>1, <1>2, NoBytes, SameSize DEF Recording
<1>4. Bounded(recorder)
  BY <1>1, RecorderAssumption DEF Bounded
<1>5. Full(recorder, history.recorded, 0)
  BY DEF Full
<1> QED
  BY <1>1, <1>3, <1>4, <1>5 DEF RecorderHolds

(* The recorder changes when it is given a record, which it appends, and   *)
(* then evicts (flightrecorder.go:77-96).                                  *)
LEMMA RecordStep ==
  ASSUME RecorderHolds, history.recorded \in Seq(Record), NEW x \in Record,
         history'.recorded = Append(history.recorded, x),
         recorder' = Evict([recorder EXCEPT !.records = Append(@, x),
                                            !.bytes = @ + RecordBytes(x)])
  PROVE  RecorderHolds'
<1>1. PICK k \in 0..Len(history.recorded) :
        Recording(recorder, history.recorded, k) /\ Full(recorder, history.recorded, k)
  BY DEF RecorderHolds
<1>2. PICK h : h = history.recorded
  OBVIOUS
<1>3. PICK r : r = [recorder EXCEPT !.records = Append(@, x), !.bytes = @ + RecordBytes(x)]
  OBVIOUS
<1>4. Recording(r, Append(h, x), k)
  BY <1>1, <1>2, <1>3, AppendRecording
<1>5. Append(h, x) \in Seq(Record) /\ k \in 0..Len(Append(h, x))
  BY <1>2
<1>9. Full(r, Append(h, x), k)
  <2>1. recorder = [size |-> recorder.size, droppedBytes |-> recorder.droppedBytes,
                    bytes |-> recorder.bytes, records |-> recorder.records]
        /\ recorder.bytes \in Nat /\ recorder.records \in Seq(Record)
    <3>1. Len(h) \in k..Len(h) /\ k \in 0..Len(h)
      BY <1>2
    <3>2. TotalBytes(SubSeq(h, k + 1, Len(h))) \in Nat /\ SubSeq(h, k + 1, Len(h)) \in Seq(Record)
      BY <1>2, <3>1, BytesDivide
    <3> QED
      BY <1>1, <1>2, <3>2 DEF Recording
  <2>2. r = [size |-> recorder.size, droppedBytes |-> recorder.droppedBytes,
             bytes |-> recorder.bytes + RecordBytes(x), records |-> Append(recorder.records, x)]
    <3>1. PICK b2 : b2 = recorder.bytes + RecordBytes(x)
      OBVIOUS
    <3>2. PICK s2 : s2 = Append(recorder.records, x)
      OBVIOUS
    <3>3. r = [recorder EXCEPT !.records = s2, !.bytes = b2]
      BY <1>3, <3>1, <3>2
    <3> QED
      BY <2>1, <3>1, <3>2, <3>3, RecorderWith, Zenon
  <2>3. RecordBytes(x) \in Nat
    BY DEF RecordBytes, Record
  <2>4. r.bytes >= recorder.bytes /\ r.bytes \in Nat
    BY <2>1, <2>2, <2>3
  <2>5. Len(r.records) = Len(recorder.records) + 1 /\ Len(recorder.records) \in Nat
    BY <2>1, <2>2
  <2>6. ASSUME k > 0
        PROVE  \/ r.bytes + RecordBytes(Append(h, x)[k]) > FlightRecorderBytes
               \/ Len(r.records) + 1 > FlightRecorderRecords
    <3>1. Append(h, x)[k] = h[k] /\ h[k] \in Record
      BY <1>2, <2>6
    <3>2. RecordBytes(h[k]) \in Nat
      BY <3>1 DEF RecordBytes, Record
    <3>3. \/ recorder.bytes + RecordBytes(h[k]) > FlightRecorderBytes
          \/ Len(recorder.records) + 1 > FlightRecorderRecords
      BY <1>1, <1>2, <2>6 DEF Full
    <3>4. PICK b : b = RecordBytes(h[k])
      OBVIOUS
    <3> QED
      BY <2>1, <2>4, <2>5, <3>1, <3>2, <3>3, <3>4, RecorderAssumption
  <2> QED
    BY <2>6 DEF Full
<1>6. PICK m \in 0..Len(Append(h, x)) :
        Recording(Evict(r), Append(h, x), m) /\ Full(Evict(r), Append(h, x), m)
  BY <1>4, <1>5, <1>9, EvictRecording
<1>7. Bounded(Evict(r))
  BY <1>4, <1>5, <1>9, EvictRecording
<1>8. recorder' = Evict(r) /\ history'.recorded = Append(h, x)
  BY <1>2, <1>3
<1> QED
  BY <1>6, <1>7, <1>8 DEF RecorderHolds, Recording, Bounded, Full

(* Every step of a session preserves the recording (session.go:156-164,    *)
(* 425-434): only the read loop and Resize use the recorder.               *)
LEMMA RecorderStep == TypeInv /\ RecorderHolds /\ [Next]_vars => RecorderHolds'
<1> SUFFICES ASSUME TypeInv, RecorderHolds, [Next]_vars PROVE RecorderHolds'
  OBVIOUS
<1>t. /\ history \in HistoryType /\ history.recorded \in Seq(Record)
      /\ reader \in ReaderType /\ terminal \in TerminalType
  BY DEF TypeInv, TypeOK, HistoryType
<1>1. CASE RecordOutput
  <2>1. reader.chunk.bytes \in Nat /\ terminal.revision \in Nat
    BY <1>1, <1>t, SessionAssumption
    DEF RecordOutput, TypeInv, ReaderHolds, Chunk, TerminalType
  <2> DEFINE x == OutputRecord(reader.chunk.bytes, terminal.revision)
  <2>2. x \in Record /\ RecordBytes(x) = reader.chunk.bytes
    BY <2>1 DEF OutputRecord, Record, RecordBytes
  <2>3. history'.recorded = Append(history.recorded, x)
    BY <1>1, <1>t DEF RecordOutput, HistoryType
  <2>4. recorder' = Evict([recorder EXCEPT !.records = Append(@, x),
                                           !.bytes = @ + RecordBytes(x)])
    BY <1>1, <2>2 DEF RecordOutput, Output
  <2> HIDE DEF x
  <2> QED
    BY <1>t, <2>2, <2>3, <2>4, RecordStep
<1>2. ASSUME NEW r \in Resizers, ResizeRecorder(r) PROVE RecorderHolds'
  <2>1. resize[r].size \in Sizes
    BY <1>2 DEF ResizeRecorder, TypeInv, ResizeAsked
  <2> DEFINE x == ResizeRecord(resize[r].size)
  <2>2. x \in Record /\ RecordBytes(x) = 0
    BY <2>1 DEF ResizeRecord, Record, RecordBytes
  <2>3. history'.recorded = Append(history.recorded, x)
    BY <1>2, <1>t DEF ResizeRecorder, HistoryType
  <2>4. PICK k \in 0..Len(history.recorded) : Recording(recorder, history.recorded, k)
    BY DEF RecorderHolds
  <2>5. recorder.bytes \in Nat
    <3>1. Len(history.recorded) \in k..Len(history.recorded)
      BY <1>t
    <3>2. TotalBytes(SubSeq(history.recorded, k + 1, Len(history.recorded))) \in Nat
      BY <1>t, <3>1, BytesDivide
    <3> QED
      BY <2>4, <3>2 DEF Recording
  <2>6. recorder = [size |-> recorder.size, droppedBytes |-> recorder.droppedBytes,
                    bytes |-> recorder.bytes, records |-> recorder.records]
    BY <2>4 DEF Recording
  <2>7. [recorder EXCEPT !.records = Append(@, x)]
          = [recorder EXCEPT !.records = Append(@, x), !.bytes = @ + RecordBytes(x)]
    <3>1. recorder.bytes + RecordBytes(x) = recorder.bytes
      BY <2>2, <2>5
    <3> HIDE DEF x
    <3> QED
      BY <2>6, <3>1
  <2>8. recorder' = Evict([recorder EXCEPT !.records = Append(@, x),
                                           !.bytes = @ + RecordBytes(x)])
    BY <1>2, <2>7 DEF ResizeRecorder, Resized
  <2> HIDE DEF x
  <2> QED
    BY <1>t, <2>2, <2>3, <2>8, RecordStep
<1>3. ASSUME recorder' = recorder, history'.recorded = history.recorded
      PROVE  RecorderHolds'
  BY <1>3 DEF RecorderHolds, Bounded, Recording, Full
<1>4. CASE ReaderNext /\ ~RecordOutput
  BY <1>3, <1>4, <1>t
  DEF ReaderNext, Read, SignalOutput, ApplyOutput, SignalApplied, DrainEvent, AnswerBegin,
      AnswerWrite, PublishEvent, CloseEndedStream, Finish, HistoryType
<1>5. ASSUME NEW s \in Senders, SendBegin(s) \/ SendWrite(s) PROVE RecorderHolds'
  BY <1>3, <1>5 DEF SendBegin, SendWrite
<1>6. ASSUME NEW r \in Resizers,
             ResizeBegin(r) \/ ResizeStream(r) \/ ResizeTerminal(r) \/ ResizeSignal(r)
      PROVE  RecorderHolds'
  <2>1. recorder' = recorder /\ history'.recorded = history.recorded
    BY <1>6, <1>t DEF ResizeBegin, ResizeStream, ResizeTerminal, ResizeSignal, HistoryType
  <2> QED
    BY <1>3, <2>1
<1>7. ASSUME NEW c \in Closers, CloseBegin(c) \/ CloseStream(c) \/ CloseReturn(c)
      PROVE  RecorderHolds'
  BY <1>3, <1>7 DEF CloseBegin, CloseStream, CloseReturn
<1>8. CASE UNCHANGED machine
  BY <1>3, <1>8 DEF machine
<1> QED
  BY <1>1, <1>2, <1>4, <1>5, <1>6, <1>7, <1>8, StepKinds DEF MachineNext, ResizeNext

(* The recorder keeps the newest records within its bounds, and no fewer   *)
(* than they allow, accounts for every byte, and starts from the           *)
(* dimensions in effect before its first record (flightrecorder.go:77-113),*)
(* whoever resizes and whatever the host writes.                           *)
THEOREM RecorderCorrect == Spec => []RecorderKeepsNewest
<1>1. TypeInv /\ RecorderHolds => RecorderKeepsNewest
  <2> SUFFICES ASSUME TypeInv, RecorderHolds PROVE RecorderKeepsNewest
    OBVIOUS
  <2>1. PICK k \in 0..Len(history.recorded) :
          Recording(recorder, history.recorded, k) /\ Full(recorder, history.recorded, k)
    BY DEF RecorderHolds
  <2>2. PICK h : h = history.recorded
    OBVIOUS
  <2>h. h \in Seq(Record)
    BY <2>2 DEF TypeInv, TypeOK, HistoryType
  <2>3. PICK t : t = SubSeq(h, k + 1, Len(h))
    OBVIOUS
  <2>4. Len(h) \in k..Len(h) /\ k \in 0..Len(h)
    BY <2>2, <2>h
  <2>5. t \in Seq(Record) /\ Len(t) = Len(h) - k /\ \A i \in 1..(Len(h) - k) : t[i] = h[k + i]
    BY <2>3, <2>4, <2>h, PartIs
  <2>6. /\ recorder.size = SizeAfter(InitSize, SubSeq(h, 1, k)) /\ recorder.records = t
        /\ recorder.droppedBytes = TotalBytes(SubSeq(h, 1, k)) /\ recorder.bytes = TotalBytes(t)
    BY <2>1, <2>2, <2>3 DEF Recording
  <2>7. Len(h) - Len(t) = k
    BY <2>4, <2>5, <2>h
  <2>8. recorder.bytes + recorder.droppedBytes = TotalBytes(h)
    <3>1. SubSeq(h, 1, Len(h)) = h
      BY <2>h, SubSeqFull
    <3>2. /\ TotalBytes(SubSeq(h, 1, k)) \in Nat /\ TotalBytes(t) \in Nat
          /\ TotalBytes(SubSeq(h, 1, Len(h))) = TotalBytes(SubSeq(h, 1, k)) + TotalBytes(t)
      BY <2>3, <2>4, <2>h, BytesDivide
    <3>3. TotalBytes(h) = TotalBytes(SubSeq(h, 1, k)) + TotalBytes(t)
      BY <3>1, <3>2, Zenon
    <3>4. \A a, b \in Nat : a + b = b + a
      OBVIOUS
    <3>5. TotalBytes(SubSeq(h, 1, k)) + TotalBytes(t) = TotalBytes(t) + TotalBytes(SubSeq(h, 1, k))
      BY <3>2, <3>4, Zenon
    <3> QED
      BY <2>6, <3>3, <3>5, Zenon
  <2>9. IsSuffix(t, h)
    <3> DEFINE rt == Reverse(t)
               rh == Reverse(h)
               n == Len(t)
               A == SubSeq(rt, 1, n)
               B == SubSeq(rh, 1, n)
    <3>1. rt \in Seq(Record) /\ Len(rt) = n /\ \A i \in 1..n : rt[i] = t[n - i + 1]
      BY <2>5 DEF Reverse
    <3>2. rh \in Seq(Record) /\ Len(rh) = Len(h) /\ \A i \in 1..Len(h) : rh[i] = h[Len(h) - i + 1]
      BY <2>h DEF Reverse
    <3>3. n \in Nat /\ n <= Len(h) /\ Len(h) \in Nat /\ Len(h) = k + n
      BY <2>4, <2>5, <2>h
    <3> HIDE DEF rt, rh, n
    <3>4. A \in Seq(Record) /\ Len(A) = n /\ \A i \in 1..n : A[i] = rt[i]
      BY <3>1, <3>3
    <3>5. B \in Seq(Record) /\ Len(B) = n /\ \A i \in 1..n : B[i] = rh[i]
      BY <3>2, <3>3
    <3>6. ASSUME NEW i \in 1..n PROVE A[i] = B[i]
      <4>1. n - i + 1 \in 1..n /\ i \in 1..Len(h) /\ Len(h) - i + 1 = k + (n - i + 1)
            /\ n = Len(h) - k
        BY <2>4, <3>3
      <4>2. t[n - i + 1] = h[k + (n - i + 1)]
        BY <2>5, <4>1
      <4> QED
        BY <3>1, <3>2, <3>4, <3>5, <4>1, <4>2
    <3> HIDE DEF A, B
    <3>7. A = B
      BY <3>3, <3>4, <3>5, <3>6, SameElements
    <3> QED
      BY <3>1, <3>2, <3>3, <3>7 DEF IsSuffix, IsPrefix, A, B, rt, rh
  <2>10. k > 0 => \/ recorder.bytes + RecordBytes(h[k]) > FlightRecorderBytes
                  \/ Len(recorder.records) + 1 > FlightRecorderRecords
    BY <2>1, <2>2 DEF Full
  <2> QED
    BY <2>2, <2>6, <2>7, <2>8, <2>9, <2>10 DEF RecorderKeepsNewest, RecorderHolds, Bounded
<1>2. Init => TypeInv /\ RecorderHolds
  BY InitTyped, InitRecorder
<1>3. TypeInv /\ RecorderHolds /\ [Next]_vars => TypeInv' /\ RecorderHolds'
  BY NextTyped, RecorderStep
<1> QED
  BY <1>1, <1>2, <1>3, PTL DEF Spec

-----------------------------------------------------------------------------
(* The output the recorder has.                                            *)

(* The host's output among the operations, passed one operation at a time. *)
OutputsPassed(s, f) ==
  /\ f[0] = <<>>
  /\ \A n \in 1..Len(s) :
       f[n] = IF s[n].type = "output" THEN Append(f[n - 1], s[n].bytes) ELSE f[n - 1]

(* Such a function exists, and Outputs is what it reaches at the end.      *)
LEMMA OutputsIs ==
  ASSUME NEW s \in Seq(Record)
  PROVE  \E f \in [0..Len(s) -> Seq(Nat)] : OutputsPassed(s, f) /\ Outputs(s) = f[Len(s)]
<1> DEFINE S == Seq(Nat)
           step == [n \in 1..Len(s) |->
                      [o \in S |-> IF s[n].type = "output" THEN Append(o, s[n].bytes) ELSE o]]
           Loop(f) == f = [n \in 0..Len(s) |->
                             IF n = 0 THEN <<>>
                             ELSE IF s[n].type = "output" THEN Append(f[n - 1], s[n].bytes)
                             ELSE f[n - 1]]
<1>n. Len(s) \in Nat /\ <<>> \in S
  OBVIOUS
<1>b. \A n \in 1..Len(s) : s[n].type = "output" => s[n].bytes \in Nat
  BY DEF Record
<1>c. \A n \in 1..Len(s) : \A o \in S : s[n].type = "output" => Append(o, s[n].bytes) \in S
  BY <1>b
<1>1. step \in [1..Len(s) -> [S -> S]]
  <2> HIDE DEF S
  <2> QED
    BY <1>c
<1>2. PICK g \in [0..Len(s) -> S] : IsLoop(g, Len(s), <<>>, step)
  <2> HIDE DEF step, S
  <2> QED
    BY <1>n, <1>1, LoopDefined, ZenonT(30)
<1>3. OutputsPassed(s, g)
  <2>1. ASSUME NEW n \in 1..Len(s)
        PROVE  g[n] = IF s[n].type = "output" THEN Append(g[n - 1], s[n].bytes) ELSE g[n - 1]
    <3>1. n - 1 \in 0..Len(s) /\ g[n - 1] \in S
      BY SMTT(40)
    <3>2. g[n] = step[n][g[n - 1]]
      BY <1>2 DEF IsLoop
    <3> HIDE DEF S
    <3> QED
      BY <3>1, <3>2
  <2> QED
    BY <1>2, <2>1 DEF IsLoop, OutputsPassed
<1>4. Loop(g)
  <2> DEFINE h == [n \in 0..Len(s) |->
                     IF n = 0 THEN <<>>
                     ELSE IF s[n].type = "output" THEN Append(g[n - 1], s[n].bytes)
                     ELSE g[n - 1]]
  <2>1. \A n \in 0..Len(s) : n = 0 \/ n \in 1..Len(s)
    OBVIOUS
  <2>2. \A n \in 0..Len(s) : h[n] = g[n]
    BY <1>3, <2>1 DEF OutputsPassed
  <2> QED
    BY <2>2
<1>5. PICK f : f = CHOOSE x : Loop(x)
  OBVIOUS
<1>6. Loop(f)
  <2> HIDE DEF Loop
  <2> QED
    BY <1>4, <1>5
<1>7. Outputs(s) = f[Len(s)]
  BY <1>5 DEF Outputs
<1>8. OutputsPassed(s, f) /\ DOMAIN f = 0..Len(s)
  <2>1. DOMAIN f = 0..Len(s)
    BY <1>6
  <2>2. \A n \in 0..Len(s) :
          f[n] = IF n = 0 THEN <<>>
                 ELSE IF s[n].type = "output" THEN Append(f[n - 1], s[n].bytes)
                 ELSE f[n - 1]
    BY <1>6
  <2>3. 0 \in 0..Len(s) /\ \A n \in 1..Len(s) : n \in 0..Len(s) /\ n # 0
    OBVIOUS
  <2> HIDE DEF Loop
  <2>4. f[0] = <<>>
    BY <2>2, <2>3
  <2>5. \A n \in 1..Len(s) :
          f[n] = IF s[n].type = "output" THEN Append(f[n - 1], s[n].bytes) ELSE f[n - 1]
    BY <2>2, <2>3
  <2> QED
    BY <2>1, <2>4, <2>5 DEF OutputsPassed
<1>9. \A n \in 0..Len(s) : f[n] \in S
  <2> DEFINE T == {n \in Nat : n <= Len(s) => f[n] \in S}
  <2>1. 0 \in T
    <3>1. f[0] = <<>>
      BY <1>8 DEF OutputsPassed
    <3> QED
      BY <1>n, <3>1
  <2>2. ASSUME NEW n \in Nat, n \in T PROVE n + 1 \in T
    <3> SUFFICES ASSUME n + 1 <= Len(s) PROVE f[n + 1] \in S
      OBVIOUS
    <3>1. n + 1 \in 1..Len(s) /\ n + 1 - 1 = n /\ f[n] \in S
      BY <2>2
    <3> HIDE DEF S
    <3> QED
      BY <1>8, <1>c, <3>1 DEF OutputsPassed
  <2>3. Nat \subseteq T
    <3> HIDE DEF T
    <3> QED
      BY <2>1, <2>2, SetInduction
  <2> QED
    BY <2>3
<1>10. f \in [0..Len(s) -> S]
  <2> HIDE DEF S
  <2> QED
    BY <1>6, <1>9
<1> QED
  BY <1>7, <1>8, <1>10

(* A first part of the operations has the outputs passed at its end.       *)
LEMMA PartOutputs ==
  ASSUME NEW s \in Seq(Record), NEW t \in Seq(Record), IsPart(t, s, 0),
         NEW f, OutputsPassed(s, f)
  PROVE  f[Len(t)] = Outputs(t)
<1>g. PICK g \in [0..Len(t) -> Seq(Nat)] : OutputsPassed(t, g) /\ Outputs(t) = g[Len(t)]
  BY OutputsIs
<1> DEFINE T == {m \in Nat : m <= Len(t) => f[m] = g[m]}
<1>1. 0 \in T
  BY <1>g DEF OutputsPassed
<1>2. ASSUME NEW m \in Nat, m \in T PROVE m + 1 \in T
  <2> SUFFICES ASSUME m + 1 <= Len(t) PROVE f[m + 1] = g[m + 1]
    OBVIOUS
  <2>1. m + 1 \in 1..Len(t) /\ m + 1 - 1 = m /\ m + 1 \in 1..Len(s) /\ 0 + (m + 1) = m + 1
    BY DEF IsPart
  <2>2. f[m] = g[m]
    BY <1>2, <2>1
  <2>3. f[m + 1] = IF s[m + 1].type = "output" THEN Append(f[m], s[m + 1].bytes) ELSE f[m]
    BY <2>1 DEF OutputsPassed
  <2>4. g[m + 1] = IF t[m + 1].type = "output" THEN Append(g[m], t[m + 1].bytes) ELSE g[m]
    BY <1>g, <2>1 DEF OutputsPassed
  <2>5. t[m + 1] = s[m + 1]
    BY <2>1 DEF IsPart
  <2> QED
    BY <2>2, <2>3, <2>4, <2>5
<1>3. Nat \subseteq T
  <2> HIDE DEF T
  <2> QED
    BY <1>1, <1>2, SetInduction
<1> QED
  BY <1>g, <1>3

(* An operation adds its output, if it is one (session.go:156-164,         *)
(* flightrecorder.go:77-96).                                               *)
LEMMA OutputsAppended ==
  ASSUME NEW s \in Seq(Record), NEW x \in Record
  PROVE  /\ Outputs(s) \in Seq(Nat)
         /\ x.type = "output" => Outputs(Append(s, x)) = Append(Outputs(s), x.bytes)
         /\ x.type = "resize" => Outputs(Append(s, x)) = Outputs(s)
<1> DEFINE t == Append(s, x)
<1>1. t \in Seq(Record) /\ Len(t) = Len(s) + 1 /\ IsPart(s, t, 0)
  BY DEF IsPart
<1>2. t[Len(s) + 1] = x
  OBVIOUS
<1> HIDE DEF t
<1>3. PICK f \in [0..Len(t) -> Seq(Nat)] : OutputsPassed(t, f) /\ Outputs(t) = f[Len(t)]
  BY <1>1, OutputsIs
<1>4. f[Len(s)] = Outputs(s) /\ f[Len(s)] \in Seq(Nat)
  <2>1. Len(s) \in 0..Len(t)
    BY <1>1
  <2> QED
    BY <1>1, <1>3, <2>1, PartOutputs
<1>5. Len(s) + 1 \in 1..Len(t) /\ Len(s) + 1 - 1 = Len(s)
  BY <1>1
<1>6. f[Len(s) + 1] = IF x.type = "output" THEN Append(f[Len(s)], x.bytes) ELSE f[Len(s)]
  BY <1>2, <1>3, <1>5 DEF OutputsPassed
<1> QED
  BY <1>1, <1>3, <1>4, <1>6 DEF t

(* A first part of the outputs is one of more outputs.                     *)
LEMMA PrefixAppended ==
  ASSUME NEW a \in Seq(Nat), NEW b \in Seq(Nat), IsPrefix(a, b), NEW x \in Nat
  PROVE  IsPrefix(a, Append(b, x))
<1>1. Len(a) <= Len(b) /\ SubSeq(a, 1, Len(a)) = SubSeq(b, 1, Len(a))
  BY DEF IsPrefix
<1>2. SubSeq(Append(b, x), 1, Len(a)) = SubSeq(b, 1, Len(a))
  BY <1>1
<1>3. Len(Append(b, x)) = Len(b) + 1
  OBVIOUS
<1> QED
  BY <1>1, <1>2, <1>3 DEF IsPrefix

(* The outputs of a first part come first among the outputs.               *)
LEMMA OutputsPrefix ==
  ASSUME NEW s \in Seq(Record), NEW k \in 0..Len(s)
  PROVE  IsPrefix(Outputs(SubSeq(s, 1, k)), Outputs(s))
<1> DEFINE t == SubSeq(s, 1, k)
<1>1. t \in Seq(Record) /\ Len(t) = k /\ IsPart(t, s, 0)
  BY DEF IsPart
<1> HIDE DEF t
<1>2. PICK f \in [0..Len(s) -> Seq(Nat)] : OutputsPassed(s, f) /\ Outputs(s) = f[Len(s)]
  BY OutputsIs
<1>3. Outputs(t) = f[k]
  BY <1>1, <1>2, PartOutputs
<1> DEFINE T == {m \in Nat : k + m <= Len(s) => IsPrefix(f[k], f[k + m])}
<1>4. 0 \in T
  BY DEF IsPrefix
<1>5. ASSUME NEW m \in Nat, m \in T PROVE m + 1 \in T
  <2> SUFFICES ASSUME k + (m + 1) <= Len(s) PROVE IsPrefix(f[k], f[k + (m + 1)])
    OBVIOUS
  <2>1. /\ k \in 0..Len(s) /\ k + m \in 0..Len(s) /\ k + (m + 1) \in 1..Len(s)
        /\ k + (m + 1) - 1 = k + m /\ k + m <= Len(s)
    OBVIOUS
  <2>2. IsPrefix(f[k], f[k + m]) /\ f[k] \in Seq(Nat) /\ f[k + m] \in Seq(Nat)
    BY <1>5, <2>1
  <2> DEFINE x == s[k + (m + 1)]
  <2>3. x.type = "output" => x.bytes \in Nat
    BY <2>1 DEF Record
  <2>4. f[k + (m + 1)] = IF x.type = "output" THEN Append(f[k + m], x.bytes) ELSE f[k + m]
    BY <1>2, <2>1 DEF OutputsPassed
  <2> HIDE DEF x
  <2>5. x.type = "output" => IsPrefix(f[k], Append(f[k + m], x.bytes))
    BY <2>2, <2>3, PrefixAppended
  <2> QED
    BY <2>2, <2>4, <2>5
<1>6. Nat \subseteq T
  <2> HIDE DEF T
  <2> QED
    BY <1>4, <1>5, SetInduction
<1>7. IsPrefix(f[k], f[Len(s)])
  <2>1. Len(s) - k \in Nat /\ k + (Len(s) - k) = Len(s) /\ Len(s) <= Len(s)
    OBVIOUS
  <2> QED
    BY <1>6, <2>1
<1> QED
  BY <1>2, <1>3, <1>7 DEF t

(* The output applied is the output recorded, but for the read that is     *)
(* being recorded under the recorder's lock (flightrecorder.go:77-89); and *)
(* a waiter knows of no operation before it is applied.                    *)
OutputsHold ==
  /\ Outputs(history.applied) = IF reader.pc = "record"
                                  THEN Append(Outputs(history.recorded), reader.chunk.bytes)
                                  ELSE Outputs(history.recorded)
  /\ \A w \in Waiting : wait[w].applied <= Len(history.applied)

(* Every step of a session preserves it (session.go:156-164, 172-273,      *)
(* 425-434).                                                               *)
LEMMA OutputsStep == TypeInv /\ OutputsHold /\ [Next]_vars => OutputsHold'
<1> SUFFICES ASSUME TypeInv, OutputsHold, [Next]_vars PROVE OutputsHold'
  OBVIOUS
<1>t. /\ history \in HistoryType /\ reader \in ReaderType /\ terminal \in TerminalType
      /\ history.recorded \in Seq(Record) /\ history.applied \in Seq(Record)
      /\ wait \in [Waiting -> WaiterType] /\ resize \in [Resizers -> ResizerType]
  BY DEF TypeInv, TypeOK, HistoryType
<1>w. \A w \in Waiting : wait[w].applied \in Nat
  BY <1>t DEF WaiterType
<1>1. CASE ApplyOutput
  <2> DEFINE b == reader.chunk.bytes
             x == OutputRecord(b, terminal'.revision)
  <2>1. b \in Nat /\ terminal'.revision \in Nat
    BY <1>1, <1>t, SessionAssumption, SMTT(40)
    DEF ApplyOutput, TypeInv, ReaderHolds, Chunk, TerminalType
  <2>2. x \in Record /\ x.type = "output" /\ x.bytes = b
    BY <2>1 DEF OutputRecord, Record
  <2>3. history'.applied = Append(history.applied, x) /\ history'.recorded = history.recorded
    BY <1>1, <1>t DEF ApplyOutput, HistoryType, TerminalType
  <2>4. reader.pc = "apply" /\ reader'.pc = "record" /\ reader'.chunk = reader.chunk
        /\ wait' = wait
    BY <1>1, <1>t DEF ApplyOutput, ReaderType, callers
  <2>5. Outputs(history'.applied) = Append(Outputs(history.applied), b)
    <3> HIDE DEF x
    <3> QED
      BY <1>t, <2>2, <2>3, OutputsAppended
  <2>6. Len(history'.applied) = Len(history.applied) + 1
    BY <1>t, <2>3
  <2> HIDE DEF x, b
  <2>7. Outputs(history'.applied) = Append(Outputs(history'.recorded), b)
    BY <2>3, <2>4, <2>5 DEF OutputsHold
  <2> QED
    BY <1>t, <1>w, <2>4, <2>6, <2>7 DEF OutputsHold, b
<1>2. CASE RecordOutput
  <2> DEFINE b == reader.chunk.bytes
             x == OutputRecord(b, terminal.revision)
  <2>1. b \in Nat /\ terminal.revision \in Nat
    BY <1>2, <1>t, SessionAssumption
    DEF RecordOutput, TypeInv, ReaderHolds, Chunk, TerminalType
  <2>2. x \in Record /\ x.type = "output" /\ x.bytes = b
    BY <2>1 DEF OutputRecord, Record
  <2>3. history'.recorded = Append(history.recorded, x) /\ history'.applied = history.applied
    BY <1>2, <1>t DEF RecordOutput, HistoryType
  <2>4. reader.pc = "record" /\ reader'.pc # "record" /\ wait' = wait
    BY <1>2, <1>t DEF RecordOutput, ReaderType, callers
  <2>5. Outputs(history'.recorded) = Append(Outputs(history.recorded), b)
    <3> HIDE DEF x
    <3> QED
      BY <1>t, <2>2, <2>3, OutputsAppended
  <2> QED
    BY <2>3, <2>4, <2>5 DEF OutputsHold
<1>3. ASSUME NEW r \in Resizers, ResizeTerminal(r) PROVE OutputsHold'
  <2>1. resize[r].size \in Sizes
    BY <1>3 DEF ResizeTerminal, TypeInv, ResizeAsked
  <2> DEFINE x == ResizeRecord(resize[r].size)
  <2>2. x \in Record /\ x.type = "resize"
    BY <2>1 DEF ResizeRecord, Record
  <2>3. history'.recorded = history.recorded /\ reader' = reader /\ wait' = wait
    BY <1>3, <1>t DEF ResizeTerminal, HistoryType, callers
  <2>4. history'.applied \in {history.applied, Append(history.applied, x)}
    BY <1>3, <1>t DEF ResizeTerminal, HistoryType
  <2>5. Outputs(Append(history.applied, x)) = Outputs(history.applied)
    <3> HIDE DEF x
    <3> QED
      BY <1>t, <2>2, OutputsAppended
  <2>6. Len(history'.applied) >= Len(history.applied)
    BY <1>t, <2>4
  <2>7. Outputs(history'.applied) = Outputs(history.applied)
    <3> HIDE DEF x
    <3> QED
      BY <2>4, <2>5
  <2>8. Len(history'.applied) \in Nat /\ Len(history.applied) \in Nat
    BY <1>t, <2>4
  <2> QED
    BY <1>w, <2>3, <2>6, <2>7, <2>8 DEF OutputsHold
<1>4. ASSUME NEW r \in Resizers, ResizeRecorder(r) PROVE OutputsHold'
  <2>1. resize[r].size \in Sizes
    BY <1>4 DEF ResizeRecorder, TypeInv, ResizeAsked
  <2> DEFINE x == ResizeRecord(resize[r].size)
  <2>2. x \in Record /\ x.type = "resize"
    BY <2>1 DEF ResizeRecord, Record
  <2>3. /\ history'.recorded = Append(history.recorded, x) /\ history'.applied = history.applied
        /\ reader' = reader /\ wait' = wait
    BY <1>4, <1>t DEF ResizeRecorder, HistoryType, callers
  <2>4. Outputs(history'.recorded) = Outputs(history.recorded)
    <3> HIDE DEF x
    <3> QED
      BY <1>t, <2>2, <2>3, OutputsAppended
  <2> QED
    BY <2>3, <2>4 DEF OutputsHold
<1>5. ASSUME history'.applied = history.applied, history'.recorded = history.recorded,
             reader' = reader \/ (reader.pc # "record" /\ reader'.pc # "record"), wait' = wait
      PROVE  OutputsHold'
  BY <1>5 DEF OutputsHold
<1>6. CASE ReaderNext /\ ~ApplyOutput /\ ~RecordOutput
  <2>1. /\ history'.applied = history.applied /\ history'.recorded = history.recorded
        /\ wait' = wait
    BY <1>6, <1>t
    DEF ReaderNext, Read, SignalOutput, SignalApplied, DrainEvent, AnswerBegin,
        AnswerWrite, PublishEvent, CloseEndedStream, Finish, HistoryType, callers
  <2>2. reader.pc # "record" /\ reader'.pc # "record"
    BY <1>6, <1>t
    DEF ReaderNext, Read, NextTurn, SignalOutput, SignalApplied, DrainEvent, AnswerBegin,
        AnswerFailed, AnswerWrite, PublishEvent, CloseEndedStream, Finish, ReaderType
  <2> QED
    BY <1>5, <2>1, <2>2
<1>7. ASSUME NEW s \in Senders, SendBegin(s) \/ SendWrite(s) PROVE OutputsHold'
  BY <1>5, <1>7 DEF SendBegin, SendWrite, callers
<1>8. ASSUME NEW r \in Resizers, ResizeBegin(r) \/ ResizeStream(r) \/ ResizeSignal(r)
      PROVE  OutputsHold'
  BY <1>5, <1>8 DEF ResizeBegin, ResizeStream, ResizeSignal, callers
<1>9. ASSUME NEW c \in Closers, CloseBegin(c) \/ CloseStream(c) \/ CloseReturn(c)
      PROVE  OutputsHold'
  BY <1>5, <1>9 DEF CloseBegin, CloseStream, CloseReturn, callers
<1>10. ASSUME UNCHANGED machine, NEW w \in Waiting, WaitBegin(w) \/ WaitNext(w)
       PROVE  OutputsHold'
  <2>1. history' = history /\ reader' = reader
    BY <1>10 DEF machine
  <2>2. ASSUME NEW v \in Waiting
        PROVE  wait'[v].applied \in {wait[v].applied, Len(history.applied)}
    <3>w. wait[v] \in WaiterType
      BY <1>t
    <3>7. CASE WaitBegin(w)
      <4>1. PICK m \in Matchers : wait' = [wait EXCEPT ![w].pc = "loop", ![w].matcher = m]
        BY <3>7 DEF WaitBegin
      <4> QED
        BY <1>t, <4>1 DEF WaiterType
    <3>1. CASE WaitCapture(w)
      BY <1>t, <3>1 DEF WaitCapture, WaiterType
    <3>2. CASE WaitSnapshot(w)
      BY <1>t, <3>2 DEF WaitSnapshot, Snapshot, WaiterType
    <3>3. CASE StableSnapshot(w)
      BY <1>t, <3>3 DEF StableSnapshot, Snapshot, WaiterType
    <3>4. CASE WaitSelect(w) \/ WaitFails(w)
      BY <1>t, <3>4 DEF WaitSelect, WaitFails, WaiterType
    <3>5. CASE StableCheck(w)
      BY <1>t, <3>5 DEF StableCheck, WaiterType
    <3>6. CASE StableRecheck(w)
      BY <1>t, <3>6 DEF StableRecheck, Snapshot, WaiterType
    <3> QED
      BY <1>10, <3>1, <3>2, <3>3, <3>4, <3>5, <3>6, <3>7 DEF WaitNext
  <2>3. Len(history.applied) \in Nat
    BY <1>t
  <2> QED
    BY <2>1, <2>2, <2>3 DEF OutputsHold
<1>11. CASE UNCHANGED <<machine, wait>>
  BY <1>5, <1>11 DEF machine
<1>12. CASE MachineNext /\ UNCHANGED wait
  BY <1>1, <1>2, <1>3, <1>4, <1>6, <1>7, <1>8, <1>9, <1>12 DEF MachineNext, ResizeNext
<1> QED
  BY <1>10, <1>11, <1>12, StepKinds

(* Whoever can take the recorder's lock finds all the output recorded that *)
(* the terminal was given, so that a failed wait's recording lacks no      *)
(* output behind a screen the wait observed (session.go:156-164,           *)
(* flightrecorder.go:74-99), whoever resizes meanwhile.                    *)
THEOREM ObservedOutputRecorded == Spec => []ObservedOutputIsRecorded
<1>1. TypeInv /\ OutputsHold => ObservedOutputIsRecorded
  <2> SUFFICES ASSUME TypeInv, OutputsHold, RecorderMuFree PROVE ObservedOutputIsRecorded
    BY DEF ObservedOutputIsRecorded
  <2>1. Outputs(history.recorded) = Outputs(history.applied)
    BY DEF OutputsHold, RecorderMuFree
  <2>2. ASSUME NEW w \in Waiting
        PROVE  IsPrefix(Outputs(SubSeq(history.applied, 1, wait[w].applied)),
                        Outputs(history.recorded))
    <3>1. history.applied \in Seq(Record) /\ wait[w].applied \in Nat
      BY DEF TypeInv, TypeOK, HistoryType, WaiterType
    <3>2. wait[w].applied \in 0..Len(history.applied)
      BY <3>1 DEF OutputsHold
    <3> QED
      BY <2>1, <3>1, <3>2, OutputsPrefix
  <2> QED
    BY <2>1, <2>2 DEF ObservedOutputIsRecorded
<1>2. Init => TypeInv /\ OutputsHold
  <2>1. Init => OutputsHold
    BY DEF Init, OutputsHold
  <2> QED
    BY <2>1, InitTyped
<1>3. TypeInv /\ OutputsHold /\ [Next]_vars => TypeInv' /\ OutputsHold'
  BY NextTyped, OutputsStep
<1> QED
  BY <1>1, <1>2, <1>3, PTL DEF Spec
=============================================================================
