------------------------------- MODULE Telnet -------------------------------
(***************************************************************************)
(* The Telnet transport of telnet/stream.go and telnet/connector.go, with  *)
(* the host of reference/telnet/server.go at the other end of the wire.    *)
(* Both ends take the wire apart byte by byte with the same state machine; *)
(* what a read returned and the machine has not seen yet still counts as   *)
(* on the wire, so that a command may be cut anywhere.  A size is the      *)
(* sequence of bytes that announces it.                                    *)
(***************************************************************************)
EXTENDS Naturals, Sequences, SequencesExt

CONSTANTS
  OpenSize,     \* the size the session is opened with
  Scenarios     \* what is going to happen, as records of
                \*   greeting: the commands the host sends first
                \*   typed, shown: the writes of the client, of the application
                \*   resizes: the sizes asked for in order; <<>> is not positive
                \*   closers: who may close, a subset of {"client", "host"}

VARIABLES
  plan,         \* the scenario
  wire,         \* the bytes on their way in each direction
  open,         \* the ends that have not been closed
  client,       \* stream: its state machine, its options, its pending data
  reader,       \* what Read has still to write for the byte it is at
  resizer,      \* the Resize in progress (Session.resizeMu: one at a time)
  host,         \* protocolStream, its channel of one size, and the application
  log           \* history: what was written, read and answered

telnetVars == <<plan, wire, open, client, reader, resizer, host, log>>

SizeLength == Len(OpenSize)
Start == [state |-> "data", command |-> "", option |-> "", data |-> <<>>]

(* The first n pieces, one behind the other. *)
Joined(pieces, n) ==
  LET joined[i \in 0..Len(pieces)] == IF i = 0 THEN <<>> ELSE joined[i - 1] \o pieces[i]
  IN  joined[n]

(* stream.Write and appendEscaped: an IAC in the data is sent twice. *)
Escaped(data) ==
  Joined([i \in 1..Len(data) |-> IF data[i] = "IAC" THEN <<"IAC", "IAC">> ELSE <<data[i]>>],
         Len(data))
(* mutant: the window size is sent as it is *)
UnescapedSubnegotiation(option, data) == <<"IAC", "SB", option>> \o data \o <<"IAC", "SE">>

Subnegotiation(option, data) == <<"IAC", "SB", option>> \o Escaped(data) \o <<"IAC", "SE">>

(* The state machine of both process functions. *)
Processed(p, b) ==
  LET To(state) == [p EXCEPT !.state = state] IN
  CASE p.state = "data" -> IF b = "IAC" THEN To("iac") ELSE p
    [] p.state = "iac" /\ b \in {"DO", "DONT", "WILL", "WONT"} ->
         [p EXCEPT !.state = "negotiation", !.command = b]
    [] p.state = "iac" /\ b = "SB" -> To("subOption")
    [] p.state = "subOption" -> [p EXCEPT !.state = "subData", !.option = b, !.data = <<>>]
    [] p.state = "subData" -> IF b = "IAC" THEN To("subIAC") ELSE [p EXCEPT !.data = Append(@, b)]
    [] p.state = "subIAC" /\ b = "IAC" ->
         [p EXCEPT !.state = "subData", !.data = Append(@, b)]
    [] OTHER -> To("data")

DataOf(p, b) ==
  IF (p.state = "data" /\ b # "IAC") \/ (p.state = "iac" /\ b = "IAC") THEN <<b>> ELSE <<>>

SupportsLocal(option) == option \in {"BINARY", "SGA", "TTYPE", "NAWS"}
SupportsRemote(option) == option \in {"BINARY", "ECHO", "SGA"}

(* negotiate: what a request makes of the options, and the answer. *)
Answer(command, option) == [kind |-> "command", bytes |-> <<"IAC", command, option>>]
AskSize == [kind |-> "size", bytes |-> <<>>]
Payload(bytes) == [kind |-> "payload", bytes |-> bytes]

(* mutant: a request is acknowledged whatever the option's state *)
AlwaysAcknowledged(option, on, turned) == TRUE

(* Only a change of state is acknowledged. *)
Acknowledged(option, on, turned) == (option \in on) # turned

Negotiated(c, command, option) ==
  LET on == IF command \in {"DO", "DONT"} THEN c.local ELSE c.remote
      supported == IF command \in {"DO", "DONT"} THEN SupportsLocal(option)
                   ELSE SupportsRemote(option)
      yes == IF command = "DO" THEN "WILL" ELSE "DO"
      no == IF command \in {"DO", "DONT"} THEN "WONT" ELSE "DONT"
  IN
  CASE command \in {"DO", "WILL"} /\ ~supported ->
         [on |-> on, replies |-> <<Answer(no, option)>>]
    [] command \in {"DO", "WILL"} /\ supported ->
         [on |-> on \cup {option},
          replies |-> IF ~Acknowledged(option, on, TRUE) THEN <<>>
                      ELSE <<Answer(yes, option)>>
                           \o (IF command = "DO" /\ option = "NAWS" THEN <<AskSize>> ELSE <<>>)]
    [] command \in {"DONT", "WONT"} ->
         [on |-> on \ {option},
          replies |-> IF Acknowledged(option, on, FALSE) THEN <<Answer(no, option)>> ELSE <<>>]

(* subnegotiate: the terminal type, when it is asked for. *)
Subnegotiated(p) ==
  IF p.option = "TTYPE" /\ p.data # <<>> /\ p.data[1] = "SEND"
  THEN <<Payload(Subnegotiation("TTYPE", <<"IS", "vt220">>))>> ELSE <<>>

----------------------------------------------------------------------------
Init ==
  /\ plan \in Scenarios
  /\ wire = [client |-> Joined(plan.greeting, Len(plan.greeting)), host |-> <<>>]
  /\ open = {"client", "host"}
  /\ client = [parser |-> Start, pending |-> <<>>, end |-> "none",
               local |-> {}, remote |-> {}, size |-> OpenSize]
  /\ reader = <<>>
  /\ resizer = <<>>
  /\ host = [parser |-> Start, resizes |-> <<>>, forwarding |-> "idle", size |-> <<>>,
             applied |-> <<>>]
  /\ log = [typed |-> 0, shown |-> 0, resized |-> 0, received |-> <<>>, read |-> <<>>,
            answers |-> <<>>, failed |-> FALSE]

ToHost(bytes) == wire' = [wire EXCEPT !.host = @ \o bytes]

(* process: the reader takes the next byte. *)
ReadByte ==
  /\ reader = <<>> /\ client.end = "none" /\ "client" \in open /\ wire.client # <<>>
  /\ LET b == Head(wire.client)
         p == client.parser
         next == [client EXCEPT !.parser = Processed(p, b), !.pending = @ \o DataOf(p, b)]
         result == Negotiated(client, p.command, b)
     IN
     CASE p.state = "negotiation" ->
            /\ reader' = result.replies
            /\ client' = IF p.command \in {"DO", "DONT"} THEN [next EXCEPT !.local = result.on]
                         ELSE [next EXCEPT !.remote = result.on]
       [] p.state = "subIAC" /\ b = "SE" -> reader' = Subnegotiated(p) /\ client' = next
       [] OTHER -> reader' = <<>> /\ client' = next
  /\ wire' = [wire EXCEPT !.client = Tail(@)]
  /\ UNCHANGED <<plan, open, resizer, host, log>>

(* The reader's writes: writeMu makes each one whole.  The size is read    *)
(* under stateMu and written after it was unlocked.                        *)
ReadSize ==
  /\ reader # <<>> /\ Head(reader).kind = "size"
  /\ reader' = <<Payload(Subnegotiation("NAWS", client.size))>>
  /\ UNCHANGED <<plan, wire, open, client, resizer, host, log>>

Reply ==
  /\ reader # <<>> /\ Head(reader).kind # "size" /\ "client" \in open
  /\ ToHost(Head(reader).bytes)
  /\ log' = [log EXCEPT !.answers = IF Head(reader).kind = "command"
                                    THEN Append(@, Tail(Head(reader).bytes)) ELSE @]
  /\ reader' = Tail(reader)
  /\ UNCHANGED <<plan, open, client, resizer, host>>

(* A reply cannot be written: the error comes after the pending data. *)
ReplyFails ==
  /\ reader # <<>> /\ Head(reader).kind # "size" /\ open # {"client", "host"}
  /\ reader' = <<>>
  /\ client' = [client EXCEPT !.end = "pending"]
  /\ log' = [log EXCEPT !.failed = TRUE]
  /\ UNCHANGED <<plan, wire, open, resizer, host>>

(* Read returns the pending data, then the error. *)
PendingFirst(c) == c.pending = <<>>

ReadReturns ==
  /\ reader = <<>> /\ client.pending # <<>> /\ client.end # "returned"
  /\ client' = [client EXCEPT !.pending = <<>>]
  /\ log' = [log EXCEPT !.received = @ \o client.pending]
  /\ UNCHANGED <<plan, wire, open, reader, resizer, host>>

(* mutant: the host's hangup goes unnoticed *)
NoHangup == "client" \notin open

Hangup == "client" \notin open \/ ("host" \notin open /\ wire.client = <<>>)

ReadEnds ==
  /\ reader = <<>>
  /\ \/ /\ client.end = "none"
        /\ Hangup
        /\ client' = [client EXCEPT !.end = "pending"]
     \/ /\ client.end = "pending" /\ PendingFirst(client)
        /\ client' = [client EXCEPT !.end = "returned"]
  /\ UNCHANGED <<plan, wire, open, reader, resizer, host, log>>

(* stream.Write *)
Type ==
  /\ log.typed < Len(plan.typed) /\ "client" \in open
  /\ ToHost(Escaped(plan.typed[log.typed + 1]))
  /\ log' = [log EXCEPT !.typed = @ + 1]
  /\ UNCHANGED <<plan, open, client, reader, resizer, host>>

(* stream.Resize: the size is stored, and sent if the host asked for it.   *)
StoreSize ==
  /\ resizer = <<>> /\ log.resized < Len(plan.resizes)
  /\ LET size == plan.resizes[log.resized + 1] IN
     /\ client' = IF size = <<>> THEN client ELSE [client EXCEPT !.size = size]
     /\ resizer' = IF size # <<>> /\ "NAWS" \in client.local THEN <<AskSize>> ELSE <<>>
  /\ log' = [log EXCEPT !.resized = @ + 1]
  /\ UNCHANGED <<plan, wire, open, reader, host>>

(* sendWindowSize *)
SendSize ==
  /\ resizer # <<>>
  /\ IF Head(resizer).kind = "size"
     THEN /\ resizer' = <<Payload(Subnegotiation("NAWS", client.size))>>
          /\ UNCHANGED wire
     ELSE /\ resizer' = <<>>
          /\ IF "client" \in open THEN ToHost(Head(resizer).bytes) ELSE UNCHANGED wire
  /\ UNCHANGED <<plan, open, client, reader, host, log>>

Close(end) ==
  /\ end \in open \cap plan.closers
  /\ open' = open \ {end}
  /\ UNCHANGED <<plan, wire, client, reader, resizer, host, log>>

----------------------------------------------------------------------------
(* applySubnegotiation: select puts the size into the channel, or finds it *)
(* full; then the old size is taken out and the new one put in, in two     *)
(* steps, while the application may receive.  A size without a width or a  *)
(* height, of bytes "0", is dropped; this client announces none.           *)
Flat(size) ==
  \E side \in BOOLEAN :
    \A i \in DOMAIN size : (i <= SizeLength \div 2) = side => size[i] = "0"

Applied(h, size) ==
  IF Len(size) # SizeLength \/ Flat(size) THEN h
  ELSE IF h.resizes = <<>> THEN [h EXCEPT !.resizes = <<size>>]
  ELSE [h EXCEPT !.forwarding = "take", !.applied = size]

HostRunning == "host" \in open /\ host.forwarding = "idle"

HostReadByte ==
  /\ HostRunning /\ wire.host # <<>>
  /\ LET b == Head(wire.host)
         p == host.parser
         next == [host EXCEPT !.parser = Processed(p, b)]
         asked == p.state = "negotiation" /\ p.command = "WILL" /\ b = "TTYPE"
     IN
     /\ host' = IF p.state = "subIAC" /\ b = "SE" /\ p.option = "NAWS"
                THEN Applied(next, p.data) ELSE next
     /\ log' = [log EXCEPT !.read = @ \o DataOf(p, b)]
     /\ wire' = [client |-> IF asked /\ "client" \in open
                            THEN wire.client \o Subnegotiation("TTYPE", <<"SEND">>)
                            ELSE wire.client,
                 host |-> Tail(wire.host)]
  /\ UNCHANGED <<plan, open, client, reader, resizer>>

TakeOldSize ==
  /\ host.forwarding = "take" /\ host.resizes # <<>>
  /\ host' = [host EXCEPT !.forwarding = "put", !.resizes = <<>>]
  /\ UNCHANGED <<plan, wire, open, client, reader, resizer, log>>

PutNewSize ==
  /\ host.forwarding = "put" /\ host.resizes = <<>>
  /\ host' = [host EXCEPT !.forwarding = "idle", !.resizes = <<host.applied>>]
  /\ UNCHANGED <<plan, wire, open, client, reader, resizer, log>>

(* The goroutine of Application.RunWithResizes. *)
ApplicationResized ==
  /\ "host" \in open /\ host.resizes # <<>>
  /\ host' = [host EXCEPT !.resizes = <<>>, !.size = Head(host.resizes)]
  /\ UNCHANGED <<plan, wire, open, client, reader, resizer, log>>

Show ==
  /\ "host" \in open /\ log.shown < Len(plan.shown)
  /\ wire' = IF "client" \in open
             THEN [wire EXCEPT !.client = @ \o Escaped(plan.shown[log.shown + 1])] ELSE wire
  /\ log' = [log EXCEPT !.shown = @ + 1]
  /\ UNCHANGED <<plan, open, client, reader, resizer, host>>

ClientStep == ReadByte \/ ReadSize \/ Reply \/ ReplyFails \/ ReadReturns \/ ReadEnds
HostStep == HostReadByte \/ TakeOldSize \/ PutNewSize

Next ==
  \/ ClientStep \/ HostStep
  \/ Type \/ StoreSize \/ SendSize \/ Show \/ ApplicationResized
  \/ \E end \in {"client", "host"} : Close(end)

(* The readers, the application and a Resize that was begun go on. *)
Fairness ==
  WF_telnetVars(ClientStep) /\ WF_telnetVars(HostStep)
  /\ WF_telnetVars(SendSize) /\ WF_telnetVars(ApplicationResized)

Spec == Init /\ [][Next]_telnetVars /\ Fairness

----------------------------------------------------------------------------
Sent(writes, n) == Joined(writes, n)

(* Both sides read exactly what the other one wrote, in order: an IAC is   *)
(* data again, and no byte of a command or of a subnegotiation is taken    *)
(* for data, wherever the wire was cut (telnet/stream.go:73-121, 152-205,  *)
(* reference/telnet/server.go:115-211).                                    *)
DataIntact ==
  /\ IsPrefix(log.received \o client.pending, Sent(plan.shown, log.shown))
  /\ IsPrefix(log.read, Sent(plan.typed, log.typed))
  /\ wire.host = <<>> /\ host.forwarding = "idle" => log.read = Sent(plan.typed, log.typed)

(* An option's acknowledgements alternate: what is on is not turned on     *)
(* again, so two implementations do not acknowledge each other for ever    *)
(* (telnet/stream.go:207-254).                                             *)
AnswersAlternate ==
  \A i, j \in DOMAIN log.answers :
    LET a == log.answers[i]
        b == log.answers[j]
        side == IF a[1] \in {"WILL", "WONT"} THEN {"WILL", "WONT"} ELSE {"DO", "DONT"}
        supported == IF "WILL" \in side THEN SupportsLocal(a[2]) ELSE SupportsRemote(a[2])
        between == {k \in (i + 1)..(j - 1) :
                      log.answers[k][2] = a[2] /\ log.answers[k][1] \in side}
    IN  i < j /\ supported /\ a[2] = b[2] /\ b[1] \in side /\ between = {} => a[1] # b[1]

(* A reader is told of the end of the connection after all the data the    *)
(* host sent before it hung up, unless the client closed or could not      *)
(* write an answer (telnet/stream.go:73-107).                              *)
EndAfterData ==
  client.end = "returned" /\ "client" \in open /\ ~log.failed
    => log.received = Sent(plan.shown, log.shown)

(* A connection that was closed ends the reader (telnet/stream.go:73-107,  *)
(* 143-150).                                                               *)
ReaderEnds == (open # {"client", "host"}) ~> (client.end = "returned")

(* Does not hold. Telnet NAWS updates "are forwarded to Bubble Tea"        *)
(* (design/reference-tui.md:59) as long as the host runs: the reader of a  *)
(* full channel takes the old size out itself, and waits for ever if the   *)
(* application was faster (reference/telnet/server.go:213-229).            *)
UpdatesAreForwarded ==
  (host.forwarding # "idle") ~> (host.forwarding = "idle" \/ "host" \notin open)

(* Does not hold. Design/session-lifecycle.md:33-36: the stream handles    *)
(* window-size updates. A host that asked for the size comes to know the   *)
(* size the session has in the end, unless it is stuck; but the size is    *)
(* read before the write is begun, so an older one may be written last     *)
(* (telnet/stream.go:123-141, 283-293).                                    *)
HostKnowsSize ==
  <>[](\/ host.size = client.size \/ "NAWS" \notin client.local
       \/ host.forwarding # "idle" \/ open # {"client", "host"})
=============================================================================
