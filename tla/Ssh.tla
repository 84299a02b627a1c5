--------------------------------- MODULE Ssh ---------------------------------
(***************************************************************************)
(* The SSH transport: ssh/connector.go at one end, the reference server of *)
(* reference/ssh/server.go at the other.  The SSH library between them is  *)
(* external: it keeps requests and output in order, answers a request when *)
(* the server replies, fails every call once the connection is closed, and *)
(* Session.Wait returns after the channel has ended and all of its output  *)
(* was written to the pipe.                                                *)
(***************************************************************************)
EXTENDS Naturals, Sequences

CONSTANTS
  Sizes,      \* the sizes asked for, in order; the first opens the session
  Output      \* bound: how many pieces the application shows

VARIABLES
  raw,        \* the network connection: "none", "open", "closed"
  connect,    \* Connect, with its handshake goroutine and its context
  opening,    \* OpenSession: the step it is at
  channel,    \* the session's channel: its requests, its output, open at each end
  stream,     \* stream: the pipe of its output, and what the reader was told
  resized,    \* how many sizes the client has asked for
  server,     \* serveSession: where it is, its size, its channel of one size
  application, \* the reference application and the size it was given last
  shown       \* history: how many pieces it showed, how many were read

sshVars ==
  <<raw, connect, opening, channel, stream, resized, server, application, shown>>

Init ==
  /\ raw = "none"
  /\ connect = [at |-> "dial", handshake |-> "none", canceled |-> FALSE]
  /\ opening = "none"
  /\ channel = [client |-> "none", server |-> "none", requests |-> <<>>, output |-> <<>>]
  /\ stream = [pipe |-> "open", held |-> <<>>, end |-> "none", closing |-> FALSE]
  /\ resized = 1
  /\ server = [at |-> "idle", size |-> 0, next |-> 0, resizes |-> <<>>]
  /\ application = [at |-> "none", size |-> 0]
  /\ shown = [written |-> 0, read |-> 0]

----------------------------------------------------------------------------
(* Connect and newClientConn: the handshake runs in a goroutine, and its   *)
(* result is awaited even when the context is done.                        *)
Dial ==
  /\ connect.at = "dial"
  /\ \/ raw' = "open" /\ connect' = [connect EXCEPT !.at = "select"]
     \/ connect' = [connect EXCEPT !.at = "failed"] /\ UNCHANGED raw
  /\ UNCHANGED <<opening, channel, stream, resized, server, application, shown>>

Handshake ==
  /\ connect.handshake = "none" /\ raw # "none"
  /\ \E result \in IF raw = "open" THEN {"ok", "error"} ELSE {"error"} :
       connect' = [connect EXCEPT !.handshake = result]
  /\ UNCHANGED <<raw, opening, channel, stream, resized, server, application, shown>>

Cancel ==
  /\ connect.at \in {"dial", "select"} /\ ~connect.canceled
  /\ connect' = [connect EXCEPT !.canceled = TRUE]
  /\ UNCHANGED <<raw, opening, channel, stream, resized, server, application, shown>>

Shut(result) == IF result = "ok" THEN raw ELSE "closed"

SelectResult ==
  /\ connect.at = "select" /\ connect.handshake # "none"
  /\ raw' = Shut(connect.handshake)
  /\ connect' = [connect EXCEPT !.at = IF connect.handshake = "ok" THEN "connected" ELSE "failed"]
  /\ UNCHANGED <<opening, channel, stream, resized, server, application, shown>>

SelectDone ==
  /\ connect.at = "select" /\ connect.canceled
  /\ raw' = "closed"
  /\ connect' = [connect EXCEPT !.at = "await"]
  /\ UNCHANGED <<opening, channel, stream, resized, server, application, shown>>

AwaitResult ==
  /\ connect.at = "await" /\ connect.handshake # "none"
  /\ connect' = [connect EXCEPT !.at = "failed"]
  /\ UNCHANGED <<raw, opening, channel, stream, resized, server, application, shown>>

----------------------------------------------------------------------------
(* OpenSession: a channel, a pseudo-terminal and a shell, one after the    *)
(* other; what was opened before a step that fails is cleaned up.          *)
Connected == connect.at = "connected" /\ raw = "open"
Ask(request) == channel' = [channel EXCEPT !.requests = Append(@, request)]

OpenChannel ==
  /\ connect.at = "connected" /\ opening = "none"
  /\ IF Connected
     THEN /\ channel' = [channel EXCEPT !.client = "open", !.server = "open"]
          /\ server' = [server EXCEPT !.at = "select"]
          /\ opening' = "pty"
     ELSE opening' = "failed" /\ UNCHANGED <<channel, server>>
  /\ UNCHANGED <<raw, connect, stream, resized, application, shown>>

RequestPty ==
  /\ opening = "pty" /\ Connected
  /\ Ask([type |-> "pty-req", size |-> Sizes[1]])
  /\ opening' = "pty asked"
  /\ UNCHANGED <<raw, connect, stream, resized, server, application, shown>>

Shell ==
  /\ opening = "shell" /\ Connected
  /\ Ask([type |-> "shell", size |-> 0])
  /\ opening' = "shell asked"
  /\ UNCHANGED <<raw, connect, stream, resized, server, application, shown>>

Cleaned == [channel EXCEPT !.client = "closed"]

OpenFails ==
  /\ opening \in {"pty", "pty asked", "shell", "shell asked"}
  /\ raw = "closed" \/ channel.server = "closed"
  /\ channel' = Cleaned
  /\ opening' = "failed"
  /\ UNCHANGED <<raw, connect, stream, resized, server, application, shown>>

(* A host other than the reference may refuse the terminal or the shell.   *)
Asks(type) == \/ type = "pty-req" /\ opening = "pty asked"
              \/ type = "shell" /\ opening = "shell asked"

OpenRefused ==
  /\ server.at = "select" /\ channel.requests # <<>>
  /\ Asks(Head(channel.requests).type)
  /\ channel' = [Cleaned EXCEPT !.requests = Tail(@)]
  /\ opening' = "failed"
  /\ UNCHANGED <<raw, connect, stream, resized, server, application, shown>>

(* Resize: the core sends one after the other. *)
WindowChange ==
  /\ opening = "open" /\ Connected /\ channel.client = "open" /\ resized < Len(Sizes)
  /\ Ask([type |-> "window-change", size |-> Sizes[resized + 1]])
  /\ resized' = resized + 1
  /\ UNCHANGED <<raw, connect, opening, stream, server, application, shown>>

(* The library's copy: a piece of output waits in the pipe for a reader. *)
Copy ==
  /\ channel.output # <<>> /\ channel.client # "none"
  /\ IF stream.pipe = "open"
     THEN /\ stream.held = <<>>
          /\ stream' = [stream EXCEPT !.held = <<Head(channel.output)>>]
     ELSE UNCHANGED stream
  /\ channel' = [channel EXCEPT !.output = Tail(@)]
  /\ UNCHANGED <<raw, connect, opening, resized, server, application, shown>>

Read ==
  /\ opening = "open" /\ stream.held # <<>> /\ stream.pipe = "open"
  /\ stream' = [stream EXCEPT !.held = <<>>]
  /\ shown' = [shown EXCEPT !.read = @ + 1]
  /\ UNCHANGED <<raw, connect, opening, channel, resized, server, application>>

(* mutant: the writer is closed when the channel is *)
HostGone == channel.server = "closed" \/ raw = "closed"

(* wait: the pipe's writer is closed when Session.Wait has returned. *)
OutputDone ==
  (channel.server = "closed" \/ raw = "closed") /\ channel.output = <<>> /\ stream.held = <<>>

Wait ==
  /\ opening = "open" /\ stream.pipe = "open" /\ OutputDone
  /\ stream' = [stream EXCEPT !.pipe = "ended"]
  /\ UNCHANGED <<raw, connect, opening, channel, resized, server, application, shown>>

ReadEnds ==
  /\ opening = "open" /\ stream.pipe # "open" /\ stream.end = "none"
  /\ stream' = [stream EXCEPT !.end = "returned"]
  /\ UNCHANGED <<raw, connect, opening, channel, resized, server, application, shown>>

(* stream.Close, and connection.Close with the network connection. *)
CloseStream ==
  /\ opening = "open" /\ ~stream.closing
  /\ channel' = [channel EXCEPT !.client = "closed"]
  /\ stream' = [stream EXCEPT !.closing = TRUE, !.pipe = "closed", !.held = <<>>]
  /\ UNCHANGED <<raw, connect, opening, resized, server, application, shown>>

CloseConnection ==
  /\ Connected
  /\ raw' = "closed"
  /\ \E n \in 0..Len(channel.output) :   \* the rest is lost
       channel' = [channel EXCEPT !.output = SubSeq(@, 1, n)]
  /\ UNCHANGED <<connect, opening, stream, resized, server, application, shown>>

----------------------------------------------------------------------------
(* serveSession: one loop takes requests and the end of the application.   *)
Ended == channel.client = "closed" \/ raw = "closed"

Answered(type) ==
  opening' = CASE type = "pty-req" /\ opening = "pty asked" -> "shell"
               [] type = "shell" /\ opening = "shell asked" -> "open"
               [] OTHER -> opening

Serve ==
  /\ server.at = "select" /\ channel.requests # <<>>
  /\ LET request == Head(channel.requests) IN
     /\ Answered(request.type)
     /\ CASE request.type = "pty-req" ->
               server' = [server EXCEPT !.size = request.size] /\ UNCHANGED application
          [] request.type = "shell" ->
               application' = [at |-> "running", size |-> server.size] /\ UNCHANGED server
          [] request.type = "window-change" ->
               /\ server' = IF server.resizes = <<>>
                            THEN [server EXCEPT !.resizes = <<request.size>>]
                            ELSE [server EXCEPT !.at = "take", !.next = request.size]
               /\ UNCHANGED application
  /\ channel' = [channel EXCEPT !.requests = Tail(@)]
  /\ UNCHANGED <<raw, connect, stream, resized, shown>>

(* A full channel: the old size is taken out, and the new one put in.      *)
TakeOldSize ==
  /\ server.at = "take" /\ server.resizes # <<>>
  /\ server' = [server EXCEPT !.at = "put", !.resizes = <<>>]
  /\ UNCHANGED <<raw, connect, opening, channel, stream, resized, application, shown>>

PutNewSize ==
  /\ server.at = "put" /\ server.resizes = <<>>
  /\ server' = [server EXCEPT !.at = "select", !.resizes = <<server.next>>]
  /\ UNCHANGED <<raw, connect, opening, channel, stream, resized, application, shown>>

ServerEnds ==
  /\ server.at = "select"
  /\ application.at = "done" \/ (Ended /\ channel.requests = <<>>)
  /\ server' = [server EXCEPT !.at = "ended"]
  /\ channel' = [channel EXCEPT !.server = "closed"]
  /\ UNCHANGED <<raw, connect, opening, stream, resized, application, shown>>

ApplicationResized ==
  /\ application.at = "running" /\ server.resizes # <<>>
  /\ application' = [application EXCEPT !.size = Head(server.resizes)]
  /\ server' = [server EXCEPT !.resizes = <<>>]
  /\ UNCHANGED <<raw, connect, opening, channel, stream, resized, shown>>

ApplicationShows ==
  /\ application.at = "running" /\ shown.written < Output /\ ~Ended /\ channel.server = "open"
  /\ channel' = [channel EXCEPT !.output = Append(@, shown.written + 1)]
  /\ shown' = [shown EXCEPT !.written = @ + 1]
  /\ UNCHANGED <<raw, connect, opening, stream, resized, server, application>>

(* The user leaves, or the input has ended. *)
ApplicationDone ==
  /\ application.at = "running"
  /\ application' = [application EXCEPT !.at = "done"]
  /\ UNCHANGED <<raw, connect, opening, channel, stream, resized, server, shown>>

ConnectStep == Dial \/ SelectResult \/ SelectDone \/ AwaitResult
ClientStep == OpenChannel \/ RequestPty \/ Shell \/ OpenFails \/ Copy \/ Read \/ Wait \/ ReadEnds
ServerStep == Serve \/ TakeOldSize \/ PutNewSize \/ ServerEnds

Next ==
  \/ ConnectStep \/ Handshake \/ ClientStep \/ ServerStep
  \/ Cancel \/ OpenRefused \/ WindowChange \/ CloseStream \/ CloseConnection
  \/ ApplicationResized \/ ApplicationShows \/ ApplicationDone

(* A handshake may take for ever, unless its connection is closed.         *)
Fairness ==
  /\ WF_sshVars(ConnectStep) /\ WF_sshVars(raw = "closed" /\ Handshake)
  /\ WF_sshVars(ClientStep)
  /\ WF_sshVars(ServerStep) /\ WF_sshVars(ApplicationResized)

Spec == Init /\ [][Next]_sshVars /\ Fairness

----------------------------------------------------------------------------
(* A Connect that fails, whether the handshake or the context came first,  *)
(* leaves no connection open, and an OpenSession that fails no channel     *)
(* (ssh/connector.go:76-132, 139-185, 262-273).                            *)
FailuresLeaveNothing ==
  /\ connect.at = "failed" => raw # "open"
  /\ opening = "failed" => channel.client # "open"

(* The reader is told of the end after all the output of the application,  *)
(* unless it closed the stream (ssh/connector.go:224-260); and when all is *)
(* quiet the application has the size that was asked for last              *)
(* (reference/ssh/server.go:101-173).                                      *)
OutputThenEnd ==
  /\ stream.end = "returned" /\ ~stream.closing /\ raw = "open" => shown.read = shown.written
  /\ application.at = "running" /\ server.at = "select" /\ server.resizes = <<>>
       /\ channel.requests = <<>> /\ raw = "open" => application.size = Sizes[resized]

(* A canceled Connect returns, although the handshake would never end, and *)
(* a session whose channel was closed by the host ends its reader          *)
(* (ssh/connector.go:106-132, 247-260).                                    *)
CallersReturn ==
  /\ connect.canceled ~> (connect.at \in {"connected", "failed"})
  /\ (opening = "open" /\ channel.server = "closed") ~> (stream.end = "returned")

(* Does not hold. Design/reference-tui.md:59: PTY window changes "are      *)
(* forwarded to Bubble Tea": the session goes on serving, and ends with    *)
(* its application; but the server takes the old size out of a full        *)
(* channel itself, and waits for ever if the application was faster        *)
(* (reference/ssh/server.go:155-169).                                      *)
SessionEnds == (application.at = "done") ~> (server.at = "ended")
=============================================================================
