-------------------------- MODULE TransportsProofs ---------------------------
(***************************************************************************)
(* Proofs about Transports: first about the session over SSH, then about   *)
(* the one over Telnet.  An invariant of one transport survives the steps  *)
(* of the other, for these leave its variables alone.                      *)
(***************************************************************************)
EXTENDS Transports, Loops, SequencesExt

----------------------------------------------------------------------------
(* The sizes a session over SSH may have: 0 before there is one. *)
SshSizes == {0} \cup {Sizes[i] : i \in Nat}
Requests == [type : {"pty-req", "shell", "window-change"}, size : SshSizes]

ConnectType == [at : {"dial", "select", "await", "connected", "failed"},
                handshake : {"none", "ok", "error"}, canceled : BOOLEAN]
OpeningType == {"none", "pty", "pty asked", "shell", "shell asked", "open", "failed"}
ChannelType == [client : {"none", "open", "closed"}, server : {"none", "open", "closed"},
                requests : Seq(Requests), output : Seq(Nat)]
StreamType == [pipe : {"open", "ended", "closed"}, held : Seq(Nat),
               end : {"none", "returned"}, closing : BOOLEAN]
ServerType == [at : {"idle", "select", "take", "put", "ended"}, size : SshSizes,
               next : SshSizes, resizes : Seq(SshSizes)]
ApplicationType == [at : {"none", "running", "done"}, size : SshSizes]
ShownType == [written : Nat, read : Nat]

SshTypes ==
  /\ raw \in {"none", "open", "closed"} /\ connect \in ConnectType
  /\ opening \in OpeningType /\ channel \in ChannelType /\ stream \in StreamType
  /\ resized \in Nat /\ server \in ServerType /\ application \in ApplicationType
  /\ shown \in ShownType

(* A Connect that gave up has closed what it dialed, and a channel is open *)
(* as long as nobody closed it.                                            *)
OnlyConnectedOpen ==
  /\ connect.at = "dial" => raw = "none"
  /\ connect.at \in {"await", "failed"} => raw # "open"
  /\ opening = "none" => channel.client = "none"
  /\ opening = "failed" => channel.client # "open"

(* A piece of output is on its way until it is read, and the pipe of the   *)
(* output ends behind the last one.                                        *)
OutputHold ==
  /\ stream.pipe # "open" => opening = "open"
  /\ stream.pipe = "closed" <=> stream.closing
  /\ stream.end = "returned" => stream.pipe # "open"
  /\ stream.held # <<>> => Len(stream.held) = 1
  /\ raw # "closed" /\ ~stream.closing
       => shown.written = shown.read + Len(stream.held) + Len(channel.output)
  /\ raw # "closed" /\ stream.pipe = "ended"
       => channel.output = <<>> /\ stream.held = <<>> /\ channel.server = "closed"

Pty == [type |-> "pty-req", size |-> Sizes[1]]
ShellRequest == [type |-> "shell", size |-> 0]

(* Before the application runs nobody changes the size. *)
Starting ==
  application.at = "none" =>
    /\ resized = 1 /\ server.resizes = <<>> /\ opening # "open"
    /\ server.at \in {"idle", "select", "ended"}
    /\ channel.requests \in {<<>>, <<Pty>>, <<ShellRequest>>}
    /\ opening \in {"none", "pty", "shell"} => channel.requests = <<>>
    /\ opening = "pty asked" => channel.requests = <<Pty>>
    /\ opening = "shell asked" => channel.requests = <<ShellRequest>>
    /\ opening \in {"shell", "shell asked"} \/ channel.requests = <<ShellRequest>>
         => server.size = Sizes[1]

(* Afterwards the newest size is the last one on its way, or the one that  *)
(* the application has.                                                    *)
NewestOnItsWay ==
  application.at # "none" =>
    /\ opening \in {"open", "failed"}
    /\ \A i \in DOMAIN channel.requests : channel.requests[i].type = "window-change"
    /\ channel.requests # <<>> => channel.requests[Len(channel.requests)].size = Sizes[resized]
    /\ channel.requests = <<>> =>
         /\ server.at \in {"take", "put"} => server.next = Sizes[resized]
         /\ server.at \notin {"take", "put"} /\ server.resizes # <<>>
              => Head(server.resizes) = Sizes[resized]
         /\ server.at \notin {"take", "put"} /\ server.resizes = <<>>
              => application.size = Sizes[resized]

SshHolds == SshTypes /\ OnlyConnectedOpen /\ OutputHold /\ Starting /\ NewestOnItsWay

(* The variables of a session over SSH keep their types. *)
LEMMA SshTyped == SshTypes /\ Ssh!Next => SshTypes'
<1> SUFFICES ASSUME SshTypes, Ssh!Next PROVE SshTypes'
  OBVIOUS
<1>s. /\ Sizes[1] \in SshSizes /\ Sizes[resized + 1] \in SshSizes /\ 0 \in SshSizes
      /\ resized + 1 \in Nat
  BY DEF SshTypes, SshSizes
<1>q. /\ channel.requests \in Seq(Requests) /\ channel.output \in Seq(Nat)
      /\ stream.held \in Seq(Nat) /\ server.resizes \in Seq(SshSizes)
      /\ <<>> \in Seq(Nat) /\ <<>> \in Seq(SshSizes)
  BY DEF SshTypes, ChannelType, StreamType, ServerType
<1>c. ASSUME NEW q \in Seq(Requests) PROVE [channel EXCEPT !.requests = q] \in ChannelType
  BY DEF SshTypes, ChannelType
<1>o. ASSUME NEW q \in Seq(Nat) PROVE [channel EXCEPT !.output = q] \in ChannelType
  BY DEF SshTypes, ChannelType
<1>r. ASSUME NEW q \in Seq(SshSizes), NEW at \in {"select", "put"}
      PROVE  /\ [server EXCEPT !.resizes = q] \in ServerType
             /\ [server EXCEPT !.at = at, !.resizes = q] \in ServerType
  BY DEF SshTypes, ServerType
<1>1. CASE Ssh!ConnectStep \/ Ssh!Handshake \/ Ssh!Cancel
  <2>1. connect' \in ConnectType /\ raw' \in {"none", "open", "closed"}
    BY <1>1 DEF Ssh!ConnectStep, Ssh!Dial, Ssh!SelectResult, Ssh!SelectDone, Ssh!AwaitResult,
       Ssh!Handshake, Ssh!Cancel, Ssh!Shut, SshTypes, ConnectType
  <2>2. UNCHANGED <<opening, channel, stream, resized, server, application, shown>>
    BY <1>1 DEF Ssh!ConnectStep, Ssh!Dial, Ssh!SelectResult, Ssh!SelectDone, Ssh!AwaitResult,
       Ssh!Handshake, Ssh!Cancel
  <2> QED
    BY <2>1, <2>2 DEF SshTypes
<1>2. CASE Ssh!OpenChannel
  <2>1. channel' \in ChannelType /\ server' \in ServerType /\ opening' \in OpeningType
    BY <1>2 DEF Ssh!OpenChannel, SshTypes, ChannelType, ServerType, OpeningType
  <2> QED
    BY <1>2, <2>1 DEF Ssh!OpenChannel, SshTypes
<1>3. ASSUME NEW request \in Requests, Ssh!Ask(request) PROVE channel' \in ChannelType
  <2>1. Append(channel.requests, request) \in Seq(Requests)
    BY <1>q
  <2> QED
    BY <1>3, <1>c, <2>1 DEF Ssh!Ask
<1>4. CASE Ssh!RequestPty
  <2>1. channel' \in ChannelType /\ opening' \in OpeningType
    BY <1>3, <1>4, <1>s DEF Ssh!RequestPty, Requests, OpeningType
  <2> QED
    BY <1>4, <2>1 DEF Ssh!RequestPty, SshTypes
<1>5. CASE Ssh!Shell
  <2>1. channel' \in ChannelType /\ opening' \in OpeningType
    BY <1>3, <1>5, <1>s DEF Ssh!Shell, Requests, OpeningType
  <2> QED
    BY <1>5, <2>1 DEF Ssh!Shell, SshTypes
<1>6. CASE Ssh!OpenFails
  <2>1. channel' \in ChannelType /\ opening' \in OpeningType
    BY <1>6 DEF Ssh!OpenFails, Ssh!Cleaned, OpeningType, ChannelType, SshTypes
  <2> QED
    BY <1>6, <2>1 DEF Ssh!OpenFails, SshTypes
<1>7. CASE Ssh!WindowChange
  <2>1. channel' \in ChannelType
    BY <1>3, <1>7, <1>s DEF Ssh!WindowChange, Requests
  <2> QED
    BY <1>7, <1>s, <2>1 DEF Ssh!WindowChange, SshTypes
<1>8. CASE Ssh!Copy
  <2>1. channel.output # <<>> /\ Head(channel.output) \in Nat /\ Tail(channel.output) \in Seq(Nat)
    BY <1>8, <1>q DEF Ssh!Copy
  <2>2. channel' \in ChannelType
    BY <1>8, <1>o, <2>1 DEF Ssh!Copy
  <2>3. <<Head(channel.output)>> \in Seq(Nat)
    BY <2>1
  <2>4. stream' \in StreamType
    BY <1>8, <2>3 DEF Ssh!Copy, SshTypes, StreamType
  <2> QED
    BY <1>8, <2>2, <2>4 DEF Ssh!Copy, SshTypes
<1>9. CASE Ssh!Read
  <2>1. shown' \in ShownType
    BY <1>9 DEF Ssh!Read, SshTypes, ShownType
  <2>2. stream' \in StreamType
    BY <1>9, <1>q DEF Ssh!Read, SshTypes, StreamType
  <2> QED
    BY <1>9, <2>1, <2>2 DEF Ssh!Read, SshTypes
<1>10. CASE Ssh!Wait \/ Ssh!ReadEnds
  <2>1. stream' \in StreamType
    BY <1>10 DEF Ssh!Wait, Ssh!ReadEnds, SshTypes, StreamType
  <2>2. UNCHANGED <<raw, connect, opening, channel, resized, server, application, shown>>
    BY <1>10 DEF Ssh!Wait, Ssh!ReadEnds
  <2> QED
    BY <2>1, <2>2 DEF SshTypes
<1>11. CASE Ssh!CloseStream
  <2>1. channel' \in ChannelType /\ stream' \in StreamType
    BY <1>11, <1>q DEF Ssh!CloseStream, SshTypes, ChannelType, StreamType
  <2> QED
    BY <1>11, <2>1 DEF Ssh!CloseStream, SshTypes
<1>12. CASE Ssh!CloseConnection
  <2>1. \A n \in 0..Len(channel.output) : SubSeq(channel.output, 1, n) \in Seq(Nat)
    BY <1>q
  <2>2. channel' \in ChannelType
    BY <1>12, <1>o, <2>1 DEF Ssh!CloseConnection
  <2> QED
    BY <1>12, <2>2 DEF Ssh!CloseConnection, SshTypes
<1>13. CASE Ssh!Serve
  <2> DEFINE request == Head(channel.requests)
  <2>1. request \in Requests /\ Tail(channel.requests) \in Seq(Requests)
    BY <1>13, <1>q DEF Ssh!Serve
  <2>2. request.size \in SshSizes
    BY <2>1 DEF Requests
  <2>3. channel' \in ChannelType
    BY <1>13, <1>c, <2>1 DEF Ssh!Serve
  <2>4. opening' \in OpeningType
    <3>1. opening' \in {"shell", "open", opening}
      BY <1>13 DEF Ssh!Serve, Ssh!Answered
    <3> QED
      BY <3>1 DEF SshTypes, OpeningType
  <2> HIDE DEF request
  <2>5. ASSUME request.type = "pty-req"
        PROVE  server' \in ServerType /\ application' \in ApplicationType
    <3>1. server' = [server EXCEPT !.size = request.size] /\ UNCHANGED application
      BY <1>13, <2>5 DEF Ssh!Serve, request
    <3> QED
      BY <2>2, <3>1 DEF SshTypes, ServerType
  <2>6. ASSUME request.type = "shell"
        PROVE  server' \in ServerType /\ application' \in ApplicationType
    <3>1. application' = [at |-> "running", size |-> server.size] /\ UNCHANGED server
      BY <1>13, <2>6 DEF Ssh!Serve, request
    <3> QED
      BY <3>1 DEF SshTypes, ServerType, ApplicationType
  <2>7. ASSUME request.type = "window-change"
        PROVE  server' \in ServerType /\ application' \in ApplicationType
    <3>1. /\ server' = IF server.resizes = <<>> THEN [server EXCEPT !.resizes = <<request.size>>]
                       ELSE [server EXCEPT !.at = "take", !.next = request.size]
          /\ UNCHANGED application
      BY <1>13, <2>7 DEF Ssh!Serve, request
    <3>2. <<request.size>> \in Seq(SshSizes)
      BY <2>2
    <3>3. [server EXCEPT !.at = "take", !.next = request.size] \in ServerType
      BY <2>2 DEF SshTypes, ServerType
    <3> QED
      BY <1>r, <3>1, <3>2, <3>3 DEF SshTypes
  <2>8. server' \in ServerType /\ application' \in ApplicationType
    BY <2>1, <2>5, <2>6, <2>7 DEF SshTypes, Requests
  <2> QED
    BY <1>13, <2>3, <2>4, <2>8 DEF Ssh!Serve, SshTypes
<1>14. CASE Ssh!TakeOldSize \/ Ssh!PutNewSize
  <2>1. server' \in ServerType
    <3>1. server.next \in SshSizes /\ <<server.next>> \in Seq(SshSizes)
      BY DEF SshTypes, ServerType
    <3> QED
      BY <1>14, <1>q, <1>r, <3>1 DEF Ssh!TakeOldSize, Ssh!PutNewSize
  <2>2. UNCHANGED <<raw, connect, opening, channel, stream, resized, application, shown>>
    BY <1>14 DEF Ssh!TakeOldSize, Ssh!PutNewSize
  <2> QED
    BY <2>1, <2>2 DEF SshTypes
<1>15. CASE Ssh!ServerEnds
  <2>1. server' \in ServerType /\ channel' \in ChannelType
    BY <1>15 DEF Ssh!ServerEnds, SshTypes, ServerType, ChannelType
  <2> QED
    BY <1>15, <2>1 DEF Ssh!ServerEnds, SshTypes
<1>16. CASE Ssh!ApplicationResized
  <2>1. server' \in ServerType /\ application' \in ApplicationType
    <3>1. Head(server.resizes) \in SshSizes
      BY <1>16, <1>q DEF Ssh!ApplicationResized
    <3> QED
      BY <1>16, <1>q, <1>r, <3>1 DEF Ssh!ApplicationResized, SshTypes, ApplicationType
  <2> QED
    BY <1>16, <2>1 DEF Ssh!ApplicationResized, SshTypes
<1>17. CASE Ssh!ApplicationShows
  <2>1. shown' \in ShownType /\ shown.written + 1 \in Nat
    BY <1>17 DEF Ssh!ApplicationShows, SshTypes, ShownType
  <2>2. Append(channel.output, shown.written + 1) \in Seq(Nat)
    BY <1>q, <2>1
  <2>3. channel' \in ChannelType
    BY <1>17, <1>o, <2>2 DEF Ssh!ApplicationShows
  <2> QED
    BY <1>17, <2>1, <2>3 DEF Ssh!ApplicationShows, SshTypes
<1>18. CASE Ssh!ApplicationDone
  <2>1. application' \in ApplicationType
    BY <1>18 DEF Ssh!ApplicationDone, SshTypes, ApplicationType
  <2> QED
    BY <1>18, <2>1 DEF Ssh!ApplicationDone, SshTypes
<1>19. CASE Ssh!OpenRefused
  <2>1. Tail(channel.requests) \in Seq(Requests)
    BY <1>19, <1>q DEF Ssh!OpenRefused
  <2>2. channel' \in ChannelType /\ opening' \in OpeningType
    BY <1>19, <2>1 DEF Ssh!OpenRefused, Ssh!Cleaned, OpeningType, ChannelType, SshTypes
  <2> QED
    BY <1>19, <2>2 DEF Ssh!OpenRefused, SshTypes
<1> QED
  BY <1>1, <1>2, <1>4, <1>5, <1>6, <1>7, <1>8, <1>9, <1>10, <1>11, <1>12, <1>13, <1>14, <1>15,
     <1>16, <1>17, <1>18, <1>19
  DEF Ssh!Next, Ssh!ClientStep, Ssh!ServerStep

(* A step that keeps these keeps OnlyConnectedOpen: output and sizes have   *)
(* nothing to do with what is open.                                        *)
LEMMA OpenStep == SshTypes /\ OnlyConnectedOpen /\ Ssh!Next => OnlyConnectedOpen'
<1> SUFFICES ASSUME SshTypes, OnlyConnectedOpen, Ssh!Next PROVE OnlyConnectedOpen'
  OBVIOUS
<1>t. connect \in ConnectType /\ channel \in ChannelType /\ raw \in {"none", "open", "closed"}
  BY DEF SshTypes
<1>1. CASE Ssh!ConnectStep \/ Ssh!Handshake \/ Ssh!Cancel
  BY <1>1, <1>t
  DEF Ssh!ConnectStep, Ssh!Dial, Ssh!SelectResult, Ssh!SelectDone, Ssh!AwaitResult,
      Ssh!Handshake, Ssh!Cancel, Ssh!Shut, OnlyConnectedOpen, ConnectType
<1>2. CASE Ssh!OpenChannel
  BY <1>2, <1>t DEF Ssh!OpenChannel, OnlyConnectedOpen
<1>3. CASE Ssh!OpenFails \/ Ssh!OpenRefused
  BY <1>3, <1>t DEF Ssh!OpenFails, Ssh!OpenRefused, Ssh!Cleaned, OnlyConnectedOpen, ChannelType
<1>4. CASE Ssh!CloseStream
  BY <1>4, <1>t DEF Ssh!CloseStream, OnlyConnectedOpen, ChannelType
<1>5. CASE Ssh!CloseConnection
  <2>1. channel'.client = channel.client
    BY <1>5, <1>t DEF Ssh!CloseConnection, ChannelType
  <2> QED
    BY <1>5, <2>1 DEF Ssh!CloseConnection, Ssh!Connected, OnlyConnectedOpen
<1>6. CASE \/ Ssh!RequestPty \/ Ssh!Shell \/ Ssh!WindowChange \/ Ssh!Serve
  <2>1. channel'.client = channel.client
    BY <1>6, <1>t
    DEF Ssh!RequestPty, Ssh!Shell, Ssh!WindowChange, Ssh!Serve, Ssh!Ask, ChannelType
  <2>2. UNCHANGED <<raw, connect>>
        /\ (opening' = opening \/ (opening # "none" /\ opening' \notin {"none", "failed"}))
    BY <1>6 DEF Ssh!RequestPty, Ssh!Shell, Ssh!WindowChange, Ssh!Serve, Ssh!Answered
  <2> QED
    BY <2>1, <2>2 DEF OnlyConnectedOpen
<1>7. CASE \/ Ssh!Copy \/ Ssh!Read \/ Ssh!Wait \/ Ssh!ReadEnds \/ Ssh!TakeOldSize
           \/ Ssh!PutNewSize \/ Ssh!ServerEnds \/ Ssh!ApplicationResized
           \/ Ssh!ApplicationShows \/ Ssh!ApplicationDone
  <2>1. channel'.client = channel.client
    BY <1>7, <1>t
    DEF Ssh!Copy, Ssh!Read, Ssh!Wait, Ssh!ReadEnds, Ssh!TakeOldSize, Ssh!PutNewSize,
        Ssh!ServerEnds, Ssh!ApplicationResized, Ssh!ApplicationShows, Ssh!ApplicationDone,
        ChannelType
  <2>2. UNCHANGED <<raw, connect, opening>>
    BY <1>7
    DEF Ssh!Copy, Ssh!Read, Ssh!Wait, Ssh!ReadEnds, Ssh!TakeOldSize, Ssh!PutNewSize,
        Ssh!ServerEnds, Ssh!ApplicationResized, Ssh!ApplicationShows, Ssh!ApplicationDone
  <2> QED
    BY <2>1, <2>2 DEF OnlyConnectedOpen
<1> QED
  BY <1>1, <1>2, <1>3, <1>4, <1>5, <1>6, <1>7 DEF Ssh!Next, Ssh!ClientStep, Ssh!ServerStep

(* A piece of output is shown, carried, held and read, one after the other. *)
LEMMA OutputStep ==
  SshTypes /\ OnlyConnectedOpen /\ OutputHold /\ Ssh!Next => OutputHold'
<1> SUFFICES ASSUME SshTypes, OnlyConnectedOpen, OutputHold, Ssh!Next PROVE OutputHold'
  OBVIOUS
<1>t. /\ channel \in ChannelType /\ stream \in StreamType /\ shown \in ShownType
      /\ connect \in ConnectType
  BY DEF SshTypes
<1>q. /\ channel.output \in Seq(Nat) /\ stream.held \in Seq(Nat)
      /\ shown.written \in Nat /\ shown.read \in Nat
      /\ Len(channel.output) \in Nat /\ Len(stream.held) \in Nat
  BY <1>t DEF ChannelType, StreamType, ShownType
<1>1. CASE Ssh!ConnectStep \/ Ssh!Handshake \/ Ssh!Cancel
  <2>1. UNCHANGED <<opening, channel, stream, shown>>
    BY <1>1
    DEF Ssh!ConnectStep, Ssh!Dial, Ssh!SelectResult, Ssh!SelectDone, Ssh!AwaitResult,
        Ssh!Handshake, Ssh!Cancel
  <2>2. raw' # "closed" => raw # "closed"
    BY <1>1
    DEF Ssh!ConnectStep, Ssh!Dial, Ssh!SelectResult, Ssh!SelectDone, Ssh!AwaitResult,
        Ssh!Handshake, Ssh!Cancel, Ssh!Shut, OnlyConnectedOpen
  <2> QED
    BY <2>1, <2>2 DEF OutputHold
<1>2. CASE Ssh!OpenChannel
  <2>1. channel'.output = channel.output
    BY <1>2, <1>t DEF Ssh!OpenChannel, ChannelType
  <2>2. stream.pipe = "open" /\ UNCHANGED <<raw, stream, shown>>
    BY <1>2, <1>t DEF Ssh!OpenChannel, OutputHold, StreamType
  <2> QED
    BY <2>1, <2>2 DEF OutputHold
<1>3. CASE \/ Ssh!RequestPty \/ Ssh!Shell \/ Ssh!WindowChange \/ Ssh!Serve \/ Ssh!OpenFails
           \/ Ssh!OpenRefused
  <2>1. channel'.output = channel.output /\ channel'.server = channel.server
    BY <1>3, <1>t
    DEF Ssh!RequestPty, Ssh!Shell, Ssh!WindowChange, Ssh!Serve, Ssh!OpenFails,
        Ssh!OpenRefused, Ssh!Ask, Ssh!Cleaned, ChannelType
  <2>2. UNCHANGED <<raw, stream, shown>> /\ (opening = "open" => opening' = "open")
    BY <1>3
    DEF Ssh!RequestPty, Ssh!Shell, Ssh!WindowChange, Ssh!Serve, Ssh!OpenFails,
        Ssh!OpenRefused, Ssh!Asks, Ssh!Answered
  <2> QED
    BY <2>1, <2>2 DEF OutputHold
<1>4. CASE Ssh!Copy
  <2>1. /\ channel.output # <<>> /\ Len(Tail(channel.output)) = Len(channel.output) - 1
        /\ channel'.output = Tail(channel.output)
    BY <1>4, <1>t, <1>q DEF Ssh!Copy, ChannelType
  <2>2. UNCHANGED <<raw, opening, shown>>
    BY <1>4 DEF Ssh!Copy
  <2>3. CASE stream.pipe = "open"
    <3>1. stream.held = <<>> /\ stream' = [stream EXCEPT !.held = <<Head(channel.output)>>]
      BY <1>4, <2>3 DEF Ssh!Copy
    <3>2. /\ Len(stream.held) = 0 /\ Len(stream'.held) = 1
          /\ stream'.pipe = "open" /\ stream'.closing = stream.closing
          /\ stream'.end = stream.end
      BY <1>t, <2>3, <3>1 DEF StreamType
    <3> QED
      BY <1>q, <2>1, <2>2, <2>3, <3>2 DEF OutputHold
  <2>4. CASE stream.pipe # "open"
    <3>1. UNCHANGED stream
      BY <1>4, <2>4 DEF Ssh!Copy
    <3> QED
      BY <1>t, <2>1, <2>2, <2>4, <3>1 DEF OutputHold, StreamType
  <2> QED
    BY <2>3, <2>4
<1>5. CASE Ssh!Read
  <2>0. stream.held # <<>> /\ stream.pipe = "open"
    BY <1>5 DEF Ssh!Read
  <2>1. stream.held # <<>> /\ Len(stream.held) = 1 /\ stream.pipe = "open"
    BY <2>0 DEF OutputHold
  <2>2. /\ stream'.held = <<>> /\ stream'.pipe = "open" /\ stream'.closing = stream.closing
        /\ stream'.end = stream.end /\ Len(stream'.held) = 0
    BY <1>5, <1>t, <2>1 DEF Ssh!Read, StreamType
  <2>3. shown'.written = shown.written /\ shown'.read = shown.read + 1
    BY <1>5, <1>t DEF Ssh!Read, ShownType
  <2>4. UNCHANGED <<raw, opening, channel>>
    BY <1>5 DEF Ssh!Read
  <2> QED
    BY <1>q, <2>1, <2>2, <2>3, <2>4 DEF OutputHold
<1>6. CASE Ssh!Wait
  <2>1. /\ stream'.pipe = "ended" /\ stream'.held = stream.held
        /\ stream'.closing = stream.closing /\ stream.pipe = "open"
    BY <1>6, <1>t DEF Ssh!Wait, StreamType
  <2>2. UNCHANGED <<raw, opening, channel, shown>> /\ Ssh!OutputDone /\ opening = "open"
    BY <1>6 DEF Ssh!Wait
  <2> QED
    BY <2>1, <2>2 DEF OutputHold, Ssh!OutputDone
<1>7. CASE Ssh!ReadEnds
  <2>1. /\ stream'.pipe = stream.pipe /\ stream'.held = stream.held
        /\ stream'.closing = stream.closing /\ stream.pipe # "open"
    BY <1>7, <1>t DEF Ssh!ReadEnds, StreamType
  <2>2. UNCHANGED <<raw, opening, channel, shown>>
    BY <1>7 DEF Ssh!ReadEnds
  <2> QED
    BY <2>1, <2>2 DEF OutputHold
<1>8. CASE Ssh!CloseStream
  <2>1. /\ stream'.pipe = "closed" /\ stream'.closing /\ stream'.held = <<>>
        /\ opening' = "open" /\ Len(stream'.held) = 0
    BY <1>8, <1>t DEF Ssh!CloseStream, StreamType
  <2> QED
    BY <2>1 DEF OutputHold
<1>9. CASE Ssh!CloseConnection
  <2>1. raw' = "closed" /\ UNCHANGED <<opening, stream>>
    BY <1>9 DEF Ssh!CloseConnection
  <2> QED
    BY <2>1 DEF OutputHold
<1>10. CASE Ssh!ServerEnds
  <2>1. channel'.server = "closed" /\ channel'.output = channel.output
    BY <1>10, <1>t DEF Ssh!ServerEnds, ChannelType
  <2>2. UNCHANGED <<raw, opening, stream, shown>>
    BY <1>10 DEF Ssh!ServerEnds
  <2> QED
    BY <2>1, <2>2 DEF OutputHold
<1>11. CASE Ssh!TakeOldSize \/ Ssh!PutNewSize \/ Ssh!ApplicationResized \/ Ssh!ApplicationDone
  <2>1. UNCHANGED <<raw, opening, channel, stream, shown>>
    BY <1>11
    DEF Ssh!TakeOldSize, Ssh!PutNewSize, Ssh!ApplicationResized, Ssh!ApplicationDone
  <2> QED
    BY <2>1 DEF OutputHold
<1>12. CASE Ssh!ApplicationShows
  <2>1. /\ channel'.output = Append(channel.output, shown.written + 1)
        /\ channel'.server = channel.server /\ channel.server = "open"
        /\ shown'.written = shown.written + 1 /\ shown'.read = shown.read
    BY <1>12, <1>t DEF Ssh!ApplicationShows, ChannelType, ShownType
  <2>2. Len(channel'.output) = Len(channel.output) + 1
    BY <1>q, <2>1
  <2>3. UNCHANGED <<raw, opening, stream>>
    BY <1>12 DEF Ssh!ApplicationShows
  <2>4. stream.pipe # "ended" \/ raw = "closed"
    BY <2>1 DEF OutputHold
  <2>5. raw # "closed" /\ ~stream.closing
          => shown'.written = shown'.read + Len(stream'.held) + Len(channel'.output)
    <3> HAVE raw # "closed" /\ ~stream.closing
    <3>1. shown.written = shown.read + Len(stream.held) + Len(channel.output)
      BY DEF OutputHold
    <3>2. Len(stream'.held) = Len(stream.held)
      BY <2>3
    <3>3. /\ Len(channel.output) \in Nat /\ Len(stream.held) \in Nat
          /\ shown.written \in Nat /\ shown.read \in Nat
      BY <1>q
    <3>4. shown'.written = shown.written + 1 /\ shown'.read = shown.read
      BY <2>1
    <3> DEFINE onItsWay == Len(channel.output)
               held == Len(stream.held)
    <3> HIDE DEF onItsWay, held
    <3>5. shown.written + 1 = shown.read + held + (onItsWay + 1)
      BY <3>1, <3>3 DEF onItsWay, held
    <3> QED
      BY <2>2, <3>2, <3>4, <3>5 DEF onItsWay, held
  <2> QED
    BY <2>3, <2>4, <2>5 DEF OutputHold
<1> QED
  BY <1>1, <1>2, <1>3, <1>4, <1>5, <1>6, <1>7, <1>8, <1>9, <1>10, <1>11, <1>12
  DEF Ssh!Next, Ssh!ClientStep, Ssh!ServerStep

(* The size that was asked for last gets from the requests into the        *)
(* channel of one size, and from there to the application.                 *)
LEMMA SizesStep ==
  SshTypes /\ Starting /\ NewestOnItsWay /\ Ssh!Next => Starting' /\ NewestOnItsWay'
<1> SUFFICES ASSUME SshTypes, Starting, NewestOnItsWay, Ssh!Next
             PROVE  Starting' /\ NewestOnItsWay'
  OBVIOUS
<1>t. /\ channel \in ChannelType /\ server \in ServerType /\ application \in ApplicationType
  BY DEF SshTypes
<1>q. /\ channel.requests \in Seq(Requests) /\ server.resizes \in Seq(SshSizes)
      /\ resized \in Nat /\ Len(channel.requests) \in Nat
  BY <1>t DEF ChannelType, ServerType, SshTypes
<1>e. ASSUME channel'.requests = channel.requests,
             UNCHANGED <<opening, resized, server, application>>
      PROVE  Starting' /\ NewestOnItsWay'
  BY <1>e DEF Starting, NewestOnItsWay
<1>1. CASE \/ Ssh!ConnectStep \/ Ssh!Handshake \/ Ssh!Cancel \/ Ssh!Read \/ Ssh!Wait
           \/ Ssh!ReadEnds
  <2>1. UNCHANGED <<opening, channel, resized, server, application>>
    BY <1>1
    DEF Ssh!ConnectStep, Ssh!Dial, Ssh!SelectResult, Ssh!SelectDone, Ssh!AwaitResult,
        Ssh!Handshake, Ssh!Cancel, Ssh!Read, Ssh!Wait, Ssh!ReadEnds
  <2> QED
    BY <1>e, <2>1
<1>2. CASE Ssh!Copy \/ Ssh!CloseStream \/ Ssh!CloseConnection \/ Ssh!ApplicationShows
  <2>1. channel'.requests = channel.requests
    BY <1>2, <1>t
    DEF Ssh!Copy, Ssh!CloseStream, Ssh!CloseConnection, Ssh!ApplicationShows, ChannelType
  <2>2. UNCHANGED <<opening, resized, server, application>>
    BY <1>2 DEF Ssh!Copy, Ssh!CloseStream, Ssh!CloseConnection, Ssh!ApplicationShows
  <2> QED
    BY <1>e, <2>1, <2>2
<1>3. CASE Ssh!OpenChannel
  <2>1. application.at = "none" /\ opening = "none" /\ UNCHANGED <<resized, application>>
    BY <1>3 DEF Ssh!OpenChannel, NewestOnItsWay
  <2>2. /\ channel'.requests = channel.requests /\ server'.resizes = server.resizes
        /\ server'.at = server.at \/ server'.at = "select"
        /\ server'.size = server.size /\ opening' \in {"pty", "failed"}
    BY <1>3, <1>t DEF Ssh!OpenChannel, ChannelType, ServerType
  <2>3. channel.requests = <<>>
    BY <2>1 DEF Starting
  <2> QED
    BY <2>1, <2>2, <2>3 DEF Starting, NewestOnItsWay
<1>4. CASE Ssh!RequestPty \/ Ssh!Shell
  <2>1. /\ application.at = "none" /\ channel.requests = <<>>
        /\ UNCHANGED <<resized, application, server>>
    BY <1>4 DEF Ssh!RequestPty, Ssh!Shell, NewestOnItsWay, Starting
  <2>2. CASE Ssh!RequestPty
    <3>0. Ssh!Ask(Pty) /\ opening' = "pty asked"
      BY <2>2 DEF Ssh!RequestPty, Pty
    <3>1. channel'.requests = <<Pty>> /\ opening' = "pty asked"
      BY <1>t, <2>1, <3>0, AppendFirst DEF Ssh!Ask, ChannelType
    <3>2. Pty.type # ShellRequest.type
      BY DEF Pty, ShellRequest
    <3>3. <<Pty>> # <<ShellRequest>>
      BY <3>2
    <3> QED
      BY <2>1, <3>1, <3>3 DEF Starting, NewestOnItsWay
  <2>3. CASE Ssh!Shell
    <3>0. Ssh!Ask(ShellRequest) /\ opening' = "shell asked" /\ opening = "shell"
      BY <2>3 DEF Ssh!Shell, ShellRequest
    <3>1. channel'.requests = <<ShellRequest>>
      BY <1>t, <2>1, <3>0, AppendFirst DEF Ssh!Ask, ChannelType
    <3> QED
      BY <2>1, <3>0, <3>1 DEF Starting, NewestOnItsWay
  <2> QED
    BY <1>4, <2>2, <2>3
<1>5. CASE Ssh!OpenFails
  <2>1. application.at = "none" /\ UNCHANGED <<resized, server, application>>
    BY <1>5 DEF Ssh!OpenFails, NewestOnItsWay
  <2>2. channel'.requests = channel.requests /\ opening' = "failed"
    BY <1>5, <1>t DEF Ssh!OpenFails, Ssh!Cleaned, ChannelType
  <2> QED
    BY <2>1, <2>2 DEF Starting, NewestOnItsWay
<1>6. CASE Ssh!WindowChange
  <2> DEFINE request == [type |-> "window-change", size |-> Sizes[resized + 1]]
  <2>1. /\ application.at # "none" /\ resized' = resized + 1
        /\ UNCHANGED <<opening, server, application>>
    BY <1>6 DEF Ssh!WindowChange, Starting
  <2>2. channel'.requests = Append(channel.requests, request)
    BY <1>6, <1>t DEF Ssh!WindowChange, Ssh!Ask, ChannelType
  <2>3. request.type = "window-change" /\ request.size = Sizes[resized']
    BY <2>1
  <2>4. request \in Requests
    BY <1>q DEF Requests, SshSizes
  <2> HIDE DEF request
  <2>5. /\ channel'.requests # <<>>
        /\ channel'.requests[Len(channel'.requests)] = request
        /\ \A i \in DOMAIN channel'.requests :
             channel'.requests[i] = request \/ (i \in DOMAIN channel.requests
                                              /\ channel'.requests[i] = channel.requests[i])
    BY <1>q, <2>2, <2>4
  <2> QED
    BY <2>1, <2>3, <2>5 DEF Starting, NewestOnItsWay
<1>7. CASE Ssh!Serve
  <2> DEFINE request == Head(channel.requests)
  <2>1. /\ channel.requests # <<>> /\ server.at = "select" /\ UNCHANGED resized
        /\ Ssh!Answered(request.type)
        /\ channel' = [channel EXCEPT !.requests = Tail(@)]
    BY <1>7 DEF Ssh!Serve
  <2>2. channel'.requests = Tail(channel.requests) /\ request = channel.requests[1]
    BY <1>t, <1>q, <2>1 DEF ChannelType
  <2>3. request.type = "pty-req"
          => server' = [server EXCEPT !.size = request.size] /\ UNCHANGED application
    BY <1>7 DEF Ssh!Serve
  <2>4. request.type = "shell"
          => application' = [at |-> "running", size |-> server.size] /\ UNCHANGED server
    BY <1>7 DEF Ssh!Serve
  <2>5. request.type = "window-change"
          => /\ UNCHANGED application
             /\ server' = IF server.resizes = <<>>
                          THEN [server EXCEPT !.resizes = <<request.size>>]
                          ELSE [server EXCEPT !.at = "take", !.next = request.size]
    BY <1>7 DEF Ssh!Serve
  <2> HIDE DEF request
  <2>6. CASE application.at = "none" /\ channel.requests = <<Pty>>
    <3>1. request.type = "pty-req" /\ request.size = Sizes[1] /\ channel'.requests = <<>>
      BY <2>2, <2>6 DEF Pty
    <3>2. <<Pty>> # <<ShellRequest>> /\ <<Pty>> # <<>>
      BY DEF Pty, ShellRequest
    <3>3. opening' = "shell" \/ opening' = "failed"
      <4>1. opening \in {"pty asked", "failed"}
        BY <2>6, <3>2 DEF Starting, SshTypes, OpeningType
      <4> QED
        BY <2>1, <3>1, <4>1 DEF Ssh!Answered
    <3>4. server'.size = Sizes[1] /\ server'.resizes = server.resizes /\ server'.at = server.at
      BY <1>t, <2>3, <3>1 DEF ServerType
    <3>5. UNCHANGED <<application, resized>>
      BY <2>1, <2>3, <3>1
    <3> QED
      BY <2>6, <3>1, <3>3, <3>4, <3>5 DEF Starting, NewestOnItsWay
  <2>7. CASE application.at = "none" /\ channel.requests = <<ShellRequest>>
    <3>1. request.type = "shell" /\ channel'.requests = <<>>
      BY <2>2, <2>7 DEF ShellRequest
    <3>2. <<Pty>> # <<ShellRequest>> /\ <<ShellRequest>> # <<>>
      BY DEF Pty, ShellRequest
    <3>3. opening' = "open" \/ opening' = "failed"
      <4>1. opening \in {"shell asked", "failed"}
        BY <2>7, <3>2 DEF Starting, SshTypes, OpeningType
      <4> QED
        BY <2>1, <3>1, <4>1 DEF Ssh!Answered
    <3>x. resized = 1 /\ server.resizes = <<>> /\ server.size = Sizes[1]
      BY <2>7 DEF Starting
    <3>4. application'.at = "running" /\ application'.size = Sizes[1] /\ UNCHANGED server
      BY <2>4, <3>1, <3>x
    <3>5. resized' = 1 /\ server'.resizes = <<>> /\ server'.at = "select"
      BY <2>1, <3>x, <3>4
    <3>6. DOMAIN channel'.requests = {}
      BY <3>1
    <3> QED
      BY <3>1, <3>6, <3>3, <3>4, <3>5 DEF Starting, NewestOnItsWay
  <2>8. CASE application.at # "none"
    <3>1. request.type = "window-change"
      BY <1>q, <2>1, <2>2, <2>8 DEF NewestOnItsWay
    <3>2. UNCHANGED <<opening, resized, application>>
      BY <2>1, <2>5, <2>8, <3>1 DEF Ssh!Answered, NewestOnItsWay
    <3>3. channel.requests[Len(channel.requests)].size = Sizes[resized]
      BY <2>1, <2>8 DEF NewestOnItsWay
    <3>4. /\ channel'.requests = <<>> => request.size = Sizes[resized]
          /\ channel'.requests # <<>>
               => channel'.requests[Len(channel'.requests)].size = Sizes[resized]
          /\ \A i \in DOMAIN channel'.requests :
               i + 1 \in DOMAIN channel.requests
               /\ channel'.requests[i] = channel.requests[i + 1]
      <4> DEFINE rest == channel'.requests
                 n == Len(channel.requests)
      <4>1. /\ n \in Nat /\ n >= 1 /\ rest \in Seq(Requests) /\ Len(rest) = n - 1
            /\ rest = <<>> <=> n = 1
            /\ \A i \in 1..(n - 1) : i + 1 \in 1..n /\ rest[i] = channel.requests[i + 1]
        BY <1>q, <2>1, <2>2, Taken
      <4>2. DOMAIN channel.requests = 1..n /\ DOMAIN rest = 1..(n - 1)
        BY <1>q, <4>1
      <4> HIDE DEF rest, n
      <4>3. rest = <<>> => request.size = Sizes[resized]
        BY <2>2, <3>3, <4>1 DEF n
      <4>4. rest # <<>> => rest[Len(rest)].size = Sizes[resized]
        <5>1. rest # <<>> => n - 1 \in 1..(n - 1) /\ (n - 1) + 1 = n
          BY <4>1
        <5>2. rest # <<>> => rest[n - 1] = channel.requests[n]
          BY <4>1, <5>1
        <5> QED
          BY <3>3, <4>1, <5>2 DEF n
      <4> QED
        BY <4>1, <4>2, <4>3, <4>4 DEF rest
    <3>5. \A i \in DOMAIN channel'.requests : channel'.requests[i].type = "window-change"
      BY <2>8, <3>4 DEF NewestOnItsWay
    <3>6. CASE server.resizes = <<>>
      <4>1. /\ server'.at = "select" /\ server'.resizes # <<>>
            /\ Head(server'.resizes) = request.size
        BY <1>t, <2>1, <2>5, <3>1, <3>6 DEF ServerType
      <4> QED
        BY <2>8, <3>2, <3>4, <3>5, <4>1 DEF Starting, NewestOnItsWay
    <3>7. CASE server.resizes # <<>>
      <4>1. server'.at = "take" /\ server'.next = request.size
        BY <1>t, <2>5, <3>1, <3>7 DEF ServerType
      <4> QED
        BY <2>8, <3>2, <3>4, <3>5, <4>1 DEF Starting, NewestOnItsWay
    <3> QED
      BY <3>6, <3>7
  <2> QED
    BY <2>1, <2>6, <2>7, <2>8 DEF Starting
<1>8. CASE Ssh!TakeOldSize
  <2>1. /\ server'.at = "put" /\ server.at = "take" /\ server'.next = server.next
        /\ application.at # "none"
    BY <1>8, <1>t DEF Ssh!TakeOldSize, ServerType, Starting
  <2>2. UNCHANGED <<opening, channel, resized, application>>
    BY <1>8 DEF Ssh!TakeOldSize
  <2> QED
    BY <2>1, <2>2 DEF Starting, NewestOnItsWay
<1>9. CASE Ssh!PutNewSize
  <2>1. /\ server.at = "put" /\ server'.at = "select" /\ server'.resizes = <<server.next>>
        /\ application.at # "none"
    BY <1>9, <1>t DEF Ssh!PutNewSize, ServerType, Starting
  <2>2. server'.resizes # <<>> /\ Head(server'.resizes) = server.next
    BY <2>1
  <2>3. UNCHANGED <<opening, channel, resized, application>>
    BY <1>9 DEF Ssh!PutNewSize
  <2> QED
    BY <2>1, <2>2, <2>3 DEF Starting, NewestOnItsWay
<1>10. CASE Ssh!ServerEnds
  <2>1. /\ server.at = "select" /\ server'.at = "ended" /\ server'.resizes = server.resizes
        /\ server'.size = server.size /\ server'.next = server.next
        /\ channel'.requests = channel.requests
    BY <1>10, <1>t DEF Ssh!ServerEnds, ServerType, ChannelType
  <2>2. UNCHANGED <<opening, resized, application>>
    BY <1>10 DEF Ssh!ServerEnds
  <2> QED
    BY <2>1, <2>2 DEF Starting, NewestOnItsWay
<1>11. CASE Ssh!ApplicationResized
  <2>1. /\ server'.at = server.at /\ server'.next = server.next /\ server'.resizes = <<>>
        /\ server.resizes # <<>> /\ application.at = "running" /\ application'.at = "running"
        /\ application'.size = Head(server.resizes)
    BY <1>11, <1>t DEF Ssh!ApplicationResized, ServerType, ApplicationType
  <2>2. UNCHANGED <<opening, channel, resized>>
    BY <1>11 DEF Ssh!ApplicationResized
  <2> QED
    BY <2>1, <2>2 DEF Starting, NewestOnItsWay
<1>12. CASE Ssh!ApplicationDone
  <2>1. /\ application.at = "running" /\ application'.at = "done"
        /\ application'.size = application.size
    BY <1>12, <1>t DEF Ssh!ApplicationDone, ApplicationType
  <2>2. UNCHANGED <<opening, channel, resized, server>>
    BY <1>12 DEF Ssh!ApplicationDone
  <2> QED
    BY <2>1, <2>2 DEF Starting, NewestOnItsWay
<1>13. CASE Ssh!OpenRefused
  <2>1. /\ application.at = "none" /\ UNCHANGED <<resized, server, application>>
        /\ channel.requests # <<>> /\ opening' = "failed"
    BY <1>13 DEF Ssh!OpenRefused, Ssh!Asks, NewestOnItsWay
  <2>2. channel'.requests = Tail(channel.requests)
    BY <1>13, <1>t DEF Ssh!OpenRefused, Ssh!Cleaned, ChannelType
  <2>3. channel.requests \in {<<Pty>>, <<ShellRequest>>}
    BY <2>1 DEF Starting
  <2>4. channel'.requests = <<>>
    <3>1. CASE channel.requests = <<Pty>>
      BY <2>2, <3>1 DEF Pty
    <3>2. CASE channel.requests = <<ShellRequest>>
      BY <2>2, <3>2 DEF ShellRequest
    <3> QED
      BY ONLY <2>3, <3>1, <3>2
  <2>5. <<Pty>> # <<>> /\ <<ShellRequest>> # <<>>
    BY DEF Pty, ShellRequest
  <2>6. /\ resized' = 1 /\ server'.resizes = <<>> /\ server'.at \in {"idle", "select", "ended"}
        /\ application'.at = "none"
    BY <2>1 DEF Starting
  <2>7. <<>> # <<ShellRequest>>
    BY <2>5
  <2> QED
    BY ONLY <2>1, <2>4, <2>5, <2>6, <2>7 DEF Starting, NewestOnItsWay
<1> QED
  BY <1>1, <1>2, <1>3, <1>4, <1>5, <1>6, <1>7, <1>8, <1>9, <1>10, <1>11, <1>12,
     <1>13
  DEF Ssh!Next, Ssh!ClientStep, Ssh!ServerStep

(* The session over SSH: every step, and the steps of Telnet. *)
LEMMA SshStep == SshHolds /\ [Next]_vars => SshHolds'
<1> SUFFICES ASSUME SshHolds, [Next]_vars PROVE SshHolds'
  OBVIOUS
<1>1. CASE Ssh!Next
  <2>1. SshTypes' /\ OnlyConnectedOpen' /\ OutputHold' /\ Starting' /\ NewestOnItsWay'
    BY <1>1, SshTyped, OpenStep, OutputStep, SizesStep DEF SshHolds
  <2> QED
    BY <2>1 DEF SshHolds
<1>2. CASE UNCHANGED sshVars
  <2>1. UNCHANGED <<raw, connect, opening, channel, stream, resized, server, application, shown>>
    BY <1>2 DEF sshVars
  <2>2. SshTypes'
    BY <2>1 DEF SshHolds, SshTypes
  <2>3. OnlyConnectedOpen' /\ OutputHold'
    BY <2>1 DEF SshHolds, OnlyConnectedOpen, OutputHold
  <2>4. Starting' /\ NewestOnItsWay'
    BY <2>1 DEF SshHolds, Starting, NewestOnItsWay
  <2> QED
    BY <2>2, <2>3, <2>4 DEF SshHolds
<1> QED
  BY <1>1, <1>2 DEF Next, vars

(* A session over SSH begins with nothing open.                            *)
LEMMA SshInit == Init => SshHolds
<1> SUFFICES ASSUME Init PROVE SshHolds
  OBVIOUS
<1>1. /\ raw = "none"
      /\ connect = [at |-> "dial", handshake |-> "none", canceled |-> FALSE]
      /\ opening = "none"
      /\ channel = [client |-> "none", server |-> "none", requests |-> <<>>, output |-> <<>>]
      /\ stream = [pipe |-> "open", held |-> <<>>, end |-> "none", closing |-> FALSE]
      /\ resized = 1
      /\ server = [at |-> "idle", size |-> 0, next |-> 0, resizes |-> <<>>]
      /\ application = [at |-> "none", size |-> 0]
      /\ shown = [written |-> 0, read |-> 0]
  BY DEF Init, Ssh!Init
<1>2. SshTypes
  <2>1. /\ connect \in ConnectType /\ opening \in OpeningType /\ application \in ApplicationType
        /\ shown \in ShownType
    BY <1>1 DEF ConnectType, OpeningType, ApplicationType, ShownType, SshSizes
  <2>2. channel \in ChannelType
    BY <1>1 DEF ChannelType
  <2>3. stream \in StreamType
    BY <1>1 DEF StreamType
  <2>4. server \in ServerType
    BY <1>1 DEF ServerType, SshSizes
  <2> QED
    BY <1>1, <2>1, <2>2, <2>3, <2>4 DEF SshTypes
<1>3. OnlyConnectedOpen /\ Starting /\ NewestOnItsWay
  BY <1>1 DEF OnlyConnectedOpen, Starting, NewestOnItsWay
<1>4. OutputHold
  <2>1. Len(stream.held) = 0 /\ Len(channel.output) = 0
    BY <1>1
  <2> QED
    BY <1>1, <2>1 DEF OutputHold
<1> QED
  BY <1>2, <1>3, <1>4 DEF SshHolds

(* A failed Connect or OpenSession leaves nothing open, the reader is told *)
(* of the end after all output, and the application gets the newest size,  *)
(* however dialing, requests, resizes and closes race                      *)
(* (ssh/connector.go:76-185, 224-273, reference/ssh/server.go:101-173).    *)
THEOREM OutputBeforeEnd == Spec => []OutputThenEnd
<1>1. SshHolds => OutputThenEnd
  <2> SUFFICES ASSUME SshHolds PROVE OutputThenEnd
    OBVIOUS
  <2>1. Ssh!FailuresLeaveNothing
    BY DEF SshHolds, OnlyConnectedOpen, Ssh!FailuresLeaveNothing
  <2>2. ASSUME stream.end = "returned", ~stream.closing, raw = "open"
        PROVE  shown.read = shown.written
    <3>1. stream.pipe = "ended"
      BY <2>2 DEF SshHolds, OutputHold, SshTypes, StreamType
    <3>2. Len(stream.held) = 0 /\ Len(channel.output) = 0
      BY <2>2, <3>1 DEF SshHolds, OutputHold
    <3>3. shown.written = shown.read + Len(stream.held) + Len(channel.output)
      BY <2>2 DEF SshHolds, OutputHold
    <3> QED
      BY <3>2, <3>3 DEF SshHolds, SshTypes, ShownType
  <2>3. ASSUME application.at = "running", server.at = "select", server.resizes = <<>>,
               channel.requests = <<>>
        PROVE  application.size = Sizes[resized]
    BY <2>3 DEF SshHolds, NewestOnItsWay
  <2> QED
    BY <2>1, <2>2, <2>3 DEF OutputThenEnd, Ssh!OutputThenEnd
<1> QED
  BY <1>1, SshInit, SshStep, PTL DEF Spec

----------------------------------------------------------------------------
(* The bytes on the wire. *)
Bytes == STRING \cup {"", "IAC", "SB", "SE", "DO", "DONT", "WILL", "WONT", "TTYPE", "NAWS",
                      "IS", "SEND", "vt220"}

(* The pieces put together, after each of them. *)
PiecesPassed(s, f) == f[0] = <<>> /\ \A n \in 1..Len(s) : f[n] = f[n - 1] \o s[n]

(* Pieces can be put together (telnet/stream.go:109-121).                  *)
LEMMA JoinedIs ==
  ASSUME NEW B, NEW s \in Seq(Seq(B))
  PROVE  \E f \in [0..Len(s) -> Seq(B)] :
           PiecesPassed(s, f) /\ \A n \in 0..Len(s) : Telnet!Joined(s, n) = f[n]
<1> DEFINE S == Seq(B)
           step == [n \in 1..Len(s) |-> [o \in S |-> o \o s[n]]]
           Loop(f) == f = [i \in 0..Len(s) |-> IF i = 0 THEN <<>> ELSE f[i - 1] \o s[i]]
<1>n. Len(s) \in Nat /\ <<>> \in S
  OBVIOUS
<1>b. \A n \in 1..Len(s) : \A o \in S : o \o s[n] \in S
  OBVIOUS
<1>1. step \in [1..Len(s) -> [S -> S]]
  <2> HIDE DEF S
  <2> QED
    BY <1>b
<1>2. PICK g \in [0..Len(s) -> S] : IsLoop(g, Len(s), <<>>, step)
  <2> HIDE DEF step, S
  <2> QED
    BY <1>n, <1>1, LoopDefined, ZenonT(30)
<1>3. PiecesPassed(s, g)
  <2>1. ASSUME NEW n \in 1..Len(s) PROVE g[n] = g[n - 1] \o s[n]
    <3>1. n - 1 \in 0..Len(s) /\ g[n - 1] \in S
      <4>1. n - 1 \in 0..Len(s)
        BY <1>n
      <4> HIDE DEF S, step
      <4> QED
        BY <4>1
    <3>2. g[n] = step[n][g[n - 1]]
      BY <1>2 DEF IsLoop
    <3> HIDE DEF S
    <3> QED
      BY <3>1, <3>2
  <2> QED
    BY <1>2, <2>1 DEF IsLoop, PiecesPassed
<1>4. Loop(g)
  <2> DEFINE h == [i \in 0..Len(s) |-> IF i = 0 THEN <<>> ELSE g[i - 1] \o s[i]]
  <2>1. \A n \in 0..Len(s) : n = 0 \/ n \in 1..Len(s)
    OBVIOUS
  <2>2. \A n \in 0..Len(s) : h[n] = g[n]
    BY <1>3, <2>1 DEF PiecesPassed
  <2> QED
    BY <2>2
<1>5. PICK f : f = CHOOSE x : Loop(x)
  OBVIOUS
<1>6. Loop(f)
  <2> HIDE DEF Loop
  <2> QED
    BY <1>4, <1>5
<1>7. \A n \in 0..Len(s) : Telnet!Joined(s, n) = f[n]
  BY <1>5 DEF Telnet!Joined
<1>8. PiecesPassed(s, f) /\ DOMAIN f = 0..Len(s)
  <2>1. DOMAIN f = 0..Len(s)
    BY <1>6
  <2>2. \A n \in 0..Len(s) : f[n] = IF n = 0 THEN <<>> ELSE f[n - 1] \o s[n]
    BY <1>6
  <2>3. 0 \in 0..Len(s) /\ \A n \in 1..Len(s) : n \in 0..Len(s) /\ n # 0
    OBVIOUS
  <2> HIDE DEF Loop
  <2> QED
    BY <2>1, <2>2, <2>3 DEF PiecesPassed
<1>9. f \in [0..Len(s) -> S]
  <2> DEFINE T == {n \in Nat : n <= Len(s) => f[n] \in S}
  <2>1. 0 \in T
    BY <1>8, <1>n DEF PiecesPassed
  <2>2. ASSUME NEW n \in Nat, n \in T PROVE n + 1 \in T
    <3> SUFFICES ASSUME n + 1 <= Len(s) PROVE f[n + 1] \in S
      OBVIOUS
    <3>1. n + 1 \in 1..Len(s) /\ n + 1 - 1 = n /\ f[n] \in S
      BY <2>2
    <3>2. PICK m \in 1..Len(s) : m = n + 1 /\ m - 1 = n
      BY <3>1
    <3>3. f[m] = f[m - 1] \o s[m]
      BY <1>8 DEF PiecesPassed
    <3>4. f[m] = f[n] \o s[m]
      BY <3>2, <3>3
    <3> HIDE DEF S
    <3> QED
      BY <1>b, <3>1, <3>2, <3>4
  <2>3. Nat \subseteq T
    <3> HIDE DEF T
    <3> QED
      BY <2>1, <2>2, SetInduction
  <2>4. \A n \in 0..Len(s) : f[n] \in S
    BY <2>3
  <2> HIDE DEF T, S, Loop
  <2>5. f = [n \in 0..Len(s) |-> f[n]]
    <3> USE DEF Loop
    <3> QED
      BY <1>6
  <2> QED
    BY <2>4, <2>5
<1> QED
  BY <1>7, <1>8, <1>9

(* The machine that takes the wire apart (telnet/stream.go:152-205,        *)
(* reference/telnet/server.go:137-211).                                    *)
Parsers == [state : {"data", "iac", "negotiation", "subOption", "subData", "subIAC"},
            command : Bytes, option : Bytes, data : Seq(Bytes)]

(* The machine at each byte of s, and the data from there on. *)
RunOver(s, ps, ds) ==
  /\ ds[Len(s) + 1] = <<>>
  /\ \A i \in 1..Len(s) : /\ ps[i + 1] = Telnet!Processed(ps[i], s[i])
                          /\ ds[i] = Telnet!DataOf(ps[i], s[i]) \o ds[i + 1]

(* From p the bytes take the machine to q, and d is the data among them. *)
Decodes(p, s, q, d) ==
  \E ps \in [1..(Len(s) + 1) -> Parsers], ds \in [1..(Len(s) + 1) -> Seq(Bytes)] :
    RunOver(s, ps, ds) /\ ps[1] = p /\ ps[Len(s) + 1] = q /\ ds[1] = d

(* Two sequences of one element.                                           *)
LEMMA ConcatPair == ASSUME NEW a, NEW b PROVE <<a>> \o <<b>> = <<a, b>>
<1>1. PICK S : S = {a, b}
  OBVIOUS
<1>2. PICK s \in Seq(S), t \in Seq(S) : s = <<a>> \o <<b>> /\ t = <<a, b>>
  <2>1. <<a>> \in Seq(S) /\ <<b>> \in Seq(S) /\ <<a, b>> \in Seq(S)
    BY <1>1
  <2>2. <<a>> \o <<b>> \in Seq(S)
    BY <2>1
  <2> QED
    BY <2>1, <2>2
<1>3. Len(s) = 2 /\ Len(t) = 2 /\ s[1] = a /\ s[2] = b /\ t[1] = a /\ t[2] = b
  BY <1>2
<1>4. \A i \in 1..Len(s) : s[i] = t[i]
  BY <1>3
<1>5. s = t
  BY <1>3, <1>4, SeqEqual
<1> QED
  BY <1>2, <1>5

(* A pair and a third element.                                             *)
LEMMA ConcatTriple == ASSUME NEW a, NEW b, NEW c PROVE <<a, b>> \o <<c>> = <<a, b, c>>
<1>1. PICK S : S = {a, b, c}
  OBVIOUS
<1>2. PICK s \in Seq(S), t \in Seq(S) : s = <<a, b>> \o <<c>> /\ t = <<a, b, c>>
  <2>1. <<a, b>> \in Seq(S) /\ <<c>> \in Seq(S) /\ <<a, b, c>> \in Seq(S)
    BY <1>1
  <2>2. <<a, b>> \o <<c>> \in Seq(S)
    BY <2>1
  <2> QED
    BY <2>1, <2>2
<1>3. /\ Len(s) = 3 /\ Len(t) = 3 /\ s[1] = a /\ s[2] = b /\ s[3] = c
      /\ t[1] = a /\ t[2] = b /\ t[3] = c
  BY <1>2
<1>4. \A i \in 1..Len(s) : s[i] = t[i]
  BY <1>3
<1>5. s = t
  BY <1>3, <1>4, SeqEqual
<1> QED
  BY <1>2, <1>5

(* Three sequences of bytes, and what their concatenations have in common. *)
Regroups(s, t, u) == (s \o t) \o u = s \o (t \o u)

LEMMA ConcatThree ==
  ASSUME NEW s \in Seq(Bytes), NEW t \in Seq(Bytes), NEW u \in Seq(Bytes)
  PROVE  Regroups(s, t, u)
BY ConcatAssociative DEF Regroups

(* Nothing is put before or after a sequence.                              *)
LEMMA ConcatNothing ==
  ASSUME NEW S, NEW s \in Seq(S) PROVE <<>> \o s = s /\ s \o <<>> = s
OBVIOUS

(* What one byte does (telnet/stream.go:152-205).                          *)
LEMMA ByteTyped ==
  ASSUME NEW p \in Parsers, NEW b \in Bytes
  PROVE  /\ Telnet!Processed(p, b) \in Parsers
         /\ Telnet!DataOf(p, b) \in Seq(Bytes) /\ Telnet!DataOf(p, b) \in {<<>>, <<b>>}
<1>1. Append(p.data, b) \in Seq(Bytes) /\ <<>> \in Seq(Bytes) /\ <<b>> \in Seq(Bytes)
  BY DEF Parsers
<1>2. \A state \in {"data", "iac", "negotiation", "subOption", "subData", "subIAC"} :
        [p EXCEPT !.state = state] \in Parsers
  BY DEF Parsers
<1>3. [p EXCEPT !.state = "negotiation", !.command = b] \in Parsers
  BY DEF Parsers
<1>4. [p EXCEPT !.state = "subOption"] \in Parsers
  BY DEF Parsers
<1>5. [p EXCEPT !.state = "subData", !.option = b, !.data = <<>>] \in Parsers
  BY <1>1 DEF Parsers
<1>6. /\ [p EXCEPT !.data = Append(@, b)] \in Parsers
      /\ [p EXCEPT !.state = "subData", !.data = Append(@, b)] \in Parsers
  BY <1>1 DEF Parsers
<1>7. Telnet!Processed(p, b) \in Parsers
  BY <1>2, <1>3, <1>5, <1>6 DEF Telnet!Processed
<1> QED
  BY <1>1, <1>7 DEF Telnet!DataOf

(* No bytes, no data. *)
LEMMA DecodesNothing ==
  ASSUME NEW p \in Parsers
  PROVE  Decodes(p, <<>>, p, <<>>) /\ \A q, d : Decodes(p, <<>>, q, d) => q = p /\ d = <<>>
<1>1. Len(<<>>) = 0 /\ <<>> \in Seq(Bytes)
  OBVIOUS
<1>2. Decodes(p, <<>>, p, <<>>)
  <2> DEFINE ps == [i \in 1..(Len(<<>>) + 1) |-> p]
             ds == [i \in 1..(Len(<<>>) + 1) |-> <<>>]
  <2>1. ps \in [1..(Len(<<>>) + 1) -> Parsers] /\ ds \in [1..(Len(<<>>) + 1) -> Seq(Bytes)]
    BY <1>1
  <2>2. Len(<<>>) + 1 \in 1..(Len(<<>>) + 1) /\ 1 \in 1..(Len(<<>>) + 1)
    BY <1>1
  <2>3. RunOver(<<>>, ps, ds) /\ ps[1] = p /\ ps[Len(<<>>) + 1] = p /\ ds[1] = <<>>
    BY <1>1, <2>2 DEF RunOver
  <2> HIDE DEF ps, ds
  <2> QED
    BY <2>1, <2>3 DEF Decodes
<1>3. ASSUME NEW q, NEW d, Decodes(p, <<>>, q, d) PROVE q = p /\ d = <<>>
  BY <1>1, <1>3 DEF Decodes, RunOver
<1> QED
  BY <1>2, <1>3

(* A single byte. *)
LEMMA DecodesByte ==
  ASSUME NEW p \in Parsers, NEW b \in Bytes
  PROVE  Decodes(p, <<b>>, Telnet!Processed(p, b), Telnet!DataOf(p, b))
<1> DEFINE q == Telnet!Processed(p, b)
           d == Telnet!DataOf(p, b)
           s == <<b>>
           ps == [i \in 1..(Len(s) + 1) |-> IF i = 1 THEN p ELSE q]
           ds == [i \in 1..(Len(s) + 1) |-> IF i = 1 THEN d ELSE <<>>]
<1>1. q \in Parsers /\ d \in Seq(Bytes) /\ <<>> \in Seq(Bytes)
  BY ByteTyped
<1>2. Len(s) = 1 /\ s[1] = b
  OBVIOUS
<1>3. d \o <<>> = d
  <2> HIDE DEF d
  <2> QED
    BY <1>1
<1> HIDE DEF q, d, s
<1>4. ps \in [1..(Len(s) + 1) -> Parsers] /\ ds \in [1..(Len(s) + 1) -> Seq(Bytes)]
  BY <1>1
<1>5. Len(s) + 1 = 2 /\ 1..Len(s) = {1} /\ 1 \in 1..(Len(s) + 1) /\ 2 \in 1..(Len(s) + 1)
  BY <1>2
<1>6. ps[1] = p /\ ps[2] = q /\ ds[1] = d /\ ds[2] = <<>>
  BY <1>5
<1> HIDE DEF ps, ds
<1>7. RunOver(s, ps, ds)
  <2>1. ps[2] = Telnet!Processed(ps[1], s[1]) /\ ds[1] = Telnet!DataOf(ps[1], s[1]) \o ds[2]
    BY <1>2, <1>3, <1>6 DEF q, d
  <2>2. \A i \in 1..Len(s) : i = 1 /\ i + 1 = 2
    BY <1>5
  <2>3. ds[Len(s) + 1] = <<>>
    BY <1>5, <1>6
  <2> QED
    BY <2>1, <2>2, <2>3 DEF RunOver
<1> QED
  BY <1>4, <1>5, <1>6, <1>7 DEF Decodes, q, d, s

(* The bytes of two parts, one behind the other. *)
LEMMA DecodesBoth ==
  ASSUME NEW p, NEW q, NEW r, NEW s \in Seq(Bytes), NEW t \in Seq(Bytes), NEW d, NEW e,
         Decodes(p, s, q, d), Decodes(q, t, r, e)
  PROVE  Decodes(p, s \o t, r, d \o e)
<1>1. PICK ps \in [1..(Len(s) + 1) -> Parsers], ds \in [1..(Len(s) + 1) -> Seq(Bytes)] :
        RunOver(s, ps, ds) /\ ps[1] = p /\ ps[Len(s) + 1] = q /\ ds[1] = d
  BY DEF Decodes
<1>2. PICK qs \in [1..(Len(t) + 1) -> Parsers], es \in [1..(Len(t) + 1) -> Seq(Bytes)] :
        RunOver(t, qs, es) /\ qs[1] = q /\ qs[Len(t) + 1] = r /\ es[1] = e
  BY DEF Decodes
<1>a. Len(s) \in Nat /\ Len(t) \in Nat /\ s \o t \in Seq(Bytes)
  OBVIOUS
<1>n. PICK m \in Nat, n \in Nat : m = Len(s) /\ n = Len(t)
  BY <1>a
<1>u. PICK u \in Seq(Bytes) : u = s \o t
  BY <1>a
<1>3. /\ Len(u) = m + n
      /\ \A i \in 1..m : u[i] = s[i]
      /\ \A i \in (m + 1)..(m + n) : u[i] = t[i - m]
  BY <1>n, <1>u
<1>p. ps \in [1..(m + 1) -> Parsers] /\ ds \in [1..(m + 1) -> Seq(Bytes)]
      /\ qs \in [1..(n + 1) -> Parsers] /\ es \in [1..(n + 1) -> Seq(Bytes)]
  BY <1>n
<1>4. e \in Seq(Bytes) /\ d \in Seq(Bytes)
  <2>1. 1 \in 1..(m + 1) /\ 1 \in 1..(n + 1)
    BY <1>n
  <2>2. ds[1] \in Seq(Bytes) /\ es[1] \in Seq(Bytes)
    BY <1>p, <2>1
  <2> QED
    BY <1>1, <1>2, <2>2
<1> DEFINE rs == [i \in 1..(Len(u) + 1) |-> IF i <= m THEN ps[i] ELSE qs[i - m]]
           fs == [i \in 1..(Len(u) + 1) |-> IF i <= m THEN ds[i] \o e ELSE es[i - m]]
<1>5. \A i \in 1..(Len(u) + 1) :
        (i <= m /\ i \in 1..(m + 1)) \/ (~(i <= m) /\ i - m \in 1..(n + 1))
  BY <1>n, <1>3
<1>6. rs \in [1..(Len(u) + 1) -> Parsers]
  BY <1>5, <1>p
<1>7. fs \in [1..(Len(u) + 1) -> Seq(Bytes)]
  <2>1. \A i \in 1..(m + 1) : ds[i] \o e \in Seq(Bytes)
    <3>1. \A i \in 1..(m + 1) : ds[i] \in Seq(Bytes)
      BY <1>p
    <3> QED
      BY <1>4, <3>1
  <2>2. \A i \in 1..(n + 1) : es[i] \in Seq(Bytes)
    BY <1>p
  <2> QED
    BY <1>5, <2>1, <2>2
(* What they are at the seam: both sides agree. *)
<1>8. \A i \in 1..(m + 1) : rs[i] = ps[i] /\ fs[i] = ds[i] \o e
  <2>1. ASSUME NEW i \in 1..(m + 1) PROVE rs[i] = ps[i] /\ fs[i] = ds[i] \o e
    <3>1. i \in 1..(Len(u) + 1)
      BY <1>n, <1>3
    <3>2. CASE i <= m
      BY <3>1, <3>2
    <3>3. CASE ~(i <= m)
      <4>1. i = m + 1 /\ i - m = 1
        BY <1>n, <3>3
      <4>2. rs[i] = q /\ fs[i] = e
        BY <1>2, <3>1, <3>3, <4>1
      <4>3. ps[i] = q /\ ds[i] = <<>>
        BY <1>1, <1>n, <4>1 DEF RunOver
      <4> QED
        BY <1>4, <4>2, <4>3
    <3> QED
      BY <3>2, <3>3
  <2> QED
    BY <2>1
<1>9. \A i \in 1..(n + 1) : rs[m + i] = qs[i] /\ fs[m + i] = es[i]
  <2>1. ASSUME NEW i \in 1..(n + 1) PROVE rs[m + i] = qs[i] /\ fs[m + i] = es[i]
    <3>1. PICK k \in 1..(Len(u) + 1) : k = m + i /\ ~(k <= m) /\ k - m = i
      <4>1. m + i \in 1..(Len(u) + 1) /\ ~(m + i <= m) /\ m + i - m = i
        BY <1>n, <1>3
      <4> QED
        BY <4>1
    <3>2. rs[k] = qs[i] /\ fs[k] = es[i]
      BY <3>1
    <3> QED
      BY <3>1, <3>2
  <2> QED
    BY <2>1
<1> HIDE DEF rs, fs
<1>10. RunOver(u, rs, fs)
  <2>1. fs[Len(u) + 1] = <<>>
    <3>1. Len(u) + 1 = m + (n + 1) /\ n + 1 \in 1..(n + 1)
      BY <1>n, <1>3
    <3> QED
      BY <1>2, <1>9, <1>n, <3>1 DEF RunOver
  <2>2. ASSUME NEW i \in 1..Len(u)
        PROVE  rs[i + 1] = Telnet!Processed(rs[i], u[i])
               /\ fs[i] = Telnet!DataOf(rs[i], u[i]) \o fs[i + 1]
    <3>1. CASE i \in 1..m
      <4>1. i \in 1..(m + 1) /\ i + 1 \in 1..(m + 1)
        BY <1>n, <3>1
      <4>2. u[i] = s[i] /\ s[i] \in Bytes
        BY <1>3, <1>n, <3>1
      <4>3. ps[i + 1] = Telnet!Processed(ps[i], s[i])
            /\ ds[i] = Telnet!DataOf(ps[i], s[i]) \o ds[i + 1]
        BY <1>1, <1>n, <3>1 DEF RunOver
      <4>4. /\ rs[i] = ps[i] /\ fs[i] = ds[i] \o e
            /\ rs[i + 1] = ps[i + 1] /\ fs[i + 1] = ds[i + 1] \o e
        BY <1>8, <4>1
      <4>5. Telnet!DataOf(ps[i], s[i]) \in Seq(Bytes) /\ ds[i + 1] \in Seq(Bytes)
        BY <1>p, <4>1, <4>2, ByteTyped
      <4>6. (Telnet!DataOf(ps[i], s[i]) \o ds[i + 1]) \o e
              = Telnet!DataOf(ps[i], s[i]) \o (ds[i + 1] \o e)
        <5>1. PICK x \in Seq(Bytes), y \in Seq(Bytes), z \in Seq(Bytes) :
                x = Telnet!DataOf(ps[i], s[i]) /\ y = ds[i + 1] /\ z = e
          BY <1>4, <4>5
        <5>2. (x \o y) \o z = x \o (y \o z)
          <6>1. Regroups(x, y, z)
            BY ONLY ConcatThree, x \in Seq(Bytes), y \in Seq(Bytes), z \in Seq(Bytes)
          <6> QED
            BY ONLY <6>1 DEF Regroups
        <5> QED
          BY <5>1, <5>2
      <4> QED
        BY <4>2, <4>3, <4>4, <4>6
    <3>2. CASE i \notin 1..m
      <4>1. PICK k \in 1..n : i = m + k /\ i - m = k /\ i + 1 = m + (k + 1)
        <5>1. i - m \in 1..n /\ i = m + (i - m) /\ i + 1 = m + ((i - m) + 1)
          BY <1>n, <1>3, <3>2
        <5> QED
          BY <5>1
      <4>2. k \in 1..(n + 1) /\ k + 1 \in 1..(n + 1) /\ i \in (m + 1)..(m + n)
        BY <1>n, <4>1
      <4>3. u[i] = t[k]
        BY <1>3, <4>1, <4>2
      <4>4. qs[k + 1] = Telnet!Processed(qs[k], t[k])
            /\ es[k] = Telnet!DataOf(qs[k], t[k]) \o es[k + 1]
        BY <1>2, <1>n, <4>1 DEF RunOver
      <4>5. /\ rs[i] = qs[k] /\ fs[i] = es[k]
            /\ rs[i + 1] = qs[k + 1] /\ fs[i + 1] = es[k + 1]
        BY <1>9, <4>1, <4>2
      <4> QED
        BY <4>3, <4>4, <4>5
    <3> QED
      BY <3>1, <3>2
  <2> QED
    BY <2>1, <2>2 DEF RunOver
<1>11. rs[1] = p /\ fs[1] = d \o e /\ rs[Len(u) + 1] = r
  <2>1. 1 \in 1..(m + 1) /\ n + 1 \in 1..(n + 1) /\ Len(u) + 1 = m + (n + 1)
    BY <1>n, <1>3
  <2>2. rs[1] = ps[1] /\ fs[1] = ds[1] \o e
    BY <1>8, <2>1
  <2>3. rs[m + (n + 1)] = qs[n + 1]
    BY <1>9, <2>1
  <2> QED
    BY <1>1, <1>2, <1>n, <2>1, <2>2, <2>3
<1>12. Decodes(p, u, r, d \o e)
  BY <1>6, <1>7, <1>10, <1>11 DEF Decodes
<1> QED
  BY <1>12, <1>u

(* The first byte, and the bytes after it. *)
LEMMA DecodesRest ==
  ASSUME NEW p \in Parsers, NEW q, NEW s \in Seq(Bytes), s # <<>>, NEW d, Decodes(p, s, q, d)
  PROVE  \E e \in Seq(Bytes) : /\ d = Telnet!DataOf(p, Head(s)) \o e
                               /\ Decodes(Telnet!Processed(p, Head(s)), Tail(s), q, e)
<1>1. PICK ps \in [1..(Len(s) + 1) -> Parsers], ds \in [1..(Len(s) + 1) -> Seq(Bytes)] :
        RunOver(s, ps, ds) /\ ps[1] = p /\ ps[Len(s) + 1] = q /\ ds[1] = d
  BY DEF Decodes
<1>t. /\ Len(s) \in Nat /\ Len(s) >= 1 /\ Head(s) = s[1]
      /\ Tail(s) \in Seq(Bytes) /\ Len(Tail(s)) = Len(s) - 1
      /\ \A i \in 1..(Len(s) - 1) : i + 1 \in 1..Len(s) /\ Tail(s)[i] = s[i + 1]
  BY Taken
<1>n. PICK n \in Nat : Len(s) = n + 1 /\ Len(s) - 1 = n
  <2>1. Len(s) - 1 \in Nat /\ Len(s) = (Len(s) - 1) + 1
    BY <1>t
  <2> QED
    BY <2>1
<1>u. PICK u \in Seq(Bytes) : u = Tail(s)
  BY <1>t
<1>2. /\ Len(u) = n
      /\ \A i \in 1..n : i + 1 \in 1..Len(s) /\ u[i] = s[i + 1]
  BY <1>t, <1>n, <1>u
<1> DEFINE qs == [i \in 1..(Len(u) + 1) |-> ps[i + 1]]
           es == [i \in 1..(Len(u) + 1) |-> ds[i + 1]]
<1>3. \A i \in 1..(Len(u) + 1) : i + 1 \in 1..(Len(s) + 1)
  BY <1>2, <1>n
<1>4. qs \in [1..(Len(u) + 1) -> Parsers] /\ es \in [1..(Len(u) + 1) -> Seq(Bytes)]
  BY <1>3
<1>5. \A i \in 1..(n + 1) : qs[i] = ps[i + 1] /\ es[i] = ds[i + 1]
  BY <1>2
<1> HIDE DEF qs, es
<1>6. RunOver(u, qs, es)
  <2>1. es[Len(u) + 1] = <<>>
    <3>1. n + 1 \in 1..(n + 1)
      BY <1>n
    <3> QED
      BY <1>1, <1>2, <1>5, <1>n, <3>1 DEF RunOver
  <2>2. ASSUME NEW i \in 1..Len(u)
        PROVE  qs[i + 1] = Telnet!Processed(qs[i], u[i])
               /\ es[i] = Telnet!DataOf(qs[i], u[i]) \o es[i + 1]
    <3>1. PICK j \in 1..Len(s) : j = i + 1 /\ u[i] = s[j]
      BY <1>2
    <3>2. i \in 1..(n + 1) /\ i + 1 \in 1..(n + 1)
      BY <1>2, <1>n
    <3>3. ps[j + 1] = Telnet!Processed(ps[j], s[j])
          /\ ds[j] = Telnet!DataOf(ps[j], s[j]) \o ds[j + 1]
      BY <1>1 DEF RunOver
    <3> QED
      BY <1>5, <3>1, <3>2, <3>3
  <2> QED
    BY <2>1, <2>2 DEF RunOver
<1>7. qs[1] = ps[2] /\ es[1] = ds[2] /\ qs[Len(u) + 1] = q
  <2>1. 1 \in 1..(n + 1) /\ n + 1 \in 1..(n + 1) /\ 1 + 1 = 2
    BY <1>n
  <2> QED
    BY <1>1, <1>2, <1>5, <1>n, <2>1
<1>8. ps[2] = Telnet!Processed(p, s[1]) /\ d = Telnet!DataOf(p, s[1]) \o ds[2]
  <2>1. 1 \in 1..Len(s) /\ 1 + 1 = 2
    BY <1>t
  <2> QED
    BY <1>1, <2>1 DEF RunOver
<1>9. ds[2] \in Seq(Bytes)
  <2>1. 2 \in 1..(Len(s) + 1)
    BY <1>t
  <2> QED
    BY <2>1
<1>10. Decodes(Telnet!Processed(p, s[1]), u, q, ds[2])
  BY <1>4, <1>6, <1>7, <1>8 DEF Decodes
<1> QED
  BY <1>8, <1>9, <1>10, <1>t, <1>u

(* Bytes that leave a machine between two commands alone: no data.         *)
IsSilent(s) == \A p \in Parsers : p.state = "data" =>
                 \E q \in Parsers : q.state = "data" /\ Decodes(p, s, q, <<>>)

(* An IAC that is sent twice arrives as data (telnet/stream.go:109-121).   *)
LEMMA DecodesPair ==
  ASSUME NEW p \in Parsers, p.state = "data"
  PROVE  Decodes(p, <<"IAC", "IAC">>, p, <<"IAC">>)
<1> DEFINE q == [p EXCEPT !.state = "iac"]
<1>i. "IAC" \in Bytes
  BY DEF Bytes
<1>1. q \in Parsers /\ q.state = "iac"
  BY DEF Parsers
<1>2. Telnet!Processed(p, "IAC") = q /\ Telnet!DataOf(p, "IAC") = <<>>
  BY DEF Telnet!Processed, Telnet!DataOf
<1>3. Telnet!Processed(q, "IAC") = [q EXCEPT !.state = "data"]
  BY <1>1 DEF Telnet!Processed
<1>4. [q EXCEPT !.state = "data"] = p
  BY DEF Parsers
<1>5. Telnet!DataOf(q, "IAC") = <<"IAC">>
  BY <1>1 DEF Telnet!DataOf
<1> HIDE DEF q
<1>6. Decodes(p, <<"IAC">>, q, <<>>) /\ Decodes(q, <<"IAC">>, p, <<"IAC">>)
  BY <1>i, <1>1, <1>2, <1>3, <1>4, <1>5, DecodesByte
<1>7. <<"IAC">> \in Seq(Bytes)
  BY <1>i
<1>8. Decodes(p, <<"IAC">> \o <<"IAC">>, p, <<>> \o <<"IAC">>)
  BY <1>6, <1>7, DecodesBoth
<1>9. <<"IAC">> \o <<"IAC">> = <<"IAC", "IAC">> /\ <<>> \o <<"IAC">> = <<"IAC">>
  BY <1>7, ConcatPair, ConcatNothing
<1> QED
  BY <1>8, <1>9

(* Two silent parts are silent together. *)
LEMMA SilentBoth ==
  ASSUME NEW s \in Seq(Bytes), NEW t \in Seq(Bytes), IsSilent(s), IsSilent(t)
  PROVE  IsSilent(s \o t)
<1> SUFFICES ASSUME NEW p \in Parsers, p.state = "data"
             PROVE  \E q \in Parsers : q.state = "data" /\ Decodes(p, s \o t, q, <<>>)
  BY DEF IsSilent
<1>1. PICK q \in Parsers : q.state = "data" /\ Decodes(p, s, q, <<>>)
  BY DEF IsSilent
<1>2. PICK r \in Parsers : r.state = "data" /\ Decodes(q, t, r, <<>>)
  BY <1>1 DEF IsSilent
<1>3. Decodes(p, s \o t, r, <<>> \o <<>>)
  BY <1>1, <1>2, DecodesBoth
<1>4. <<>> \o <<>> = <<>>
  OBVIOUS
<1> QED
  BY <1>2, <1>3, <1>4

(* Silent pieces are silent together. *)
LEMMA SilentPieces ==
  ASSUME NEW s \in Seq(Seq(Bytes)), \A i \in 1..Len(s) : IsSilent(s[i]), NEW n \in 0..Len(s)
  PROVE  IsSilent(Telnet!Joined(s, n))
<1>1. PICK f \in [0..Len(s) -> Seq(Bytes)] :
        PiecesPassed(s, f) /\ \A m \in 0..Len(s) : Telnet!Joined(s, m) = f[m]
  BY JoinedIs
<1> DEFINE T == {m \in Nat : m <= Len(s) => IsSilent(f[m])}
<1>2. 0 \in T
  <2>1. f[0] = <<>>
    BY <1>1 DEF PiecesPassed
  <2>2. IsSilent(<<>>)
    BY DecodesNothing DEF IsSilent
  <2> QED
    BY <2>1, <2>2
<1>3. ASSUME NEW m \in Nat, m \in T PROVE m + 1 \in T
  <2> SUFFICES ASSUME m + 1 <= Len(s) PROVE IsSilent(f[m + 1])
    OBVIOUS
  <2>1. PICK k \in 1..Len(s) : k = m + 1 /\ k - 1 = m
    OBVIOUS
  <2>2. m \in 0..Len(s) /\ m <= Len(s)
    OBVIOUS
  <2>3. f[k] = f[k - 1] \o s[k]
    BY <1>1 DEF PiecesPassed
  <2>4. f[m] \in Seq(Bytes) /\ s[k] \in Seq(Bytes) /\ IsSilent(s[k]) /\ IsSilent(f[m])
    <3>1. IsSilent(f[m])
      BY <1>3, <2>2
    <3>2. s[k] \in Seq(Bytes)
      OBVIOUS
    <3>3. f[m] \in Seq(Bytes)
      BY <2>2
    <3>4. IsSilent(s[k])
      OBVIOUS
    <3> QED
      BY <3>1, <3>2, <3>3, <3>4
  <2>5. IsSilent(f[m] \o s[k])
    BY <2>4, SilentBoth
  <2> QED
    BY <2>1, <2>3, <2>5
<1>4. Nat \subseteq T
  <2> HIDE DEF T
  <2> QED
    BY <1>2, <1>3, SetInduction
<1>5. n \in Nat /\ n <= Len(s)
  OBVIOUS
<1> QED
  BY <1>1, <1>4, <1>5

(* A command of two bytes (telnet/stream.go:164-176).                      *)
LEMMA SilentCommand ==
  ASSUME NEW c \in Bytes, c \notin Negotiations \cup {"SB", "IAC"}
  PROVE  IsSilent(<<"IAC", c>>)
<1> SUFFICES ASSUME NEW p \in Parsers, p.state = "data"
             PROVE  \E q \in Parsers : q.state = "data" /\ Decodes(p, <<"IAC", c>>, q, <<>>)
  BY DEF IsSilent
<1> DEFINE q == [p EXCEPT !.state = "iac"]
           r == [q EXCEPT !.state = "data"]
<1>i. "IAC" \in Bytes
  BY DEF Bytes
<1>1. q \in Parsers /\ q.state = "iac" /\ r \in Parsers /\ r.state = "data"
  BY DEF Parsers
<1>2. Telnet!Processed(p, "IAC") = q /\ Telnet!DataOf(p, "IAC") = <<>>
  BY DEF Telnet!Processed, Telnet!DataOf
<1>3. Telnet!Processed(q, c) = r /\ Telnet!DataOf(q, c) = <<>>
  BY <1>1 DEF Telnet!Processed, Telnet!DataOf, Negotiations
<1> HIDE DEF q, r
<1>4. Decodes(p, <<"IAC">>, q, <<>>) /\ Decodes(q, <<c>>, r, <<>>)
  BY <1>i, <1>1, <1>2, <1>3, DecodesByte
<1>5. <<"IAC">> \in Seq(Bytes) /\ <<c>> \in Seq(Bytes) /\ <<>> \o <<>> = <<>>
  BY <1>i
<1>6. Decodes(p, <<"IAC">> \o <<c>>, r, <<>> \o <<>>)
  BY <1>4, <1>5, DecodesBoth
<1> QED
  BY <1>1, <1>5, <1>6, ConcatPair

(* A request and an answer of a negotiation (telnet/stream.go:164-183).    *)
LEMMA SilentNegotiation ==
  ASSUME NEW c \in Negotiations, NEW o \in Bytes
  PROVE  IsSilent(<<"IAC", c, o>>)
<1> SUFFICES ASSUME NEW p \in Parsers, p.state = "data"
             PROVE  \E q \in Parsers : q.state = "data" /\ Decodes(p, <<"IAC", c, o>>, q, <<>>)
  BY DEF IsSilent
<1> DEFINE q == [p EXCEPT !.state = "iac"]
           r == [q EXCEPT !.state = "negotiation", !.command = c]
           w == [r EXCEPT !.state = "data"]
<1>i. "IAC" \in Bytes /\ c \in Bytes /\ c # "IAC"
  BY DEF Bytes, Negotiations
<1>1. /\ q \in Parsers /\ q.state = "iac" /\ r \in Parsers /\ r.state = "negotiation"
      /\ w \in Parsers /\ w.state = "data"
  BY <1>i DEF Parsers
<1>2. Telnet!Processed(p, "IAC") = q /\ Telnet!DataOf(p, "IAC") = <<>>
  BY DEF Telnet!Processed, Telnet!DataOf
<1>3. Telnet!Processed(q, c) = r /\ Telnet!DataOf(q, c) = <<>>
  BY <1>i, <1>1 DEF Telnet!Processed, Telnet!DataOf, Negotiations
<1>4. Telnet!Processed(r, o) = w /\ Telnet!DataOf(r, o) = <<>>
  BY <1>1 DEF Telnet!Processed, Telnet!DataOf
<1> HIDE DEF q, r, w
<1>5. /\ Decodes(p, <<"IAC">>, q, <<>>) /\ Decodes(q, <<c>>, r, <<>>)
      /\ Decodes(r, <<o>>, w, <<>>)
  BY <1>i, <1>1, <1>2, <1>3, <1>4, DecodesByte
<1>6. /\ <<"IAC">> \in Seq(Bytes) /\ <<c>> \in Seq(Bytes) /\ <<o>> \in Seq(Bytes)
      /\ <<"IAC", c>> \in Seq(Bytes) /\ <<>> \o <<>> = <<>>
  BY <1>i
<1>7. Decodes(p, <<"IAC", c>>, r, <<>>)
  <2>1. Decodes(p, <<"IAC">> \o <<c>>, r, <<>> \o <<>>)
    BY <1>5, <1>6, DecodesBoth
  <2> QED
    BY <1>6, <2>1, ConcatPair
<1>8. Decodes(p, <<"IAC", c>> \o <<o>>, w, <<>> \o <<>>)
  BY <1>5, <1>6, <1>7, DecodesBoth
<1> QED
  BY <1>1, <1>6, <1>8, ConcatTriple

(* The pieces that stand for the bytes of x (telnet/stream.go:109-121).    *)
Doubled(x) == [i \in 1..Len(x) |-> IF x[i] = "IAC" THEN <<"IAC", "IAC">> ELSE <<x[i]>>]

(* Escaped bytes are the pieces, put together.                             *)
LEMMA EscapedIs ==
  ASSUME NEW x \in Seq(Bytes)
  PROVE  \E f \in [0..Len(x) -> Seq(Bytes)] :
           /\ f[0] = <<>> /\ Telnet!Escaped(x) = f[Len(x)] /\ f[Len(x)] \in Seq(Bytes)
           /\ \A n \in 1..Len(x) :
                f[n] = f[n - 1] \o (IF x[n] = "IAC" THEN <<"IAC", "IAC">> ELSE <<x[n]>>)
<1>n. Len(x) \in Nat /\ \A i \in 1..Len(x) : x[i] \in Bytes
  OBVIOUS
<1>i. <<"IAC", "IAC">> \in Seq(Bytes)
  <2>1. "IAC" \in Bytes
    BY DEF Bytes
  <2> QED
    BY <2>1
<1>1. PICK s \in Seq(Seq(Bytes)) : s = Doubled(x)
  <2>1. \A i \in 1..Len(x) :
          (IF x[i] = "IAC" THEN <<"IAC", "IAC">> ELSE <<x[i]>>) \in Seq(Bytes)
    <3>1. ASSUME NEW i \in 1..Len(x) PROVE <<x[i]>> \in Seq(Bytes)
      BY <1>n
    <3> QED
      BY <1>i, <3>1
  <2>2. Doubled(x) \in [1..Len(x) -> Seq(Bytes)]
    <3> DEFINE S == Seq(Bytes)
    <3> HIDE DEF S
    <3>1. Doubled(x) \in [1..Len(x) -> S]
      BY <2>1 DEF Doubled, S
    <3> QED
      BY <3>1 DEF S
  <2>3. Doubled(x) \in Seq(Seq(Bytes))
    BY <1>n, <2>2
  <2> QED
    BY <2>3
<1>2. DOMAIN s = 1..Len(x) /\ DOMAIN s = 1..Len(s) /\ Len(s) \in Nat
  BY <1>1 DEF Doubled
<1>3. Len(s) = Len(x)
  BY <1>1, <1>n DEF Doubled
<1>4. PICK f \in [0..Len(s) -> Seq(Bytes)] :
        PiecesPassed(s, f) /\ \A n \in 0..Len(s) : Telnet!Joined(s, n) = f[n]
  BY JoinedIs
<1>5. Telnet!Escaped(x) = f[Len(x)] /\ f[Len(x)] \in Seq(Bytes)
  <2>1. Len(x) \in 0..Len(s)
    BY <1>n, <1>3
  <2>2. Telnet!Escaped(x) = Telnet!Joined(s, Len(x))
    BY <1>1 DEF Telnet!Escaped, Doubled
  <2>3. f[Len(x)] \in Seq(Bytes)
    BY <2>1
  <2> QED
    BY <1>4, <2>1, <2>2, <2>3
<1>6. \A n \in 1..Len(x) : s[n] = IF x[n] = "IAC" THEN <<"IAC", "IAC">> ELSE <<x[n]>>
  BY <1>1 DEF Doubled
<1>7. f[0] = <<>> /\ \A n \in 1..Len(x) : f[n] = f[n - 1] \o s[n]
  BY <1>3, <1>4 DEF PiecesPassed
<1>8. f \in [0..Len(x) -> Seq(Bytes)]
  BY <1>3
<1> QED
  BY <1>5, <1>6, <1>7, <1>8

(* What is escaped arrives as it was (telnet/stream.go:109-121, 152-205).  *)
LEMMA EscapedArrives ==
  ASSUME NEW x \in Seq(Bytes), NEW p \in Parsers, p.state = "data"
  PROVE  Decodes(p, Telnet!Escaped(x), p, x)
<1>1. PICK f \in [0..Len(x) -> Seq(Bytes)] :
        /\ f[0] = <<>> /\ Telnet!Escaped(x) = f[Len(x)] /\ f[Len(x)] \in Seq(Bytes)
        /\ \A n \in 1..Len(x) :
             f[n] = f[n - 1] \o (IF x[n] = "IAC" THEN <<"IAC", "IAC">> ELSE <<x[n]>>)
  BY EscapedIs
<1>n. Len(x) \in Nat /\ \A i \in 1..Len(x) : x[i] \in Bytes
  OBVIOUS
<1> DEFINE T == {m \in Nat : m <= Len(x) => Decodes(p, f[m], p, SubSeq(x, 1, m))}
<1>2. 0 \in T
  <2>1. SubSeq(x, 1, 0) = <<>>
    OBVIOUS
  <2>2. Decodes(p, f[0], p, SubSeq(x, 1, 0))
    BY <1>1, <2>1, DecodesNothing, ZenonT(40)
  <2> QED
    BY <2>2
<1>3. ASSUME NEW m \in Nat, m \in T PROVE m + 1 \in T
  <2> SUFFICES ASSUME m + 1 <= Len(x) PROVE Decodes(p, f[m + 1], p, SubSeq(x, 1, m + 1))
    OBVIOUS
  <2>1. PICK k \in 1..Len(x) : k = m + 1 /\ k - 1 = m
    BY <1>n
  <2>2. m \in 0..Len(x) /\ m <= Len(x)
    BY <1>n
  <2>3. Decodes(p, f[m], p, SubSeq(x, 1, m)) /\ f[m] \in Seq(Bytes)
    BY <1>3, <2>2
  <2> DEFINE piece == IF x[k] = "IAC" THEN <<"IAC", "IAC">> ELSE <<x[k]>>
  <2>4. f[k] = f[m] \o piece
    BY <1>1, <2>1
  <2>5. x[k] \in Bytes
    BY <1>n
  <2>6. piece \in Seq(Bytes)
    BY <2>5
  <2>7. Decodes(p, piece, p, <<x[k]>>)
    <3>1. CASE x[k] = "IAC"
      BY <3>1, DecodesPair
    <3>2. CASE x[k] # "IAC"
      <4>1. Telnet!Processed(p, x[k]) = p /\ Telnet!DataOf(p, x[k]) = <<x[k]>>
        BY <3>2 DEF Telnet!Processed, Telnet!DataOf
      <4> QED
        BY <2>5, <3>2, <4>1, DecodesByte
    <3> QED
      BY <3>1, <3>2
  <2> HIDE DEF piece
  <2>8. Decodes(p, f[m] \o piece, p, SubSeq(x, 1, m) \o <<x[k]>>)
    BY <2>3, <2>6, <2>7, DecodesBoth
  <2>9. SubSeq(x, 1, k) = SubSeq(x, 1, m) \o <<x[k]>>
    <3>1. SubSeq(x, 1, k) = Append(SubSeq(x, 1, m), x[k])
      BY <2>1, <1>n
    <3>2. SubSeq(x, 1, m) \in Seq(Bytes)
      BY <2>2
    <3> QED
      BY <2>5, <3>1, <3>2
  <2> QED
    BY <2>1, <2>4, <2>8, <2>9
<1>4. Nat \subseteq T
  <2> HIDE DEF T
  <2> QED
    BY <1>2, <1>3, SetInduction
<1>5. Decodes(p, f[Len(x)], p, SubSeq(x, 1, Len(x)))
  BY <1>4, <1>n
<1>6. SubSeq(x, 1, Len(x)) = x
  OBVIOUS
<1> QED
  BY <1>1, <1>5, <1>6

(* Inside of a subnegotiation nothing is data (telnet/stream.go:177-198).  *)
LEMMA EscapedInside ==
  ASSUME NEW x \in Seq(Bytes), NEW p \in Parsers, p.state = "subData"
  PROVE  \E q \in Parsers : q.state = "subData" /\ Decodes(p, Telnet!Escaped(x), q, <<>>)
<1>1. PICK f \in [0..Len(x) -> Seq(Bytes)] :
        /\ f[0] = <<>> /\ Telnet!Escaped(x) = f[Len(x)] /\ f[Len(x)] \in Seq(Bytes)
        /\ \A n \in 1..Len(x) :
             f[n] = f[n - 1] \o (IF x[n] = "IAC" THEN <<"IAC", "IAC">> ELSE <<x[n]>>)
  BY EscapedIs
<1>n. Len(x) \in Nat /\ \A i \in 1..Len(x) : x[i] \in Bytes
  OBVIOUS
<1> DEFINE Inside(s) == \E q \in Parsers : q.state = "subData" /\ Decodes(p, s, q, <<>>)
           T == {m \in Nat : m <= Len(x) => Inside(f[m])}
<1>2. 0 \in T
  <2>1. Inside(f[0])
    BY <1>1, DecodesNothing
  <2> QED
    BY <2>1
<1>3. ASSUME NEW m \in Nat, m \in T PROVE m + 1 \in T
  <2> SUFFICES ASSUME m + 1 <= Len(x) PROVE Inside(f[m + 1])
    OBVIOUS
  <2>1. PICK k \in 1..Len(x) : k = m + 1 /\ k - 1 = m
    BY <1>n
  <2>2. m \in 0..Len(x) /\ m <= Len(x)
    BY <1>n
  <2>3. Inside(f[m]) /\ f[m] \in Seq(Bytes)
    BY <1>3, <2>2
  <2>4. PICK q \in Parsers : q.state = "subData" /\ Decodes(p, f[m], q, <<>>)
    BY <2>3
  <2> DEFINE piece == IF x[k] = "IAC" THEN <<"IAC", "IAC">> ELSE <<x[k]>>
  <2>5. f[k] = f[m] \o piece
    BY <1>1, <2>1
  <2>6. x[k] \in Bytes /\ "IAC" \in Bytes
    BY <1>n DEF Bytes
  <2>7. piece \in Seq(Bytes)
    BY <2>6
  <2>8. \E r \in Parsers : r.state = "subData" /\ Decodes(q, piece, r, <<>>)
    <3>1. CASE x[k] = "IAC"
      <4> DEFINE r == [q EXCEPT !.state = "subIAC"]
                 w == [r EXCEPT !.state = "subData", !.data = Append(@, "IAC")]
      <4>1. r \in Parsers /\ r.state = "subIAC"
        BY DEF Parsers
      <4>2. w \in Parsers /\ w.state = "subData"
        <5>1. r.data \in Seq(Bytes)
          BY <4>1 DEF Parsers
        <5>2. Append(r.data, "IAC") \in Seq(Bytes)
          BY <2>6, <5>1
        <5> HIDE DEF r
        <5> QED
          BY <4>1, <5>2 DEF Parsers
      <4>3. Telnet!Processed(q, "IAC") = r /\ Telnet!DataOf(q, "IAC") = <<>>
        BY <2>4 DEF Telnet!Processed, Telnet!DataOf
      <4>4. Telnet!Processed(r, "IAC") = w /\ Telnet!DataOf(r, "IAC") = <<>>
        BY <4>1 DEF Telnet!Processed, Telnet!DataOf
      <4> HIDE DEF r, w
      <4>5. Decodes(q, <<"IAC">>, r, <<>>) /\ Decodes(r, <<"IAC">>, w, <<>>)
        BY <2>6, <4>1, <4>3, <4>4, DecodesByte
      <4>6. <<"IAC">> \in Seq(Bytes) /\ <<>> \o <<>> = <<>>
        BY <2>6
      <4>7. Decodes(q, <<"IAC">> \o <<"IAC">>, w, <<>> \o <<>>)
        BY <4>5, <4>6, DecodesBoth
      <4> QED
        BY <3>1, <4>2, <4>6, <4>7, ConcatPair
    <3>2. CASE x[k] # "IAC"
      <4> DEFINE r == [q EXCEPT !.data = Append(@, x[k])]
      <4>1. r \in Parsers /\ r.state = "subData"
        <5>1. q.data \in Seq(Bytes)
          BY DEF Parsers
        <5>2. Append(q.data, x[k]) \in Seq(Bytes)
          BY <2>6, <5>1
        <5> QED
          BY <2>4, <5>2 DEF Parsers
      <4>2. Telnet!Processed(q, x[k]) = r /\ Telnet!DataOf(q, x[k]) = <<>>
        BY <2>4, <3>2 DEF Telnet!Processed, Telnet!DataOf
      <4> HIDE DEF r
      <4> QED
        BY <2>6, <3>2, <4>1, <4>2, DecodesByte
    <3> QED
      BY <3>1, <3>2
  <2>9. PICK r \in Parsers : r.state = "subData" /\ Decodes(q, piece, r, <<>>)
    BY <2>8
  <2> HIDE DEF piece
  <2>10. Decodes(p, f[m] \o piece, r, <<>> \o <<>>)
    BY <2>3, <2>4, <2>7, <2>9, DecodesBoth
  <2>11. <<>> \o <<>> = <<>>
    OBVIOUS
  <2> QED
    BY <2>1, <2>5, <2>9, <2>10, <2>11
<1>4. Nat \subseteq T
  <2> HIDE DEF T
  <2> QED
    BY <1>2, <1>3, SetInduction
<1>5. Inside(f[Len(x)])
  <2> HIDE DEF Inside
  <2> QED
    BY <1>4, <1>n
<1> QED
  BY <1>1, <1>5

(* A subnegotiation carries no data, and ends where it says                *)
(* (telnet/stream.go:256-273, 283-293).                                    *)
LEMMA SilentSubnegotiation ==
  ASSUME NEW o \in Bytes, NEW x \in Seq(Bytes)
  PROVE  IsSilent(Telnet!Subnegotiation(o, x)) /\ Telnet!Subnegotiation(o, x) \in Seq(Bytes)
<1>b. {"IAC", "SB", "SE"} \subseteq Bytes
  BY DEF Bytes
<1>e. Telnet!Escaped(x) \in Seq(Bytes)
  BY EscapedIs
<1>q. PICK head \in Seq(Bytes), tail \in Seq(Bytes), inside \in Seq(Bytes) :
        head = <<"IAC", "SB", o>> /\ tail = <<"IAC", "SE">> /\ inside = Telnet!Escaped(x)
  <2>1. <<"IAC", "SB", o>> \in Seq(Bytes) /\ <<"IAC", "SE">> \in Seq(Bytes)
    BY <1>b
  <2> QED
    BY <1>e, <2>1
<1>s. Telnet!Subnegotiation(o, x) = (head \o inside) \o tail
  BY <1>q DEF Telnet!Subnegotiation
<1>t. head \o inside \in Seq(Bytes) /\ (head \o inside) \o tail \in Seq(Bytes)
  OBVIOUS
<1>n. <<>> \o <<>> = <<>>
  OBVIOUS
<1>1. ASSUME NEW p \in Parsers, p.state = "data"
      PROVE  \E q \in Parsers : q.state = "data" /\ Decodes(p, (head \o inside) \o tail, q, <<>>)
  <2> DEFINE q == [p EXCEPT !.state = "iac"]
             r == [q EXCEPT !.state = "subOption"]
             w == [r EXCEPT !.state = "subData", !.option = o, !.data = <<>>]
  <2>1. /\ q \in Parsers /\ q.state = "iac" /\ r \in Parsers /\ r.state = "subOption"
        /\ w \in Parsers /\ w.state = "subData"
    <3>1. q \in Parsers /\ q.state = "iac"
      BY <1>b DEF Parsers
    <3> HIDE DEF q
    <3>2. r \in Parsers /\ r.state = "subOption"
      BY <1>b, <3>1 DEF Parsers
    <3> HIDE DEF r
    <3>3. <<>> \in Seq(Bytes)
      OBVIOUS
    <3>4. w \in Parsers /\ w.state = "subData"
      BY <3>2, <3>3 DEF Parsers
    <3> QED
      BY <3>1, <3>2, <3>4
  <2>2. Telnet!Processed(p, "IAC") = q /\ Telnet!DataOf(p, "IAC") = <<>>
    BY <1>1 DEF Telnet!Processed, Telnet!DataOf
  <2>3. Telnet!Processed(q, "SB") = r /\ Telnet!DataOf(q, "SB") = <<>>
    BY <2>1 DEF Telnet!Processed, Telnet!DataOf
  <2>4. Telnet!Processed(r, o) = w /\ Telnet!DataOf(r, o) = <<>>
    BY <2>1 DEF Telnet!Processed, Telnet!DataOf
  <2> HIDE DEF q, r, w
  <2>5. /\ Decodes(p, <<"IAC">>, q, <<>>) /\ Decodes(q, <<"SB">>, r, <<>>)
        /\ Decodes(r, <<o>>, w, <<>>)
    BY <1>1, <1>b, <2>1, <2>2, <2>3, <2>4, DecodesByte
  <2>6. /\ <<"IAC">> \in Seq(Bytes) /\ <<"SB">> \in Seq(Bytes) /\ <<o>> \in Seq(Bytes)
        /\ <<"IAC", "SB">> \in Seq(Bytes) /\ <<"SE">> \in Seq(Bytes)
    BY <1>b
  <2>7. Decodes(p, <<"IAC", "SB">>, r, <<>>)
    <3>1. Decodes(p, <<"IAC">> \o <<"SB">>, r, <<>> \o <<>>)
      BY <2>5, <2>6, DecodesBoth
    <3> QED
      BY <1>n, <3>1, ConcatPair
  <2>8. Decodes(p, head, w, <<>>)
    <3>1. Decodes(p, <<"IAC", "SB">> \o <<o>>, w, <<>> \o <<>>)
      BY <2>5, <2>6, <2>7, DecodesBoth
    <3> QED
      BY <1>n, <1>q, <3>1, ConcatTriple
  <2>9. PICK y \in Parsers : y.state = "subData" /\ Decodes(w, inside, y, <<>>)
    BY <1>q, <2>1, EscapedInside
  <2>10. Decodes(p, head \o inside, y, <<>>)
    BY <1>n, <2>8, <2>9, DecodesBoth
  <2> DEFINE u == [y EXCEPT !.state = "subIAC"]
             v == [u EXCEPT !.state = "data"]
  <2>11. u \in Parsers /\ u.state = "subIAC" /\ v \in Parsers /\ v.state = "data"
    BY DEF Parsers
  <2>12. Telnet!Processed(y, "IAC") = u /\ Telnet!DataOf(y, "IAC") = <<>>
    BY <2>9 DEF Telnet!Processed, Telnet!DataOf
  <2>13. Telnet!Processed(u, "SE") = v /\ Telnet!DataOf(u, "SE") = <<>>
    BY <2>11 DEF Telnet!Processed, Telnet!DataOf
  <2> HIDE DEF u, v
  <2>14. Decodes(y, <<"IAC">>, u, <<>>) /\ Decodes(u, <<"SE">>, v, <<>>)
    BY <1>b, <2>9, <2>11, <2>12, <2>13, DecodesByte
  <2>15. Decodes(y, tail, v, <<>>)
    <3>1. Decodes(y, <<"IAC">> \o <<"SE">>, v, <<>> \o <<>>)
      BY <2>6, <2>14, DecodesBoth
    <3> QED
      BY <1>n, <1>q, <3>1, ConcatPair
  <2>16. Decodes(p, (head \o inside) \o tail, v, <<>>)
    BY <1>n, <1>t, <2>10, <2>15, DecodesBoth
  <2> QED
    BY <2>11, <2>16
<1> QED
  BY <1>1, <1>s, <1>t DEF IsSilent

----------------------------------------------------------------------------
(* The state of a session over Telnet. *)
Silent == {s \in Seq(Bytes) : IsSilent(s)}
Commands == {Telnet!Answer(c, o) : c \in Negotiations, o \in Bytes}
Payloads == {Telnet!Payload(s) : s \in Silent}

Replies == {<<>>, <<Telnet!AskSize>>, <<Telnet!Answer("WILL", "NAWS"), Telnet!AskSize>>}
             \cup {<<m>> : m \in Commands \cup Payloads}
ResizerType == {<<>>, <<Telnet!AskSize>>} \cup {<<m>> : m \in Payloads}

PlanType == [greeting : Seq(Seq(Bytes)), typed : Seq(Seq(Bytes)), shown : Seq(Seq(Bytes)),
             resizes : Seq(Seq(Bytes)), closers : SUBSET {"client", "host"}]
WireType == [client : Seq(Bytes), host : Seq(Bytes)]
ClientType == [parser : Parsers, pending : Seq(Bytes), end : {"none", "pending", "returned"},
               local : SUBSET Bytes, remote : SUBSET Bytes, size : Seq(Bytes)]
HostType == [parser : Parsers, resizes : Seq(Seq(Bytes)), forwarding : {"idle", "take", "put"},
             size : Seq(Bytes), applied : Seq(Bytes)]
Answers == {<<c, o>> : c \in Negotiations, o \in Bytes}
LogType == [typed : Nat, shown : Nat, resized : Nat, received : Seq(Bytes), read : Seq(Bytes),
            answers : Seq(Answers), failed : BOOLEAN]

TelnetTypes ==
  /\ plan \in PlanType /\ wire \in WireType /\ open \subseteq {"client", "host"}
  /\ client \in ClientType /\ reader \in Replies /\ resizer \in ResizerType
  /\ host \in HostType /\ log \in LogType
  /\ log.typed <= Len(plan.typed) /\ log.shown <= Len(plan.shown)

(* A negotiation has a command (telnet/stream.go:163-175).                 *)
CommandKnown ==
  client.parser.state = "negotiation" => client.parser.command \in Negotiations

(* What is on the wire ends outside of a command, with d as its data. *)
OnWire(p, s, d) == \E q \in Parsers : q.state = "data" /\ Decodes(p, s, q, d)

(* What the host has shown is received, or on its way. *)
ShownArrives ==
  /\ "client" \in open =>
       \E d \in Seq(Bytes) :
         /\ OnWire(client.parser, wire.client, d)
         /\ (log.received \o client.pending) \o d = Telnet!Sent(plan.shown, log.shown)
  /\ "client" \notin open =>
       \E d \in Seq(Bytes) :
         (log.received \o client.pending) \o d = Telnet!Sent(plan.shown, log.shown)

(* What the client has typed is read, or on its way. *)
TypedArrives ==
  \E d \in Seq(Bytes) :
    /\ OnWire(host.parser, wire.host, d)
    /\ log.read \o d = Telnet!Sent(plan.typed, log.typed)

(* A reader is at the end when nothing is left to be read. *)
EndHolds ==
  /\ client.end # "none" /\ "client" \in open /\ ~log.failed
       => "host" \notin open /\ wire.client = <<>>
  /\ client.end = "returned" => client.pending = <<>>

(* Nothing on the wire, and nothing more to come. *)
LEMMA OnWireNothing ==
  ASSUME NEW p \in Parsers
  PROVE  /\ p.state = "data" => OnWire(p, <<>>, <<>>)
         /\ \A d : OnWire(p, <<>>, d) => d = <<>>
BY DecodesNothing DEF OnWire

(* A command is put on the wire. *)
LEMMA OnWireSilent ==
  ASSUME NEW p \in Parsers, NEW s \in Seq(Bytes), NEW d \in Seq(Bytes), OnWire(p, s, d),
         NEW t \in Silent
  PROVE  OnWire(p, s \o t, d)
<1>1. PICK q \in Parsers : q.state = "data" /\ Decodes(p, s, q, d)
  BY DEF OnWire
<1>2. PICK r \in Parsers : r.state = "data" /\ Decodes(q, t, r, <<>>)
  BY <1>1 DEF Silent, IsSilent
<1>3. t \in Seq(Bytes)
  BY DEF Silent
<1>4. Decodes(p, s \o t, r, d \o <<>>)
  BY <1>1, <1>2, <1>3, DecodesBoth
<1>5. d \o <<>> = d
  BY ConcatNothing
<1> QED
  BY <1>2, <1>4, <1>5 DEF OnWire

(* A write is put on the wire. *)
LEMMA OnWireWrite ==
  ASSUME NEW p \in Parsers, NEW s \in Seq(Bytes), NEW d, OnWire(p, s, d), NEW x \in Seq(Bytes)
  PROVE  OnWire(p, s \o Telnet!Escaped(x), d \o x) /\ Telnet!Escaped(x) \in Seq(Bytes)
<1>1. PICK q \in Parsers : q.state = "data" /\ Decodes(p, s, q, d)
  BY DEF OnWire
<1>2. Decodes(q, Telnet!Escaped(x), q, x)
  BY <1>1, EscapedArrives
<1>3. Telnet!Escaped(x) \in Seq(Bytes)
  BY EscapedIs
<1>4. Decodes(p, s \o Telnet!Escaped(x), q, d \o x)
  BY <1>1, <1>2, <1>3, DecodesBoth
<1> QED
  BY <1>1, <1>3, <1>4 DEF OnWire

(* A byte is taken from the wire. *)
LEMMA OnWireRest ==
  ASSUME NEW p \in Parsers, NEW s \in Seq(Bytes), s # <<>>, NEW d, OnWire(p, s, d)
  PROVE  /\ Head(s) \in Bytes /\ Tail(s) \in Seq(Bytes)
         /\ Telnet!Processed(p, Head(s)) \in Parsers
         /\ Telnet!DataOf(p, Head(s)) \in Seq(Bytes)
         /\ \E e \in Seq(Bytes) : /\ d = Telnet!DataOf(p, Head(s)) \o e
                                  /\ OnWire(Telnet!Processed(p, Head(s)), Tail(s), e)
<1>1. PICK q \in Parsers : q.state = "data" /\ Decodes(p, s, q, d)
  BY DEF OnWire
<1>2. Head(s) \in Bytes /\ Tail(s) \in Seq(Bytes)
  BY Taken
<1>3. Telnet!Processed(p, Head(s)) \in Parsers /\ Telnet!DataOf(p, Head(s)) \in Seq(Bytes)
  BY <1>2, ByteTyped
<1>4. PICK e \in Seq(Bytes) : /\ d = Telnet!DataOf(p, Head(s)) \o e
                              /\ Decodes(Telnet!Processed(p, Head(s)), Tail(s), q, e)
  BY <1>1, DecodesRest
<1> QED
  BY <1>1, <1>2, <1>3, <1>4 DEF OnWire

(* What was sent so far, and with the next write. *)
LEMMA SentMore ==
  ASSUME NEW w \in Seq(Seq(Bytes)), NEW n \in Nat, n <= Len(w)
  PROVE  /\ Telnet!Sent(w, n) \in Seq(Bytes) /\ Telnet!Sent(w, 0) = <<>>
         /\ n < Len(w) => /\ Telnet!Sent(w, n + 1) = Telnet!Sent(w, n) \o w[n + 1]
                          /\ w[n + 1] \in Seq(Bytes)
<1>1. PICK f \in [0..Len(w) -> Seq(Bytes)] :
        PiecesPassed(w, f) /\ \A m \in 0..Len(w) : Telnet!Joined(w, m) = f[m]
  BY JoinedIs
<1>2. Len(w) \in Nat /\ n \in 0..Len(w) /\ 0 \in 0..Len(w)
  OBVIOUS
<1>3. Telnet!Sent(w, n) \in Seq(Bytes) /\ Telnet!Sent(w, 0) = <<>>
  BY <1>1, <1>2 DEF PiecesPassed, Telnet!Sent
<1>4. ASSUME n < Len(w)
      PROVE  /\ Telnet!Sent(w, n + 1) = Telnet!Sent(w, n) \o w[n + 1]
             /\ w[n + 1] \in Seq(Bytes)
  <2>1. PICK m \in 1..Len(w) : m = n + 1 /\ m - 1 = n /\ m \in 0..Len(w)
    BY <1>2, <1>4
  <2>w. w[m] \in Seq(Bytes)
    BY <2>1
  <2>2. f[m] = f[n] \o w[m]
    <3>1. f[m] = f[m - 1] \o w[m]
      BY <1>1, <2>1 DEF PiecesPassed
    <3> QED
      BY <2>1, <3>1
  <2>3. Telnet!Joined(w, m) = f[m] /\ Telnet!Joined(w, n) = f[n]
    BY <1>1, <1>2, <2>1
  <2> QED
    BY <2>1, <2>2, <2>3, <2>w DEF Telnet!Sent
<1> QED
  BY <1>3, <1>4

(* A sequence of some things is one of more things. *)
LEMMA SeqOfMore == ASSUME NEW S, NEW T, S \subseteq T PROVE Seq(S) \subseteq Seq(T)
OBVIOUS

(* A command of two or of three bytes. *)
LEMMA ShortSequence ==
  ASSUME NEW s \in Seq(Bytes)
  PROVE  /\ Len(s) = 2 => s = <<s[1], s[2]>> /\ s[2] \in Bytes
         /\ Len(s) = 3 => s = <<s[1], s[2], s[3]>> /\ s[2] \in Bytes /\ s[3] \in Bytes
<1>d. \A i \in 1..Len(s) : s[i] \in Bytes
  OBVIOUS
<1>p. \A a, b, c \in Bytes : <<a, b>> \in Seq(Bytes) /\ <<a, b, c>> \in Seq(Bytes)
  OBVIOUS
<1>1. ASSUME Len(s) = 2 PROVE s = <<s[1], s[2]>> /\ s[2] \in Bytes
  <2>1. s[1] \in Bytes /\ s[2] \in Bytes
    BY <1>1, <1>d
  <2>2. PICK t \in Seq(Bytes) : t = <<s[1], s[2]>>
    BY <2>1, <1>p
  <2>3. Len(t) = 2 /\ t[1] = s[1] /\ t[2] = s[2]
    BY <2>2
  <2>4. s = t
    <3>1. Len(s) = Len(t) /\ \A i \in 1..Len(s) : s[i] = t[i]
      BY <1>1, <2>3
    <3> QED
      BY <3>1, SeqEqual
  <2> QED
    BY <2>1, <2>2, <2>4
<1>2. ASSUME Len(s) = 3 PROVE s = <<s[1], s[2], s[3]>> /\ s[2] \in Bytes /\ s[3] \in Bytes
  <2>1. s[1] \in Bytes /\ s[2] \in Bytes /\ s[3] \in Bytes
    BY <1>2, <1>d
  <2>2. PICK t \in Seq(Bytes) : t = <<s[1], s[2], s[3]>>
    BY <2>1, <1>p
  <2>3. Len(t) = 3 /\ t[1] = s[1] /\ t[2] = s[2] /\ t[3] = s[3]
    BY <2>2
  <2>4. s = t
    <3>1. Len(s) = Len(t) /\ \A i \in 1..Len(s) : s[i] = t[i]
      BY <1>2, <2>3
    <3> QED
      BY <3>1, SeqEqual
  <2> QED
    BY <2>1, <2>2, <2>4
<1> QED
  BY <1>1, <1>2

(* A scenario starts with commands only. *)
LEMMA ScenarioTyped ==
  ASSUME NEW p \in Scenarios
  PROVE  /\ p \in PlanType /\ OpenSize \in Seq(Bytes)
         /\ Telnet!Joined(p.greeting, Len(p.greeting)) \in Silent
<1>1. STRING \subseteq Bytes
  BY DEF Bytes
<1>2. Seq(STRING) \subseteq Seq(Bytes)
  BY <1>1, SeqOfMore
<1>3. Seq(Seq(STRING)) \subseteq Seq(Seq(Bytes))
  BY <1>2, SeqOfMore
<1>4. p \in [greeting : Seq(Seq(STRING)), typed : Seq(Seq(STRING)),
             shown : Seq(Seq(STRING)), resizes : Seq(Seq(STRING)),
             closers : SUBSET {"client", "host"}]
  BY TelnetAssumption
<1>5. p \in PlanType
  BY <1>3, <1>4 DEF PlanType
<1>6. PICK g \in Seq(Seq(Bytes)) : g = p.greeting
  BY <1>5 DEF PlanType
<1>7. ASSUME NEW i \in 1..Len(g) PROVE IsSilent(g[i])
  <2>1. i \in DOMAIN p.greeting
    BY <1>6
  <2>2. PICK command \in Seq(Bytes) : command = g[i]
    BY <1>7
  <2>3. /\ Len(command) \in {2, 3} /\ command[1] = "IAC"
        /\ Len(command) = 3 => command[2] \in Negotiations
        /\ Len(command) = 2 => command[2] \notin Negotiations \cup {"SB", "IAC"}
    BY <1>6, <2>1, <2>2, TelnetAssumption
  <2>4. CASE Len(command) = 2
    <3>1. command = <<"IAC", command[2]>> /\ command[2] \in Bytes
      BY <2>3, <2>4, ShortSequence
    <3>2. IsSilent(<<"IAC", command[2]>>)
      BY <2>3, <2>4, <3>1, SilentCommand
    <3> QED
      BY <2>2, <3>1, <3>2
  <2>5. CASE Len(command) = 3
    <3>1. command = <<"IAC", command[2], command[3]>> /\ command[3] \in Bytes
      BY <2>3, <2>5, ShortSequence
    <3>2. IsSilent(<<"IAC", command[2], command[3]>>)
      BY <2>3, <2>5, <3>1, SilentNegotiation
    <3> QED
      BY <2>2, <3>1, <3>2
  <2> QED
    BY <2>3, <2>4, <2>5
<1>8. Len(g) \in Nat /\ Len(g) \in 0..Len(g)
  OBVIOUS
<1>9. IsSilent(Telnet!Joined(g, Len(g))) /\ Telnet!Joined(g, Len(g)) \in Seq(Bytes)
  <2>1. IsSilent(Telnet!Joined(g, Len(g)))
    BY <1>7, <1>8, SilentPieces
  <2>2. Telnet!Sent(g, Len(g)) \in Seq(Bytes)
    BY <1>8, SentMore
  <2> QED
    BY <2>1, <2>2 DEF Telnet!Sent
<1> QED
  BY <1>2, <1>5, <1>6, <1>9, TelnetAssumption DEF Silent

(* Who the answer is about: an option of the client's or one of the host's. *)
Side(c) == IF c \in {"WILL", "WONT"} THEN "local" ELSE "remote"
Yes(c) == c \in {"WILL", "DO"}
Supports(side, o) ==
  IF side = "local" THEN Telnet!SupportsLocal(o) ELSE Telnet!SupportsRemote(o)
AnsweredBy(command) == IF command \in {"DO", "DONT"} THEN "local" ELSE "remote"

(* A request is answered when it changes something, and then with what is  *)
(* true afterwards (telnet/stream.go:207-254).                             *)
LEMMA NegotiatedIs ==
  ASSUME NEW c, NEW command \in Negotiations, NEW option \in Bytes, NEW on \in SUBSET Bytes,
         on = IF AnsweredBy(command) = "local" THEN c.local ELSE c.remote
  PROVE  LET r == Telnet!Negotiated(c, command, option) IN
         /\ r.on \in SUBSET Bytes /\ r.replies \in Replies
         /\ \/ r.replies = <<>> /\ r.on = on
            \/ \E a \in Negotiations :
                 /\ Side(a) = AnsweredBy(command)
                 /\ r.replies \in {<<Telnet!Answer(a, option)>>,
                                   <<Telnet!Answer(a, option), Telnet!AskSize>>}
                 /\ \A o \in Bytes : o # option => (o \in r.on <=> o \in on)
                 /\ Supports(Side(a), option)
                      => (Yes(a) <=> option \notin on) /\ (Yes(a) <=> option \in r.on)
<1> DEFINE r == Telnet!Negotiated(c, command, option)
           no == IF command \in {"DO", "DONT"} THEN "WONT" ELSE "DONT"
           yes == IF command = "DO" THEN "WILL" ELSE "DO"
           supported == Supports(AnsweredBy(command), option)
           replies == <<Telnet!Answer(yes, option)>>
                        \o (IF command = "DO" /\ option = "NAWS" THEN <<Telnet!AskSize>> ELSE <<>>)
<1>n. /\ no \in Negotiations /\ yes \in Negotiations /\ ~Yes(no) /\ Yes(yes)
      /\ Side(no) = AnsweredBy(command)
      /\ command \in {"DO", "WILL"} => Side(yes) = AnsweredBy(command)
  BY DEF Negotiations, Yes, Side, AnsweredBy
<1>m. <<Telnet!Answer(no, option)>> \in Replies
  BY <1>n DEF Replies, Commands
<1>r. /\ replies \in {<<Telnet!Answer(yes, option)>>,
                     <<Telnet!Answer(yes, option), Telnet!AskSize>>}
      /\ replies \in Replies
  <2>1. CASE command = "DO" /\ option = "NAWS"
    <3>1. replies = <<Telnet!Answer(yes, option)>> \o <<Telnet!AskSize>>
      BY <2>1
    <3>2. replies = <<Telnet!Answer(yes, option), Telnet!AskSize>>
      BY <3>1, ConcatPair
    <3>3. yes = "WILL" /\ option = "NAWS"
      BY <2>1
    <3> HIDE DEF replies
    <3> QED
      BY <3>2, <3>3 DEF Replies
  <2>2. CASE ~(command = "DO" /\ option = "NAWS")
    <3>1. PICK m : m = Telnet!Answer(yes, option)
      OBVIOUS
    <3>2. <<m>> \o <<>> = <<m>>
      <4>1. <<m>> \in Seq({m})
        OBVIOUS
      <4> QED
        BY <4>1, ConcatNothing
    <3>3. replies = <<Telnet!Answer(yes, option)>>
      BY <2>2, <3>1, <3>2
    <3>4. Telnet!Answer(yes, option) \in Commands
      BY <1>n DEF Commands
    <3> HIDE DEF replies
    <3> QED
      BY <3>3, <3>4 DEF Replies
  <2> QED
    BY <2>1, <2>2
<1>s. supported = IF command \in {"DO", "DONT"} THEN Telnet!SupportsLocal(option)
                  ELSE Telnet!SupportsRemote(option)
  BY DEF Supports, AnsweredBy
<1>c. on = IF command \in {"DO", "DONT"} THEN c.local ELSE c.remote
  BY DEF AnsweredBy
<1>0. <<>> \in Replies
  BY DEF Replies
<1>1. CASE command \in {"DO", "WILL"} /\ ~supported
  <2>1. r.on = on /\ r.replies = <<Telnet!Answer(no, option)>>
    BY <1>1, <1>s, <1>c DEF Telnet!Negotiated
  <2> HIDE DEF r, no
  <2> QED
    BY <1>1, <1>n, <1>m, <2>1 DEF r
<1>2. CASE command \in {"DO", "WILL"} /\ supported /\ option \notin on
  <2>1. r.on = on \cup {option} /\ r.replies = replies
    BY <1>2, <1>s, <1>c DEF Telnet!Negotiated, Telnet!Acknowledged, Negotiations
  <2> HIDE DEF r, yes, replies, supported
  <2> QED
    BY <1>2, <1>n, <1>r, <2>1 DEF r
<1>3. CASE command \in {"DO", "WILL"} /\ supported /\ option \in on
  <2>1. r.on = on \cup {option} /\ r.replies = <<>>
    BY <1>3, <1>s, <1>c DEF Telnet!Negotiated, Telnet!Acknowledged, Negotiations
  <2> HIDE DEF r
  <2> QED
    BY <1>3, <1>0, <2>1 DEF r
<1>4. CASE command \in {"DONT", "WONT"} /\ option \in on
  <2>1. r.on = on \ {option} /\ r.replies = <<Telnet!Answer(no, option)>>
    BY <1>4, <1>c DEF Telnet!Negotiated, Telnet!Acknowledged
  <2> HIDE DEF r, no
  <2> QED
    BY <1>4, <1>n, <1>m, <2>1 DEF r
<1>5. CASE command \in {"DONT", "WONT"} /\ option \notin on
  <2>1. r.on = on \ {option} /\ r.replies = <<>>
    <3>1. ~Telnet!Acknowledged(option, on, FALSE)
      <4>1. (option \in on) = FALSE
        BY <1>5
      <4> QED
        BY <4>1 DEF Telnet!Acknowledged
    <3> QED
      BY <1>5, <1>c, <3>1 DEF Telnet!Negotiated
  <2> HIDE DEF r
  <2> QED
    BY <1>5, <1>0, <2>1 DEF r
<1> QED
  BY <1>1, <1>2, <1>3, <1>4, <1>5 DEF Negotiations

(* An answer: three bytes, the first of which is not part of what it says. *)
LEMMA CommandBytes ==
  ASSUME NEW c \in Negotiations, NEW o \in Bytes
  PROVE  /\ Telnet!Answer(c, o).kind = "command" /\ Telnet!Answer(c, o).bytes \in Silent
         /\ Tail(Telnet!Answer(c, o).bytes) = <<c, o>> /\ <<c, o>> \in Answers
<1>1. c \in Bytes /\ "IAC" \in Bytes
  BY DEF Bytes, Negotiations
<1>2. PICK s \in Seq(Bytes) : s = <<"IAC", c, o>>
  <2>1. \A a, b, d \in Bytes : <<a, b, d>> \in Seq(Bytes)
    OBVIOUS
  <2> QED
    BY <1>1, <2>1
<1>3. Len(s) = 3 /\ s[2] = c /\ s[3] = o
  BY <1>2
<1>4. PICK t \in Seq(Bytes) : t = Tail(s) /\ Len(t) = 2 /\ t[1] = s[2] /\ t[2] = s[3]
  <2>1. s # <<>>
    BY <1>3
  <2>2. /\ Tail(s) \in Seq(Bytes) /\ Len(Tail(s)) = Len(s) - 1
        /\ \A i \in 1..(Len(s) - 1) : Tail(s)[i] = s[i + 1]
    BY <2>1, Taken
  <2>3. 1 \in 1..(Len(s) - 1) /\ 2 \in 1..(Len(s) - 1) /\ Len(s) - 1 = 2
    BY <1>3
  <2>4. PICK t \in Seq(Bytes) : t = Tail(s)
    BY <2>2
  <2>5. Len(t) = 2
    BY <2>2, <2>3, <2>4
  <2>6. t[1] = s[2] /\ t[2] = s[3]
    BY <2>2, <2>3, <2>4
  <2> QED
    BY <2>4, <2>5, <2>6
<1>5. t = <<c, o>>
  BY <1>3, <1>4, ShortSequence
<1>6. IsSilent(s)
  BY <1>2, SilentNegotiation
<1> QED
  BY <1>2, <1>4, <1>5, <1>6 DEF Telnet!Answer, Silent, Answers

(* The size that is asked for is not a reply yet. *)
LEMMA AskSizeIs == Telnet!AskSize.kind = "size"
BY DEF Telnet!AskSize

(* Head and tail of what is to be written. *)
LEMMA MessageTaken ==
  ASSUME NEW m
  PROVE  /\ Head(<<m>>) = m /\ Tail(<<m>>) = <<>> /\ <<m>> # <<>>
         /\ \A n : Head(<<m, n>>) = m /\ Tail(<<m, n>>) = <<n>> /\ <<m, n>> # <<>>
OBVIOUS

(* What the reader writes next. *)
LEMMA ReplyTaken ==
  ASSUME NEW r \in Replies, r # <<>>
  PROVE  /\ Head(r).kind \in {"size", "command", "payload"}
         /\ Head(r).kind # "size" => Head(r).bytes \in Silent
         /\ Head(r).kind = "command" => Tail(Head(r).bytes) \in Answers
         /\ Tail(r) \in {<<>>, <<Telnet!AskSize>>}
<1>1. \A m \in Payloads : m.kind = "payload" /\ m.bytes \in Silent
  BY DEF Payloads, Telnet!Payload
<1>2. \A m \in Commands : /\ m.kind = "command" /\ m.bytes \in Silent
                          /\ Tail(m.bytes) \in Answers
  <2>1. ASSUME NEW c \in Negotiations, NEW o \in Bytes, NEW m, m = Telnet!Answer(c, o)
        PROVE  m.kind = "command" /\ m.bytes \in Silent /\ Tail(m.bytes) \in Answers
    BY <2>1, CommandBytes
  <2> QED
    BY <2>1 DEF Commands
<1>3. "WILL" \in Negotiations /\ "NAWS" \in Bytes
  BY DEF Negotiations, Bytes
<1>4. Telnet!Answer("WILL", "NAWS") \in Commands
  BY <1>3 DEF Commands
<1>5. CASE r = <<Telnet!AskSize>>
  BY <1>5, AskSizeIs, MessageTaken
<1>6. CASE r = <<Telnet!Answer("WILL", "NAWS"), Telnet!AskSize>>
  <2>1. /\ Head(r) = Telnet!Answer("WILL", "NAWS") /\ Tail(r) = <<Telnet!AskSize>>
    BY <1>6, MessageTaken
  <2> QED
    BY <1>2, <1>4, <2>1
<1>7. ASSUME NEW m \in Commands \cup Payloads, r = <<m>>
      PROVE  /\ Head(r).kind \in {"size", "command", "payload"}
             /\ Head(r).kind # "size" => Head(r).bytes \in Silent
             /\ Head(r).kind = "command" => Tail(Head(r).bytes) \in Answers
             /\ Tail(r) \in {<<>>, <<Telnet!AskSize>>}
  <2>1. Head(r) = m /\ Tail(r) = <<>>
    BY <1>7, MessageTaken
  <2> QED
    BY <1>1, <1>2, <2>1
<1> QED
  BY <1>5, <1>6, <1>7 DEF Replies

(* What a Resize writes next. *)
LEMMA ResizerTaken ==
  ASSUME NEW r \in ResizerType, r # <<>>
  PROVE  Head(r).kind # "size" => Head(r).bytes \in Silent
<1>1. \A m \in Payloads : m.kind = "payload" /\ m.bytes \in Silent
  BY DEF Payloads, Telnet!Payload
<1>2. CASE r = <<Telnet!AskSize>>
  BY <1>2, AskSizeIs, MessageTaken
<1>3. ASSUME NEW m \in Payloads, r = <<m>> PROVE Head(r).kind # "size" => Head(r).bytes \in Silent
  <2>1. Head(r) = m
    BY <1>3, MessageTaken
  <2> QED
    BY <1>1, <2>1
<1> QED
  BY <1>2, <1>3 DEF ResizerType

(* A size, or the terminal type, that is sent.                             *)
LEMMA SizeSent ==
  ASSUME NEW o \in Bytes, NEW x \in Seq(Bytes)
  PROVE  /\ Telnet!Subnegotiation(o, x) \in Silent
         /\ <<Telnet!Payload(Telnet!Subnegotiation(o, x))>> \in Replies
         /\ <<Telnet!Payload(Telnet!Subnegotiation(o, x))>> \in ResizerType
<1>1. Telnet!Subnegotiation(o, x) \in Silent
  BY SilentSubnegotiation DEF Silent
<1>2. Telnet!Payload(Telnet!Subnegotiation(o, x)) \in Payloads
  BY <1>1 DEF Payloads
<1> QED
  BY <1>1, <1>2 DEF Replies, ResizerType

(* The answer to a subnegotiation.                                         *)
LEMMA SubnegotiatedTyped ==
  ASSUME NEW p PROVE Telnet!Subnegotiated(p) \in Replies
<1>1. "TTYPE" \in Bytes /\ <<"IS", "vt220">> \in Seq(Bytes)
  <2>1. "TTYPE" \in Bytes /\ "IS" \in Bytes /\ "vt220" \in Bytes
    BY DEF Bytes
  <2> QED
    BY <2>1
<1>2. <<Telnet!Payload(Telnet!Subnegotiation("TTYPE", <<"IS", "vt220">>))>> \in Replies
  BY <1>1, SizeSent
<1>3. <<>> \in Replies
  BY DEF Replies
<1> QED
  BY <1>2, <1>3 DEF Telnet!Subnegotiated

(* More bytes on the wire. *)
LEMMA WireTyped ==
  ASSUME NEW w \in WireType, NEW s \in Seq(Bytes)
  PROVE  /\ w.client \in Seq(Bytes) /\ w.host \in Seq(Bytes)
         /\ [w EXCEPT !.client = s] \in WireType /\ [w EXCEPT !.host = s] \in WireType
         /\ w.client \o s \in Seq(Bytes) /\ w.host \o s \in Seq(Bytes)
BY DEF WireType

(* The client's record, field by field. *)
LEMMA ClientTyped ==
  ASSUME NEW c \in ClientType
  PROVE  /\ c.parser \in Parsers /\ c.pending \in Seq(Bytes) /\ c.size \in Seq(Bytes)
         /\ c.local \in SUBSET Bytes /\ c.remote \in SUBSET Bytes
         /\ \A e \in {"none", "pending", "returned"} : [c EXCEPT !.end = e] \in ClientType
         /\ \A s \in Seq(Bytes) : /\ [c EXCEPT !.pending = s] \in ClientType
                                  /\ [c EXCEPT !.size = s] \in ClientType
         /\ \A on \in SUBSET Bytes : /\ [c EXCEPT !.local = on] \in ClientType
                                     /\ [c EXCEPT !.remote = on] \in ClientType
         /\ \A p \in Parsers, s \in Seq(Bytes) :
              [c EXCEPT !.parser = p, !.pending = s] \in ClientType
BY DEF ClientType

(* A step of the client's reader. *)
LEMMA ReadByteIs ==
  ASSUME TelnetTypes, CommandKnown, Telnet!ReadByte
  PROVE  LET b == Head(wire.client)
             p == client.parser
             next == [client EXCEPT !.parser = Telnet!Processed(p, b),
                                    !.pending = @ \o Telnet!DataOf(p, b)]
             result == Telnet!Negotiated(client, p.command, b)
         IN
         /\ b \in Bytes /\ p \in Parsers /\ next \in ClientType
         /\ wire' = [wire EXCEPT !.client = Tail(@)] /\ wire' \in WireType
         /\ \/ /\ p.state = "negotiation" /\ p.command \in Negotiations
               /\ reader' = result.replies
               /\ client' = IF p.command \in {"DO", "DONT"} THEN [next EXCEPT !.local = result.on]
                            ELSE [next EXCEPT !.remote = result.on]
            \/ /\ client' = next /\ reader' \in Replies
               /\ reader' = <<>> \/ Head(reader').kind = "payload"
<1> DEFINE b == Head(wire.client)
           p == client.parser
           next == [client EXCEPT !.parser = Telnet!Processed(p, b),
                                  !.pending = @ \o Telnet!DataOf(p, b)]
<1>1. client \in ClientType /\ wire \in WireType
  BY DEF TelnetTypes
<1>2. p \in Parsers /\ client.pending \in Seq(Bytes)
  BY <1>1, ClientTyped
<1>3. wire.client \in Seq(Bytes) /\ wire.client # <<>>
  BY <1>1 DEF WireType, Telnet!ReadByte
<1>4. b \in Bytes /\ Tail(wire.client) \in Seq(Bytes)
  BY <1>3, Taken
<1>5. Telnet!Processed(p, b) \in Parsers /\ Telnet!DataOf(p, b) \in Seq(Bytes)
  <2> HIDE DEF p, b
  <2> QED
    BY <1>2, <1>4, ByteTyped
<1>6. client.pending \o Telnet!DataOf(p, b) \in Seq(Bytes)
  <2> HIDE DEF p, b
  <2> QED
    BY <1>2, <1>5
<1>7. next \in ClientType
  <2> HIDE DEF p, b
  <2> QED
    BY <1>1, <1>5, <1>6, ClientTyped
<1>8. wire' = [wire EXCEPT !.client = Tail(@)]
  BY DEF Telnet!ReadByte
<1>9. wire' \in WireType
  BY <1>1, <1>4, <1>8, WireTyped
<1>10. CASE p.state = "negotiation"
  BY <1>4, <1>2, <1>7, <1>8, <1>9, <1>10 DEF Telnet!ReadByte, CommandKnown
<1>11. CASE p.state # "negotiation"
  <2>1. client' = next /\ (reader' = <<>> \/ reader' = Telnet!Subnegotiated(p))
    BY <1>11 DEF Telnet!ReadByte
  <2>2. reader' \in Replies
    BY <2>1, SubnegotiatedTyped DEF Replies
  <2>3. reader' = <<>> \/ Head(reader').kind = "payload"
    <3>1. \A m : Head(<<Telnet!Payload(m)>>).kind = "payload"
      BY MessageTaken DEF Telnet!Payload
    <3> QED
      BY <2>1, <3>1 DEF Telnet!Subnegotiated
  <2> HIDE DEF next, p, b
  <2> QED
    BY <1>2, <1>4, <1>7, <1>8, <1>9, <2>1, <2>2, <2>3 DEF next, p, b
<1> QED
  BY <1>10, <1>11

(* A machine that begins a negotiation has a command. *)
LEMMA CommandProcessed ==
  ASSUME NEW p \in Parsers, NEW b \in Bytes, Telnet!Processed(p, b).state = "negotiation"
  PROVE  Telnet!Processed(p, b).command \in Negotiations
BY DEF Parsers, Telnet!Processed, Negotiations

(* The client knows what it is asked. *)
LEMMA CommandStaysKnown ==
  ASSUME TelnetTypes, CommandKnown, Telnet!Next PROVE CommandKnown'
<1>1. CASE Telnet!ReadByte
  <2>1. /\ Head(wire.client) \in Bytes /\ client.parser \in Parsers /\ client \in ClientType
        /\ client'.parser = Telnet!Processed(client.parser, Head(wire.client))
    BY <1>1, ReadByteIs DEF TelnetTypes, ClientType
  <2> QED
    BY <2>1, CommandProcessed DEF CommandKnown
<1>2. CASE ~Telnet!ReadByte
  <2>1. client'.parser = client.parser
    BY <1>2 DEF Telnet!Next, Telnet!ClientStep, Telnet!HostStep, Telnet!ReadSize, Telnet!Reply,
       Telnet!ReplyFails, Telnet!ReadReturns, Telnet!ReadEnds, Telnet!HostReadByte,
       Telnet!TakeOldSize, Telnet!PutNewSize, Telnet!Type, Telnet!StoreSize, Telnet!SendSize,
       Telnet!Show, Telnet!ApplicationResized, Telnet!Close, TelnetTypes, ClientType
  <2> QED
    BY <2>1 DEF CommandKnown
<1> QED
  BY <1>1, <1>2

(* The host's record. *)
LEMMA HostTyped ==
  ASSUME NEW h \in HostType
  PROVE  /\ h.parser \in Parsers /\ h.resizes \in Seq(Seq(Bytes)) /\ h.applied \in Seq(Bytes)
         /\ \A p \in Parsers : /\ [h EXCEPT !.parser = p] \in HostType
                               /\ [h EXCEPT !.parser = p].parser = p
         /\ \A s \in Seq(Bytes) :
              /\ Telnet!Applied(h, s) \in HostType /\ Telnet!Applied(h, s).parser = h.parser
              /\ [h EXCEPT !.forwarding = "idle", !.resizes = <<s>>] \in HostType
              /\ [h EXCEPT !.resizes = <<>>, !.size = s] \in HostType
         /\ [h EXCEPT !.forwarding = "put", !.resizes = <<>>] \in HostType
<1>1. \A s \in Seq(Bytes) : <<s>> \in Seq(Seq(Bytes))
  OBVIOUS
<1>2. <<>> \in Seq(Seq(Bytes))
  OBVIOUS
<1>3. /\ h.parser \in Parsers /\ h.resizes \in Seq(Seq(Bytes)) /\ h.applied \in Seq(Bytes)
      /\ \A p \in Parsers : /\ [h EXCEPT !.parser = p] \in HostType
                            /\ [h EXCEPT !.parser = p].parser = p
  BY DEF HostType
<1>4. [h EXCEPT !.forwarding = "put", !.resizes = <<>>] \in HostType
  BY <1>2 DEF HostType
<1>5. ASSUME NEW s \in Seq(Bytes)
      PROVE  /\ Telnet!Applied(h, s) \in HostType /\ Telnet!Applied(h, s).parser = h.parser
             /\ [h EXCEPT !.forwarding = "idle", !.resizes = <<s>>] \in HostType
             /\ [h EXCEPT !.resizes = <<>>, !.size = s] \in HostType
  <2>1. /\ [h EXCEPT !.resizes = <<s>>] \in HostType
        /\ [h EXCEPT !.forwarding = "take", !.applied = s] \in HostType
    BY <1>1 DEF HostType
  <2>2. /\ [h EXCEPT !.resizes = <<s>>].parser = h.parser
        /\ [h EXCEPT !.forwarding = "take", !.applied = s].parser = h.parser
    BY DEF HostType
  <2>3. [h EXCEPT !.forwarding = "idle", !.resizes = <<s>>] \in HostType
    BY <1>1 DEF HostType
  <2>4. [h EXCEPT !.resizes = <<>>, !.size = s] \in HostType
    BY <1>2 DEF HostType
  <2>5. Telnet!Applied(h, s) \in HostType /\ Telnet!Applied(h, s).parser = h.parser
    BY <2>1, <2>2 DEF Telnet!Applied
  <2> QED
    BY <2>3, <2>4, <2>5
<1> QED
  BY <1>3, <1>4, <1>5

(* A step of the host's reader: what it answers is a command. *)
LEMMA HostReadByteIs ==
  ASSUME TelnetTypes, Telnet!HostReadByte
  PROVE  LET b == Head(wire.host) IN
         /\ wire.host # <<>> /\ b \in Bytes /\ host.parser \in Parsers
         /\ host' \in HostType /\ host'.parser = Telnet!Processed(host.parser, b)
         /\ log' = [log EXCEPT !.read = @ \o Telnet!DataOf(host.parser, b)]
         /\ wire' \in WireType /\ wire'.host = Tail(wire.host)
         /\ \/ wire'.client = wire.client
            \/ "client" \in open /\ \E s \in Silent : wire'.client = wire.client \o s
         /\ "host" \in open /\ UNCHANGED <<plan, open, client, reader, resizer>>
<1> DEFINE b == Head(wire.host)
           p == host.parser
           next == [host EXCEPT !.parser = Telnet!Processed(p, b)]
<1>1. wire \in WireType /\ host \in HostType /\ wire.host # <<>>
  BY DEF TelnetTypes, Telnet!HostReadByte
<1>2. p \in Parsers /\ wire.host \in Seq(Bytes) /\ wire.client \in Seq(Bytes)
  BY <1>1, HostTyped DEF WireType
<1>3. b \in Bytes /\ Tail(wire.host) \in Seq(Bytes)
  BY <1>1, <1>2, Taken
<1>4. Telnet!Processed(p, b) \in Parsers
  <2> HIDE DEF p, b
  <2> QED
    BY <1>2, <1>3, ByteTyped
<1>5. next \in HostType /\ next.parser = Telnet!Processed(p, b)
  <2> HIDE DEF p, b
  <2> QED
    BY <1>1, <1>4, HostTyped
<1>6. p.data \in Seq(Bytes)
  BY <1>2 DEF Parsers
<1>7. /\ Telnet!Applied(next, p.data) \in HostType
      /\ Telnet!Applied(next, p.data).parser = next.parser
  <2> HIDE DEF next, p
  <2> QED
    BY <1>5, <1>6, HostTyped
<1>8. host' \in {next, Telnet!Applied(next, p.data)}
  BY DEF Telnet!HostReadByte
<1>9. host' \in HostType /\ host'.parser = Telnet!Processed(p, b)
  <2> HIDE DEF next, p, b
  <2> QED
    BY <1>5, <1>7, <1>8
<1>10. PICK question \in Silent : question = Telnet!Subnegotiation("TTYPE", <<"SEND">>)
  <2>1. "TTYPE" \in Bytes /\ "SEND" \in Bytes
    BY DEF Bytes
  <2>2. <<"SEND">> \in Seq(Bytes)
    BY <2>1
  <2> QED
    BY <2>1, <2>2, SizeSent
<1>11. PICK c : /\ wire' = [client |-> c, host |-> Tail(wire.host)]
                /\ \/ c = wire.client
                   \/ "client" \in open /\ c = wire.client \o question
  BY <1>10 DEF Telnet!HostReadByte
<1>12. c \in Seq(Bytes)
  <2>1. question \in Seq(Bytes)
    BY DEF Silent
  <2>2. wire.client \o question \in Seq(Bytes)
    BY <1>2, <2>1
  <2> QED
    BY <1>2, <1>11, <2>2
<1>13. wire' \in WireType /\ wire'.host = Tail(wire.host) /\ wire'.client = c
  <2>1. [client |-> c, host |-> Tail(wire.host)] \in WireType
    BY <1>3, <1>12 DEF WireType
  <2> QED
    BY <1>11, <2>1
<1>14. /\ log' = [log EXCEPT !.read = @ \o Telnet!DataOf(p, b)]
       /\ "host" \in open /\ UNCHANGED <<plan, open, client, reader, resizer>>
  BY DEF Telnet!HostReadByte, Telnet!HostRunning
<1> QED
  BY <1>1, <1>2, <1>3, <1>9, <1>11, <1>13, <1>14

(* The history, field by field. *)
LEMMA LogTyped ==
  ASSUME NEW l \in LogType
  PROVE  /\ l.received \in Seq(Bytes) /\ l.read \in Seq(Bytes) /\ l.answers \in Seq(Answers)
         /\ l.typed \in Nat /\ l.shown \in Nat /\ l.resized \in Nat
         /\ [l EXCEPT !.failed = TRUE] \in LogType
         /\ [l EXCEPT !.typed = @ + 1] \in LogType /\ [l EXCEPT !.shown = @ + 1] \in LogType
         /\ [l EXCEPT !.resized = @ + 1] \in LogType
         /\ \A s \in Seq(Bytes) : /\ [l EXCEPT !.received = s] \in LogType
                                  /\ [l EXCEPT !.read = s] \in LogType
         /\ \A a \in Answers : /\ Append(l.answers, a) \in Seq(Answers)
                               /\ [l EXCEPT !.answers = Append(@, a)] \in LogType
<1>1. /\ l.received \in Seq(Bytes) /\ l.read \in Seq(Bytes) /\ l.answers \in Seq(Answers)
      /\ l.typed \in Nat /\ l.shown \in Nat /\ l.resized \in Nat
  BY DEF LogType
<1>2. /\ [l EXCEPT !.failed = TRUE] \in LogType
      /\ [l EXCEPT !.typed = @ + 1] \in LogType /\ [l EXCEPT !.shown = @ + 1] \in LogType
      /\ [l EXCEPT !.resized = @ + 1] \in LogType
  <2>1. l.typed + 1 \in Nat /\ l.shown + 1 \in Nat /\ l.resized + 1 \in Nat
    BY <1>1
  <2>2. \A n \in Nat : /\ [l EXCEPT !.typed = n] \in LogType
                      /\ [l EXCEPT !.shown = n] \in LogType
                      /\ [l EXCEPT !.resized = n] \in LogType
    BY DEF LogType
  <2>3. [l EXCEPT !.failed = TRUE] \in LogType
    BY DEF LogType
  <2> QED
    BY <2>1, <2>2, <2>3
<1>3. ASSUME NEW s \in Seq(Bytes)
      PROVE  [l EXCEPT !.received = s] \in LogType /\ [l EXCEPT !.read = s] \in LogType
  BY DEF LogType
<1>4. ASSUME NEW a \in Answers
      PROVE  /\ Append(l.answers, a) \in Seq(Answers)
             /\ [l EXCEPT !.answers = Append(@, a)] \in LogType
  <2>1. Append(l.answers, a) \in Seq(Answers)
    BY <1>1
  <2> QED
    BY <2>1 DEF LogType
<1> QED
  BY <1>1, <1>2, <1>3, <1>4

(* What a session over Telnet writes to the host: nothing, a command, or   *)
(* the next write (telnet/stream.go:109-141, 207-293).                     *)
LEMMA HostWireGrows ==
  ASSUME TelnetTypes, Telnet!Next, ~Telnet!HostReadByte
  PROVE  /\ log'.read = log.read /\ host'.parser = host.parser
         /\ \/ wire'.host = wire.host /\ log'.typed = log.typed
            \/ log'.typed = log.typed /\ \E s \in Silent : wire'.host = wire.host \o s
            \/ /\ Telnet!Type /\ log.typed < Len(plan.typed) /\ log'.typed = log.typed + 1
               /\ wire'.host = wire.host \o Telnet!Escaped(plan.typed[log.typed + 1])
<1>t. /\ wire \in WireType /\ log \in LogType /\ host \in HostType
      /\ reader \in Replies /\ resizer \in ResizerType
  BY DEF TelnetTypes
<1>w. /\ \A s : [wire EXCEPT !.host = @ \o s].host = wire.host \o s
      /\ \A s : [wire EXCEPT !.client = s].host = wire.host
  BY <1>t DEF WireType
<1>l. /\ \A s : /\ [log EXCEPT !.answers = s].read = log.read
                /\ [log EXCEPT !.answers = s].typed = log.typed
      /\ \A s : /\ [log EXCEPT !.received = s].read = log.read
                /\ [log EXCEPT !.received = s].typed = log.typed
      /\ [log EXCEPT !.failed = TRUE].read = log.read
      /\ [log EXCEPT !.failed = TRUE].typed = log.typed
      /\ [log EXCEPT !.typed = @ + 1].read = log.read
      /\ [log EXCEPT !.typed = @ + 1].typed = log.typed + 1
      /\ [log EXCEPT !.shown = @ + 1].read = log.read
      /\ [log EXCEPT !.shown = @ + 1].typed = log.typed
      /\ [log EXCEPT !.resized = @ + 1].read = log.read
      /\ [log EXCEPT !.resized = @ + 1].typed = log.typed
  BY <1>t DEF LogType
<1>1. CASE Telnet!ReadByte \/ Telnet!ReadSize \/ Telnet!ReadEnds
  BY <1>1, <1>w DEF Telnet!ReadByte, Telnet!ReadSize, Telnet!ReadEnds
<1>2. CASE Telnet!Reply
  <2>1. PICK s \in Silent : s = Head(reader).bytes
    BY <1>2, <1>t, ReplyTaken DEF Telnet!Reply
  <2>2. wire' = [wire EXCEPT !.host = @ \o s] /\ host' = host
    BY <1>2, <2>1 DEF Telnet!Reply, Telnet!ToHost
  <2>3. log'.read = log.read /\ log'.typed = log.typed
    BY <1>2, <1>l DEF Telnet!Reply
  <2> QED
    BY <1>w, <2>2, <2>3
<1>3. CASE Telnet!ReplyFails \/ Telnet!ReadReturns
  BY <1>3, <1>l, ZenonT(40) DEF Telnet!ReplyFails, Telnet!ReadReturns
<1>4. CASE Telnet!Type
  <2>1. /\ wire' = [wire EXCEPT !.host = @ \o Telnet!Escaped(plan.typed[log.typed + 1])]
        /\ host' = host /\ log' = [log EXCEPT !.typed = @ + 1] /\ log.typed < Len(plan.typed)
    BY <1>4 DEF Telnet!Type, Telnet!ToHost
  <2> QED
    BY <1>4, <1>l, <1>w, <2>1
<1>5. CASE Telnet!StoreSize
  BY <1>5, <1>l DEF Telnet!StoreSize
<1>6. CASE Telnet!SendSize
  <2>1. log' = log /\ host' = host
    BY <1>6 DEF Telnet!SendSize
  <2>2. CASE wire' = wire
    BY <2>1, <2>2
  <2>3. CASE wire' # wire
    <3>1. Head(resizer).kind # "size" /\ wire' = [wire EXCEPT !.host = @ \o Head(resizer).bytes]
      BY <1>6, <2>3 DEF Telnet!SendSize, Telnet!ToHost
    <3>2. PICK s \in Silent : s = Head(resizer).bytes
      BY <1>6, <1>t, <3>1, ResizerTaken DEF Telnet!SendSize
    <3> QED
      BY <1>w, <2>1, <3>1, <3>2
  <2> QED
    BY <2>2, <2>3
<1>7. CASE Telnet!Show
  <2>1. wire'.host = wire.host
    BY <1>7, <1>w DEF Telnet!Show
  <2> QED
    BY <1>7, <1>l, <2>1 DEF Telnet!Show
<1>8. CASE Telnet!ApplicationResized \/ Telnet!TakeOldSize \/ Telnet!PutNewSize
  <2>1. /\ [host EXCEPT !.resizes = <<>>, !.size = Head(host.resizes)].parser = host.parser
        /\ [host EXCEPT !.forwarding = "put", !.resizes = <<>>].parser = host.parser
        /\ [host EXCEPT !.forwarding = "idle", !.resizes = <<host.applied>>].parser = host.parser
    BY <1>t DEF HostType
  <2> QED
    BY <1>8, <2>1 DEF Telnet!ApplicationResized, Telnet!TakeOldSize, Telnet!PutNewSize
<1>9. ASSUME NEW end \in {"client", "host"}, Telnet!Close(end)
      PROVE  UNCHANGED <<log, host, wire>>
  BY <1>9 DEF Telnet!Close
<1> QED
  BY <1>1, <1>2, <1>3, <1>4, <1>5, <1>6, <1>7, <1>8, <1>9
     DEF Telnet!Next, Telnet!ClientStep, Telnet!HostStep

(* The variables of a session over Telnet keep their types. *)
LEMMA TelnetTyped ==
  ASSUME TelnetTypes, CommandKnown, Telnet!Next PROVE TelnetTypes'
<1>t. /\ plan \in PlanType /\ wire \in WireType /\ log \in LogType /\ host \in HostType
      /\ client \in ClientType /\ reader \in Replies /\ resizer \in ResizerType
      /\ open \subseteq {"client", "host"}
      /\ log.typed <= Len(plan.typed) /\ log.shown <= Len(plan.shown)
  BY DEF TelnetTypes
<1>n. /\ log.typed \in Nat /\ log.shown \in Nat
      /\ Len(plan.typed) \in Nat /\ Len(plan.shown) \in Nat
      /\ \A i \in 1..Len(plan.typed) : plan.typed[i] \in Seq(Bytes)
      /\ \A i \in 1..Len(plan.shown) : plan.shown[i] \in Seq(Bytes)
      /\ \A i \in 1..Len(plan.resizes) : plan.resizes[i] \in Seq(Bytes)
  BY <1>t DEF LogType, PlanType
<1>r. <<>> \in Replies /\ <<Telnet!AskSize>> \in Replies
  BY DEF Replies
<1>z. <<>> \in ResizerType /\ <<Telnet!AskSize>> \in ResizerType
  BY DEF ResizerType
<1>e. <<>> \in Seq(Bytes) /\ "NAWS" \in Bytes
  BY DEF Bytes
<1>l. \A l \in {[log EXCEPT !.answers = s] : s \in Seq(Answers)}
               \cup {[log EXCEPT !.received = s] : s \in Seq(Bytes)}
               \cup {[log EXCEPT !.read = s] : s \in Seq(Bytes)}
               \cup {[log EXCEPT !.failed = TRUE], [log EXCEPT !.resized = @ + 1]} :
        l.typed = log.typed /\ l.shown = log.shown
  BY <1>t DEF LogType
<1>1. CASE Telnet!ReadByte
  <2> DEFINE b == Head(wire.client)
             p == client.parser
             next == [client EXCEPT !.parser = Telnet!Processed(p, b),
                                    !.pending = @ \o Telnet!DataOf(p, b)]
             on == IF AnsweredBy(p.command) = "local" THEN client.local ELSE client.remote
             result == Telnet!Negotiated(client, p.command, b)
  <2>1. /\ b \in Bytes /\ next \in ClientType /\ wire' \in WireType
        /\ \/ /\ p.command \in Negotiations /\ reader' = result.replies
              /\ client' \in {[next EXCEPT !.local = result.on], [next EXCEPT !.remote = result.on]}
           \/ client' = next /\ reader' \in Replies
    BY <1>1, ReadByteIs
  <2>2. on \in SUBSET Bytes
    BY <1>t, ClientTyped
  <2>3. client' \in ClientType /\ reader' \in Replies
    <3> HIDE DEF b, next, on, result
    <3>1. CASE client' = next /\ reader' \in Replies
      BY <2>1, <3>1
    <3>2. CASE ~(client' = next /\ reader' \in Replies)
      <4>1. result.on \in SUBSET Bytes /\ result.replies \in Replies
        <5>1. p.command \in Negotiations
          BY <2>1, <3>2
        <5>2. on = IF AnsweredBy(p.command) = "local" THEN client.local ELSE client.remote
          BY DEF on
        <5> HIDE DEF p
        <5> QED
          BY <2>1, <2>2, <5>1, <5>2, NegotiatedIs DEF result
      <4> HIDE DEF p
      <4> QED
        BY <2>1, <3>2, <4>1, ClientTyped
    <3> QED
      BY <3>1, <3>2
  <2>4. UNCHANGED <<plan, open, resizer, host, log>>
    BY <1>1 DEF Telnet!ReadByte
  <2> QED
    BY <1>t, <2>1, <2>3, <2>4 DEF TelnetTypes
<1>2. CASE Telnet!ReadSize
  <2>1. reader' \in Replies
    <3>1. client.size \in Seq(Bytes)
      BY <1>t, ClientTyped
    <3> QED
      BY <1>2, <1>e, <3>1, SizeSent DEF Telnet!ReadSize
  <2> QED
    BY <1>2, <1>t, <2>1 DEF TelnetTypes, Telnet!ReadSize
<1>3. CASE Telnet!Reply
  <2>1. /\ Head(reader).bytes \in Silent /\ Tail(reader) \in Replies
        /\ Head(reader).kind = "command" => Tail(Head(reader).bytes) \in Answers
    BY <1>3, <1>t, <1>r, ReplyTaken DEF Telnet!Reply
  <2>2. wire' \in WireType
    <3>1. wire' = [wire EXCEPT !.host = @ \o Head(reader).bytes]
      BY <1>3 DEF Telnet!Reply, Telnet!ToHost
    <3>2. wire.host \o Head(reader).bytes \in Seq(Bytes)
      BY <1>t, <2>1, WireTyped DEF Silent
    <3> QED
      BY <1>t, <3>1, <3>2, WireTyped
  <2>3. log' \in LogType /\ log'.typed = log.typed /\ log'.shown = log.shown
    <3>1. CASE Head(reader).kind = "command"
      <4>1. PICK a \in Answers : log' = [log EXCEPT !.answers = Append(@, a)]
        BY <1>3, <2>1, <3>1 DEF Telnet!Reply
      <4>2. Append(log.answers, a) \in Seq(Answers) /\ log' \in LogType
        BY <1>t, <4>1, LogTyped
      <4> QED
        BY <1>l, <4>1, <4>2
    <3>2. CASE Head(reader).kind # "command"
      <4>1. log' = log
        BY <1>3, <1>t, <3>2 DEF Telnet!Reply, LogType
      <4> QED
        BY <1>t, <4>1
    <3> QED
      BY <3>1, <3>2
  <2>4. reader' = Tail(reader) /\ UNCHANGED <<plan, open, client, resizer, host>>
    BY <1>3 DEF Telnet!Reply
  <2> QED
    BY <1>t, <2>1, <2>2, <2>3, <2>4 DEF TelnetTypes
<1>4. CASE Telnet!ReplyFails
  <2>1. client' \in ClientType /\ log' \in LogType
    BY <1>4, <1>t, ClientTyped, LogTyped DEF Telnet!ReplyFails
  <2>2. log'.typed = log.typed /\ log'.shown = log.shown
    BY <1>4, <1>l DEF Telnet!ReplyFails
  <2>3. reader' = <<>> /\ UNCHANGED <<plan, wire, open, resizer, host>>
    BY <1>4 DEF Telnet!ReplyFails
  <2> QED
    BY <1>t, <1>r, <2>1, <2>2, <2>3 DEF TelnetTypes
<1>5. CASE Telnet!ReadReturns
  <2>1. client' \in ClientType
    BY <1>5, <1>t, <1>e, ClientTyped DEF Telnet!ReadReturns
  <2>2. log.received \o client.pending \in Seq(Bytes)
    <3>1. log.received \in Seq(Bytes) /\ client.pending \in Seq(Bytes)
      BY <1>t, LogTyped, ClientTyped
    <3> QED
      BY <3>1
  <2>3. log' = [log EXCEPT !.received = log.received \o client.pending]
    BY <1>5 DEF Telnet!ReadReturns
  <2>4. log' \in LogType /\ log'.typed = log.typed /\ log'.shown = log.shown
    BY <1>t, <1>l, <2>2, <2>3, LogTyped
  <2> QED
    BY <1>5, <1>t, <2>1, <2>4 DEF TelnetTypes, Telnet!ReadReturns
<1>6. CASE Telnet!ReadEnds
  <2>1. client' \in ClientType
    BY <1>6, <1>t, ClientTyped DEF Telnet!ReadEnds
  <2> QED
    BY <1>6, <1>t, <2>1 DEF TelnetTypes, Telnet!ReadEnds
<1>7. CASE Telnet!Type
  <2>1. log' = [log EXCEPT !.typed = @ + 1] /\ log.typed < Len(plan.typed)
    BY <1>7 DEF Telnet!Type
  <2>2. /\ log' \in LogType /\ log'.typed = log.typed + 1 /\ log'.shown = log.shown
        /\ log'.typed <= Len(plan.typed)
    <3>1. log'.typed = log.typed + 1 /\ log'.shown = log.shown
      BY <1>t, <2>1 DEF LogType
    <3>2. log' \in LogType
      BY <1>t, <2>1, LogTyped
    <3>3. log.typed + 1 <= Len(plan.typed)
      BY <1>n, <2>1
    <3> QED
      BY <3>1, <3>2, <3>3
  <2>3. wire' \in WireType
    <3>1. PICK x \in Seq(Bytes) : x = plan.typed[log.typed + 1]
      <4>1. log.typed + 1 \in 1..Len(plan.typed)
        BY <1>n, <2>1
      <4> QED
        BY <1>n, <4>1
    <3>2. Telnet!Escaped(x) \in Seq(Bytes)
      BY EscapedIs
    <3>3. wire.host \o Telnet!Escaped(x) \in Seq(Bytes)
      BY <1>t, <3>2, WireTyped
    <3>4. wire' = [wire EXCEPT !.host = wire.host \o Telnet!Escaped(x)]
      BY <1>7, <3>1 DEF Telnet!Type, Telnet!ToHost
    <3> QED
      BY <1>t, <3>3, <3>4, WireTyped
  <2> QED
    BY <1>7, <1>t, <2>2, <2>3 DEF TelnetTypes, Telnet!Type
<1>8. CASE Telnet!StoreSize
  <2>1. PICK s \in Seq(Bytes) : s = plan.resizes[log.resized + 1]
    <3>1. log.resized + 1 \in 1..Len(plan.resizes)
      BY <1>8, <1>t DEF LogType, PlanType, Telnet!StoreSize
    <3> QED
      BY <1>n, <3>1
  <2>2. client' \in ClientType /\ resizer' \in ResizerType
    <3>1. client' \in {client, [client EXCEPT !.size = s]}
      BY <1>8, <2>1 DEF Telnet!StoreSize
    <3>2. resizer' \in {<<>>, <<Telnet!AskSize>>}
      BY <1>8 DEF Telnet!StoreSize
    <3> QED
      BY <1>t, <1>z, <3>1, <3>2, ClientTyped
  <2>3. log' \in LogType /\ log'.typed = log.typed /\ log'.shown = log.shown
    BY <1>8, <1>t, <1>l, LogTyped DEF Telnet!StoreSize
  <2> QED
    BY <1>8, <1>t, <2>2, <2>3 DEF TelnetTypes, Telnet!StoreSize
<1>9. CASE Telnet!SendSize
  <2>1. resizer' \in ResizerType
    <3>1. client.size \in Seq(Bytes)
      BY <1>t, ClientTyped
    <3>2. <<Telnet!Payload(Telnet!Subnegotiation("NAWS", client.size))>> \in ResizerType
      BY <1>e, <3>1, SizeSent
    <3> QED
      BY <1>9, <1>z, <3>2 DEF Telnet!SendSize
  <2>2. wire' \in WireType
    <3>1. CASE wire' = wire
      BY <1>t, <3>1
    <3>2. CASE wire' # wire
      <4>1. Head(resizer).kind # "size" /\ wire' = [wire EXCEPT !.host = @ \o Head(resizer).bytes]
        BY <1>9, <3>2 DEF Telnet!SendSize, Telnet!ToHost
      <4>2. PICK s \in Seq(Bytes) : s = Head(resizer).bytes
        BY <1>9, <1>t, <4>1, ResizerTaken DEF Telnet!SendSize, Silent
      <4>3. wire.host \o s \in Seq(Bytes)
        BY <1>t, WireTyped
      <4> QED
        BY <1>t, <4>1, <4>2, <4>3, WireTyped
    <3> QED
      BY <3>1, <3>2
  <2> QED
    BY <1>9, <1>t, <2>1, <2>2 DEF TelnetTypes, Telnet!SendSize
<1>10. CASE Telnet!HostReadByte
  <2>1. /\ host' \in HostType /\ wire' \in WireType
        /\ Head(wire.host) \in Bytes /\ host.parser \in Parsers
        /\ log' = [log EXCEPT !.read = @ \o Telnet!DataOf(host.parser, Head(wire.host))]
        /\ UNCHANGED <<plan, open, client, reader, resizer>>
    BY <1>10, HostReadByteIs
  <2>2. PICK d \in Seq(Bytes) : d = Telnet!DataOf(host.parser, Head(wire.host))
    BY <2>1, ByteTyped
  <2>3. PICK s \in Seq(Bytes) : s = log.read \o d
    <3>1. log.read \in Seq(Bytes)
      BY <1>t, LogTyped
    <3>2. log.read \o d \in Seq(Bytes)
      BY <3>1
    <3> QED
      BY <3>2
  <2>4. log' = [log EXCEPT !.read = s]
    BY <2>1, <2>2, <2>3
  <2>5. log' \in LogType /\ log'.typed = log.typed /\ log'.shown = log.shown
    BY <1>t, <1>l, <2>4, LogTyped
  <2> QED
    BY <1>t, <2>1, <2>5 DEF TelnetTypes
<1>11. CASE Telnet!ApplicationResized \/ Telnet!TakeOldSize \/ Telnet!PutNewSize
  <2>1. host.resizes \in Seq(Seq(Bytes)) /\ host.applied \in Seq(Bytes)
    BY <1>t, HostTyped
  <2>2. Telnet!ApplicationResized => Head(host.resizes) \in Seq(Bytes)
    BY <2>1, Taken DEF Telnet!ApplicationResized
  <2>3. host' \in HostType
    <3>1. CASE Telnet!ApplicationResized
      BY <1>t, <2>2, <3>1, HostTyped DEF Telnet!ApplicationResized
    <3>2. CASE Telnet!TakeOldSize
      BY <1>t, <3>2, HostTyped DEF Telnet!TakeOldSize
    <3>3. CASE Telnet!PutNewSize
      BY <1>t, <2>1, <3>3, HostTyped DEF Telnet!PutNewSize
    <3> QED
      BY <1>11, <3>1, <3>2, <3>3
  <2> QED
    BY <1>11, <1>t, <2>3
       DEF TelnetTypes, Telnet!ApplicationResized, Telnet!TakeOldSize, Telnet!PutNewSize
<1>12. CASE Telnet!Show
  <2>1. log' = [log EXCEPT !.shown = @ + 1] /\ log.shown < Len(plan.shown)
    BY <1>12 DEF Telnet!Show
  <2>2. /\ log' \in LogType /\ log'.shown = log.shown + 1 /\ log'.typed = log.typed
        /\ log'.shown <= Len(plan.shown)
    <3>1. log'.shown = log.shown + 1 /\ log'.typed = log.typed
      BY <1>t, <2>1 DEF LogType
    <3>2. log' \in LogType
      BY <1>t, <2>1, LogTyped
    <3>3. log.shown + 1 <= Len(plan.shown)
      BY <1>n, <2>1
    <3> QED
      BY <3>1, <3>2, <3>3
  <2>3. wire' \in WireType
    <3>1. PICK x \in Seq(Bytes) : x = plan.shown[log.shown + 1]
      <4>1. log.shown + 1 \in 1..Len(plan.shown)
        BY <1>n, <2>1
      <4> QED
        BY <1>n, <4>1
    <3>2. Telnet!Escaped(x) \in Seq(Bytes)
      BY EscapedIs
    <3>3. wire.client \o Telnet!Escaped(x) \in Seq(Bytes)
      BY <1>t, <3>2, WireTyped
    <3>4. wire' \in {wire, [wire EXCEPT !.client = wire.client \o Telnet!Escaped(x)]}
      BY <1>12, <3>1 DEF Telnet!Show
    <3> QED
      BY <1>t, <3>3, <3>4, WireTyped
  <2> QED
    BY <1>12, <1>t, <2>2, <2>3 DEF TelnetTypes, Telnet!Show
<1>13. ASSUME NEW end \in {"client", "host"}, Telnet!Close(end) PROVE TelnetTypes'
  BY <1>13, <1>t DEF TelnetTypes, Telnet!Close
<1> QED
  BY <1>1, <1>2, <1>3, <1>4, <1>5, <1>6, <1>7, <1>8, <1>9, <1>10, <1>11, <1>12, <1>13
     DEF Telnet!Next, Telnet!ClientStep, Telnet!HostStep

(* What is typed arrives: one step. *)
LEMMA TypedStep ==
  ASSUME TelnetTypes, TypedArrives, Telnet!Next PROVE TypedArrives'
<1>1. PICK d \in Seq(Bytes) :
        OnWire(host.parser, wire.host, d) /\ log.read \o d = Telnet!Sent(plan.typed, log.typed)
  BY DEF TypedArrives
<1>t. /\ wire.host \in Seq(Bytes) /\ host.parser \in Parsers /\ log.read \in Seq(Bytes)
      /\ log \in LogType /\ log.typed \in Nat /\ plan.typed \in Seq(Seq(Bytes))
      /\ log.typed <= Len(plan.typed)
  BY WireTyped, HostTyped, LogTyped DEF TelnetTypes, PlanType, WireType
<1>p. plan' = plan
  BY DEF Telnet!Next, Telnet!ClientStep, Telnet!HostStep, Telnet!ReadByte, Telnet!ReadSize,
     Telnet!Reply, Telnet!ReplyFails, Telnet!ReadReturns, Telnet!ReadEnds, Telnet!HostReadByte,
     Telnet!TakeOldSize, Telnet!PutNewSize, Telnet!Type, Telnet!StoreSize, Telnet!SendSize,
     Telnet!Show, Telnet!ApplicationResized, Telnet!Close
<1>2. CASE Telnet!HostReadByte
  <2>1. /\ wire.host # <<>> /\ host'.parser = Telnet!Processed(host.parser, Head(wire.host))
        /\ wire'.host = Tail(wire.host)
        /\ log' = [log EXCEPT !.read = @ \o Telnet!DataOf(host.parser, Head(wire.host))]
    BY <1>2, HostReadByteIs
  <2>2. PICK p \in Parsers, s \in Seq(Bytes) : p = host.parser /\ s = wire.host
    BY <1>t
  <2>3. PICK b : b = Head(wire.host)
    OBVIOUS
  <2>4. PICK x \in Seq(Bytes), e \in Seq(Bytes) :
          x = Telnet!DataOf(p, b) /\ d = x \o e /\ OnWire(Telnet!Processed(p, b), Tail(s), e)
    BY <1>1, <2>1, <2>2, <2>3, OnWireRest
  <2>5. PICK r \in Seq(Bytes) : r = log.read
    BY <1>t
  <2>6. log'.read = r \o x /\ log'.typed = log.typed
    BY <1>t, <2>1, <2>2, <2>3, <2>4, <2>5 DEF LogType
  <2>7. (r \o x) \o e = r \o (x \o e)
    <3>1. Regroups(r, x, e)
      BY ONLY ConcatThree, r \in Seq(Bytes), x \in Seq(Bytes), e \in Seq(Bytes)
    <3> QED
      BY ONLY <3>1 DEF Regroups
  <2>8. log'.read \o e = Telnet!Sent(plan.typed, log.typed)
    BY <1>1, <2>4, <2>5, <2>6, <2>7
  <2> QED
    BY <1>p, <2>1, <2>2, <2>3, <2>4, <2>6, <2>8 DEF TypedArrives
<1>3. CASE ~Telnet!HostReadByte
  <2>1. log'.read = log.read /\ host'.parser = host.parser
    BY <1>3, HostWireGrows
  <2>2. CASE wire'.host = wire.host /\ log'.typed = log.typed
    BY <1>1, <1>p, <2>1, <2>2 DEF TypedArrives
  <2>3. ASSUME NEW s \in Silent, wire'.host = wire.host \o s, log'.typed = log.typed
        PROVE  TypedArrives'
    <3>1. OnWire(host.parser, wire.host \o s, d)
      BY <1>1, <1>t, OnWireSilent
    <3> QED
      BY <1>1, <1>p, <2>1, <2>3, <3>1 DEF TypedArrives
  <2>4. ASSUME log.typed < Len(plan.typed), log'.typed = log.typed + 1,
               wire'.host = wire.host \o Telnet!Escaped(plan.typed[log.typed + 1])
        PROVE  TypedArrives'
    <3>1. PICK x \in Seq(Bytes) : x = plan.typed[log.typed + 1]
      BY <1>t, <2>4, SentMore
    <3>2. PICK sent, more : /\ sent \in Seq(Bytes)
                           /\ sent = Telnet!Sent(plan.typed, log.typed)
                           /\ more = Telnet!Sent(plan.typed, log.typed + 1)
                           /\ more = sent \o x
      BY <1>t, <2>4, <3>1, SentMore
    <3>3. OnWire(host.parser, wire.host \o Telnet!Escaped(x), d \o x)
      BY <1>1, <1>t, OnWireWrite
    <3>4. PICK r \in Seq(Bytes) : r = log.read
      BY <1>t
    <3>5. (r \o d) \o x = r \o (d \o x)
      <4>1. Regroups(r, d, x)
        BY ONLY ConcatThree, r \in Seq(Bytes), d \in Seq(Bytes), x \in Seq(Bytes)
      <4> QED
        BY ONLY <4>1 DEF Regroups
    <3>6. r \o (d \o x) = more
      BY <1>1, <3>2, <3>4, <3>5
    <3>7. d \o x \in Seq(Bytes)
      OBVIOUS
    <3>8. wire'.host = wire.host \o Telnet!Escaped(x)
      BY <2>4, <3>1
    <3>9. log'.read \o (d \o x) = Telnet!Sent(plan'.typed, log'.typed)
      BY <1>p, <2>1, <2>4, <3>2, <3>4, <3>6
    <3> QED
      BY <2>1, <3>3, <3>7, <3>8, <3>9 DEF TypedArrives
  <2> QED
    BY <1>3, <2>2, <2>3, <2>4, HostWireGrows
<1> QED
  BY <1>2, <1>3

(* What a session over Telnet writes to the client, and how the client     *)
(* passes on what it has read (telnet/stream.go:73-107,                    *)
(* reference/telnet/server.go:115-211).                                    *)
LEMMA ClientWireGrows ==
  ASSUME TelnetTypes, Telnet!Next, ~Telnet!ReadByte
  PROVE  /\ client'.parser = client.parser /\ plan' = plan /\ open' \subseteq open
         /\ log'.received \o client'.pending = log.received \o client.pending
         /\ \/ wire'.client = wire.client /\ log'.shown = log.shown
            \/ /\ log'.shown = log.shown /\ open' = open
               /\ \E s \in Silent : wire'.client = wire.client \o s
            \/ /\ log.shown < Len(plan.shown) /\ log'.shown = log.shown + 1 /\ open' = open
               /\ "client" \in open =>
                    wire'.client = wire.client \o Telnet!Escaped(plan.shown[log.shown + 1])
<1>t. /\ wire \in WireType /\ log \in LogType /\ host \in HostType /\ client \in ClientType
  BY DEF TelnetTypes
<1>w. /\ \A s : [wire EXCEPT !.host = @ \o s].client = wire.client
      /\ \A s : [wire EXCEPT !.client = @ \o s].client = wire.client \o s
  BY <1>t DEF WireType
<1>l. /\ \A s : /\ [log EXCEPT !.answers = s].received = log.received
                /\ [log EXCEPT !.answers = s].shown = log.shown
      /\ \A s : /\ [log EXCEPT !.received = s].received = s
                /\ [log EXCEPT !.received = s].shown = log.shown
      /\ \A s : /\ [log EXCEPT !.read = s].received = log.received
                /\ [log EXCEPT !.read = s].shown = log.shown
      /\ [log EXCEPT !.failed = TRUE].received = log.received
      /\ [log EXCEPT !.failed = TRUE].shown = log.shown
      /\ [log EXCEPT !.typed = @ + 1].received = log.received
      /\ [log EXCEPT !.typed = @ + 1].shown = log.shown
      /\ [log EXCEPT !.shown = @ + 1].received = log.received
      /\ [log EXCEPT !.shown = @ + 1].shown = log.shown + 1
      /\ [log EXCEPT !.resized = @ + 1].received = log.received
      /\ [log EXCEPT !.resized = @ + 1].shown = log.shown
  BY <1>t DEF LogType
<1>c. /\ \A e : /\ [client EXCEPT !.end = e].parser = client.parser
                /\ [client EXCEPT !.end = e].pending = client.pending
      /\ \A s : /\ [client EXCEPT !.size = s].parser = client.parser
                /\ [client EXCEPT !.size = s].pending = client.pending
      /\ \A s : /\ [client EXCEPT !.pending = s].parser = client.parser
                /\ [client EXCEPT !.pending = s].pending = s
  BY <1>t DEF ClientType
<1>1. CASE Telnet!ReadSize
  BY <1>1 DEF Telnet!ReadSize
<1>2. CASE Telnet!ReadEnds
  BY <1>2, <1>c DEF Telnet!ReadEnds
<1>3. CASE Telnet!Reply
  <2>1. wire'.client = wire.client
    BY <1>3, <1>w DEF Telnet!Reply, Telnet!ToHost
  <2>2. log'.received = log.received /\ log'.shown = log.shown
    BY <1>3, <1>l DEF Telnet!Reply
  <2> QED
    BY <1>3, <2>1, <2>2 DEF Telnet!Reply
<1>4. CASE Telnet!ReplyFails
  BY <1>4, <1>l, <1>c DEF Telnet!ReplyFails
<1>5. CASE Telnet!ReadReturns
  <2>1. PICK r \in Seq(Bytes), s \in Seq(Bytes) : r = log.received /\ s = client.pending
    BY <1>t, LogTyped, ClientTyped
  <2>2. r \o s \in Seq(Bytes)
    OBVIOUS
  <2>3. (r \o s) \o <<>> = r \o s
    BY <2>2, ConcatNothing
  <2>4. log'.received = r \o s /\ log'.shown = log.shown
    BY <1>5, <1>l, <2>1 DEF Telnet!ReadReturns
  <2>5. client'.parser = client.parser /\ client'.pending = <<>>
    BY <1>5, <1>c DEF Telnet!ReadReturns
  <2>6. UNCHANGED <<plan, wire, open>>
    BY <1>5 DEF Telnet!ReadReturns
  <2> QED
    BY <2>1, <2>3, <2>4, <2>5, <2>6
<1>6. CASE Telnet!Type
  BY <1>6, <1>l, <1>w DEF Telnet!Type, Telnet!ToHost
<1>7. CASE Telnet!StoreSize
  BY <1>7, <1>l, <1>c DEF Telnet!StoreSize
<1>8. CASE Telnet!SendSize
  BY <1>8, <1>w DEF Telnet!SendSize, Telnet!ToHost
<1>9. CASE Telnet!Show
  <2>1. log' = [log EXCEPT !.shown = @ + 1] /\ log.shown < Len(plan.shown)
    BY <1>9 DEF Telnet!Show
  <2>2. "client" \in open =>
          wire'.client = wire.client \o Telnet!Escaped(plan.shown[log.shown + 1])
    BY <1>9, <1>w DEF Telnet!Show
  <2>3. UNCHANGED <<plan, open, client>>
    BY <1>9 DEF Telnet!Show
  <2> QED
    BY <1>l, <2>1, <2>2, <2>3
<1>10. CASE Telnet!HostReadByte
  <2>1. /\ log' = [log EXCEPT !.read = @ \o Telnet!DataOf(host.parser, Head(wire.host))]
        /\ \/ wire'.client = wire.client
           \/ "client" \in open /\ \E s \in Silent : wire'.client = wire.client \o s
        /\ UNCHANGED <<plan, open, client, reader, resizer>>
    BY <1>10, HostReadByteIs
  <2> QED
    BY <1>l, <2>1
<1>11. CASE Telnet!ApplicationResized \/ Telnet!TakeOldSize \/ Telnet!PutNewSize
  BY <1>11 DEF Telnet!ApplicationResized, Telnet!TakeOldSize, Telnet!PutNewSize
<1>12. ASSUME NEW end \in {"client", "host"}, Telnet!Close(end)
       PROVE  UNCHANGED <<plan, log, client, wire>> /\ open' \subseteq open
  BY <1>12 DEF Telnet!Close
<1> QED
  BY <1>1, <1>2, <1>3, <1>4, <1>5, <1>6, <1>7, <1>8, <1>9, <1>10, <1>11, <1>12
     DEF Telnet!Next, Telnet!ClientStep, Telnet!HostStep

(* Putting together sequences, for proofs in which nothing else is to be   *)
(* known of it.                                                            *)
Cat(s, t) == s \o t

(* Four sequences of bytes.                                                *)
LEMMA CatFour ==
  ASSUME NEW r \in Seq(Bytes), NEW q \in Seq(Bytes), NEW x \in Seq(Bytes), NEW e \in Seq(Bytes)
  PROVE  Cat(Cat(r, Cat(q, x)), e) = Cat(Cat(r, q), Cat(x, e))
<1>1. PICK t \in Seq(Bytes) : t = r \o q
  <2>1. r \o q \in Seq(Bytes)
    OBVIOUS
  <2> QED
    BY <2>1
<1>2. (r \o q) \o x = r \o (q \o x)
  <2>1. Regroups(r, q, x)
    BY ONLY ConcatThree, r \in Seq(Bytes), q \in Seq(Bytes), x \in Seq(Bytes)
  <2> QED
    BY ONLY <2>1 DEF Regroups
<1>3. (t \o x) \o e = t \o (x \o e)
  <2>1. Regroups(t, x, e)
    BY ONLY ConcatThree, t \in Seq(Bytes), x \in Seq(Bytes), e \in Seq(Bytes)
  <2> QED
    BY ONLY <2>1 DEF Regroups
<1> QED
  BY ONLY <1>1, <1>2, <1>3, Zenon DEF Cat

(* What is shown arrives: one step. *)
LEMMA ShownStep ==
  ASSUME TelnetTypes, CommandKnown, ShownArrives, Telnet!Next PROVE ShownArrives'
<1>t. /\ wire \in WireType /\ log \in LogType /\ client \in ClientType
      /\ wire.client \in Seq(Bytes) /\ client.parser \in Parsers
      /\ log.received \in Seq(Bytes) /\ client.pending \in Seq(Bytes)
      /\ log.shown \in Nat /\ plan.shown \in Seq(Seq(Bytes)) /\ log.shown <= Len(plan.shown)
  BY ClientTyped, LogTyped DEF TelnetTypes, PlanType, WireType
<1>b. PICK base : base \in Seq(Bytes) /\ base = log.received \o client.pending
  <2>1. log.received \in Seq(Bytes) /\ client.pending \in Seq(Bytes)
    BY <1>t
  <2>2. log.received \o client.pending \in Seq(Bytes)
    BY <2>1
  <2> QED
    BY <2>2
<1>s. PICK sent : sent \in Seq(Bytes) /\ sent = Telnet!Sent(plan.shown, log.shown)
  BY <1>t, SentMore
<1>1. PICK d \in Seq(Bytes) :
        /\ base \o d = sent
        /\ "client" \in open => OnWire(client.parser, wire.client, d)
  BY <1>b, <1>s DEF ShownArrives
<1>2. CASE Telnet!ReadByte
  <2>1. /\ "client" \in open /\ wire.client # <<>>
        /\ UNCHANGED <<plan, open, resizer, host, log>>
    BY <1>2 DEF Telnet!ReadByte
  <2>2. PICK p, s : p \in Parsers /\ s \in Seq(Bytes) /\ p = client.parser /\ s = wire.client
    BY <1>t
  <2>3. PICK b : b = Head(s)
    OBVIOUS
  <2>4. PICK x \in Seq(Bytes), e \in Seq(Bytes) :
          x = Telnet!DataOf(p, b) /\ d = x \o e /\ OnWire(Telnet!Processed(p, b), Tail(s), e)
    BY <1>1, <2>1, <2>2, <2>3, OnWireRest
  <2>5. PICK q \in Seq(Bytes), r \in Seq(Bytes) : q = client.pending /\ r = log.received
    BY <1>t
  <2>6. wire'.client = Tail(s)
    BY <1>t, <1>2, <2>2 DEF Telnet!ReadByte, WireType
  <2>7. client'.parser = Telnet!Processed(p, b) /\ client'.pending = q \o x
    BY <1>t, <1>2, <2>2, <2>3, <2>4, <2>5 DEF Telnet!ReadByte, ClientType
  <2>8. (r \o (q \o x)) \o e = sent
    <3>1. (r \o (q \o x)) \o e = (r \o q) \o (x \o e)
      <4>1. Cat(Cat(r, Cat(q, x)), e) = Cat(Cat(r, q), Cat(x, e))
        BY CatFour
      <4> QED
        BY <4>1, Zenon DEF Cat
    <3>3. base = r \o q
      BY <1>b, <2>5
    <3>4. base \o (x \o e) = sent
      BY <1>1, <2>4
    <3> QED
      BY ONLY <3>1, <3>3, <3>4
  <2>9. (log'.received \o client'.pending) \o e = Telnet!Sent(plan'.shown, log'.shown)
    BY <1>s, <2>1, <2>5, <2>7, <2>8
  <2> QED
    BY <2>1, <2>4, <2>6, <2>7, <2>9 DEF ShownArrives
<1>3. CASE ~Telnet!ReadByte
  <2>1. /\ client'.parser = client.parser /\ plan' = plan /\ open' \subseteq open
        /\ log'.received \o client'.pending = base
    BY <1>b, <1>3, ClientWireGrows
  <2>2. CASE wire'.client = wire.client /\ log'.shown = log.shown
    BY <1>1, <1>s, <2>1, <2>2 DEF ShownArrives
  <2>3. ASSUME NEW s \in Silent, wire'.client = wire.client \o s, log'.shown = log.shown
        PROVE  ShownArrives'
    <3>1. "client" \in open => OnWire(client.parser, wire.client \o s, d)
      BY <1>1, <1>t, OnWireSilent
    <3> QED
      BY <1>1, <1>s, <2>1, <2>3, <3>1 DEF ShownArrives
  <2>4. ASSUME log.shown < Len(plan.shown), log'.shown = log.shown + 1, open' = open,
               "client" \in open =>
                 wire'.client = wire.client \o Telnet!Escaped(plan.shown[log.shown + 1])
        PROVE  ShownArrives'
    <3>1. PICK x \in Seq(Bytes) : x = plan.shown[log.shown + 1]
      BY <1>t, <2>4, SentMore
    <3>2. PICK more : more = Telnet!Sent(plan.shown, log.shown + 1) /\ more = sent \o x
      BY <1>s, <1>t, <2>4, <3>1, SentMore
    <3>3. "client" \in open => OnWire(client.parser, wire.client \o Telnet!Escaped(x), d \o x)
      BY <1>1, <1>t, OnWireWrite
    <3>4. (base \o d) \o x = base \o (d \o x)
      <4>1. Regroups(base, d, x)
        BY ONLY <1>b, ConcatThree, d \in Seq(Bytes), x \in Seq(Bytes)
      <4> QED
        BY ONLY <4>1 DEF Regroups
    <3>5. base \o (d \o x) = more
      BY <1>1, <3>2, <3>4
    <3>6. d \o x \in Seq(Bytes)
      OBVIOUS
    <3>7. "client" \in open => wire'.client = wire.client \o Telnet!Escaped(x)
      BY <2>4, <3>1
    <3>8. (log'.received \o client'.pending) \o (d \o x) = Telnet!Sent(plan'.shown, log'.shown)
      BY <2>1, <2>4, <3>2, <3>5
    <3> QED
      BY <2>1, <2>4, <3>3, <3>6, <3>7, <3>8 DEF ShownArrives
  <2> QED
    BY <1>3, <2>2, <2>3, <2>4, ClientWireGrows
<1> QED
  BY <1>2, <1>3

(* The end of the data: one step.                                          *)
LEMMA EndStep == ASSUME TelnetTypes, EndHolds, Telnet!Next PROVE EndHolds'
<1>t. wire \in WireType /\ log \in LogType /\ client \in ClientType
  BY DEF TelnetTypes
<1>w. \A s : [wire EXCEPT !.host = @ \o s].client = wire.client
  BY <1>t DEF WireType
<1>l. /\ \A s : [log EXCEPT !.answers = s].failed = log.failed
      /\ \A s : [log EXCEPT !.received = s].failed = log.failed
      /\ \A s : [log EXCEPT !.read = s].failed = log.failed
      /\ [log EXCEPT !.failed = TRUE].failed = TRUE
      /\ [log EXCEPT !.typed = @ + 1].failed = log.failed
      /\ [log EXCEPT !.shown = @ + 1].failed = log.failed
      /\ [log EXCEPT !.resized = @ + 1].failed = log.failed
  BY <1>t DEF LogType
<1>c. /\ \A e : /\ [client EXCEPT !.end = e].end = e
                /\ [client EXCEPT !.end = e].pending = client.pending
      /\ \A s : /\ [client EXCEPT !.size = s].end = client.end
                /\ [client EXCEPT !.size = s].pending = client.pending
      /\ \A s : /\ [client EXCEPT !.pending = s].end = client.end
                /\ [client EXCEPT !.pending = s].pending = s
  BY <1>t DEF ClientType
<1>1. CASE Telnet!ReadByte
  <2>1. client.end = "none" /\ client'.end = client.end
    BY <1>1, <1>t DEF Telnet!ReadByte, ClientType
  <2> QED
    BY <2>1 DEF EndHolds
<1>2. CASE Telnet!ReadSize
  BY <1>2 DEF Telnet!ReadSize, EndHolds
<1>3. CASE Telnet!Reply
  <2>1. wire'.client = wire.client
    BY <1>3, <1>w DEF Telnet!Reply, Telnet!ToHost
  <2>2. log'.failed = log.failed
    BY <1>3, <1>l DEF Telnet!Reply
  <2> QED
    BY <1>3, <2>1, <2>2 DEF Telnet!Reply, EndHolds
<1>4. CASE Telnet!ReplyFails
  BY <1>4, <1>l, <1>c DEF Telnet!ReplyFails, EndHolds
<1>5. CASE Telnet!ReadReturns
  BY <1>5, <1>l, <1>c DEF Telnet!ReadReturns, EndHolds
<1>6. CASE Telnet!ReadEnds
  <2>1. CASE client.end = "none" /\ Telnet!Hangup /\ client' = [client EXCEPT !.end = "pending"]
    BY <1>6, <1>c, <2>1 DEF Telnet!ReadEnds, Telnet!Hangup, EndHolds
  <2>2. CASE /\ client.end = "pending" /\ Telnet!PendingFirst(client)
             /\ client' = [client EXCEPT !.end = "returned"]
    BY <1>6, <1>c, <2>2 DEF Telnet!ReadEnds, Telnet!PendingFirst, EndHolds
  <2> QED
    BY <1>6, <2>1, <2>2 DEF Telnet!ReadEnds
<1>7. CASE Telnet!Type
  BY <1>7, <1>l, <1>w DEF Telnet!Type, Telnet!ToHost, EndHolds
<1>8. CASE Telnet!StoreSize
  BY <1>8, <1>l, <1>c DEF Telnet!StoreSize, EndHolds
<1>9. CASE Telnet!SendSize
  BY <1>9, <1>w DEF Telnet!SendSize, Telnet!ToHost, EndHolds
<1>10. CASE Telnet!Show
  BY <1>10, <1>l DEF Telnet!Show, EndHolds
<1>11. CASE Telnet!HostReadByte
  <2>1. log'.failed = log.failed
    BY <1>11, <1>l DEF Telnet!HostReadByte
  <2>2. "host" \in open /\ UNCHANGED <<open, client>>
    BY <1>11 DEF Telnet!HostReadByte, Telnet!HostRunning
  <2> QED
    BY <2>1, <2>2 DEF EndHolds
<1>12. CASE Telnet!ApplicationResized \/ Telnet!TakeOldSize \/ Telnet!PutNewSize
  BY <1>12 DEF Telnet!ApplicationResized, Telnet!TakeOldSize, Telnet!PutNewSize, EndHolds
<1>13. ASSUME NEW end \in {"client", "host"}, Telnet!Close(end) PROVE EndHolds'
  BY <1>13 DEF Telnet!Close, EndHolds
<1> QED
  BY <1>1, <1>2, <1>3, <1>4, <1>5, <1>6, <1>7, <1>8, <1>9, <1>10, <1>11, <1>12, <1>13
     DEF Telnet!Next, Telnet!ClientStep, Telnet!HostStep

(* A part at the beginning. *)
LEMMA PrefixOf ==
  ASSUME NEW a \in Seq(Bytes), NEW b \in Seq(Bytes)
  PROVE  Telnet!IsPrefix(a, a \o b)
<1>1. PICK c \in Seq(Bytes) : c = a \o b
  <2>1. a \o b \in Seq(Bytes)
    OBVIOUS
  <2> QED
    BY <2>1
<1>2. /\ Len(a) \in Nat /\ Len(b) \in Nat /\ Len(c) = Len(a) + Len(b)
      /\ \A i \in 1..Len(a) : c[i] = a[i]
  <2>1. Len(a) \in Nat /\ Len(b) \in Nat
    OBVIOUS
  <2>2. /\ Len(c) = Len(a) + Len(b)
        /\ \A i \in 1..(Len(a) + Len(b)) : c[i] = IF i <= Len(a) THEN a[i] ELSE b[i - Len(a)]
    BY <1>1, ConcatProperties
  <2>3. \A i \in 1..Len(a) : i \in 1..(Len(a) + Len(b)) /\ i <= Len(a)
    BY <2>1
  <2> QED
    BY <2>1, <2>2, <2>3
<1>3. Len(a) <= Len(c) /\ Len(c) \in Nat
  BY <1>2
<1>4. SubSeq(a, 1, Len(a)) = SubSeq(c, 1, Len(a))
  <2>1. PICK n \in Nat : n = Len(a) /\ n <= Len(c)
    BY <1>2, <1>3
  <2>2. \A i \in 1..n : a[i] \in Bytes /\ c[i] \in Bytes /\ c[i] = a[i]
    BY <1>2, <2>1
  <2>3. PICK s \in Seq(Bytes) : /\ s = SubSeq(c, 1, n) /\ Len(s) = n
                                /\ \A i \in 1..n : s[i] = c[i]
    <3>1. /\ SubSeq(c, 1, n) \in Seq(Bytes)
          /\ Len(SubSeq(c, 1, n)) = IF 1 <= n THEN n - 1 + 1 ELSE 0
          /\ \A i \in 1..(n - 1 + 1) : SubSeq(c, 1, n)[i] = c[1 + i - 1]
      BY <2>2, SubSeqProperties
    <3>2. n - 1 + 1 = n /\ (~(1 <= n) => n = 0) /\ \A i \in 1..n : 1 + i - 1 = i
      OBVIOUS
    <3> QED
      BY <3>1, <3>2
  <2>4. s = a
    <3>1. Len(s) = Len(a) /\ \A i \in 1..Len(s) : s[i] = a[i]
      BY <2>1, <2>2, <2>3
    <3> QED
      BY <3>1, SeqEqual
  <2>5. SubSeq(a, 1, Len(a)) = a
    BY SubSeqFull
  <2> QED
    BY <2>1, <2>3, <2>4, <2>5
<1> QED
  BY <1>1, <1>3, <1>4 DEF Telnet!IsPrefix

DataHolds == TelnetTypes /\ CommandKnown /\ ShownArrives /\ TypedArrives /\ EndHolds

(* Nothing was written yet, and the greeting is on its way.                *)
LEMMA DataInit == Init => DataHolds
<1> SUFFICES ASSUME Init PROVE DataHolds
  OBVIOUS
<1> USE DEF Init, Telnet!Init
<1>1. /\ plan \in PlanType /\ OpenSize \in Seq(Bytes)
      /\ Telnet!Joined(plan.greeting, Len(plan.greeting)) \in Silent
  BY ScenarioTyped
<1>2. PICK greeting \in Silent : greeting = Telnet!Joined(plan.greeting, Len(plan.greeting))
  BY <1>1
<1>e. /\ <<>> \in Seq(Bytes) /\ <<>> \in Seq(Seq(Bytes)) /\ <<>> \in Seq(Answers)
      /\ <<>> \in Replies /\ <<>> \in ResizerType /\ "" \in Bytes
      /\ {} \in SUBSET Bytes
  BY DEF Replies, ResizerType, Bytes
<1>p. Telnet!Start \in Parsers /\ Telnet!Start.state = "data"
  BY <1>e DEF Telnet!Start, Parsers
<1>g. greeting \in Seq(Bytes)
  BY DEF Silent
<1>3. wire \in WireType /\ wire.client = greeting /\ wire.host = <<>>
  BY <1>2, <1>e, <1>g DEF WireType
<1>4. /\ client \in ClientType /\ client.parser = Telnet!Start /\ client.pending = <<>>
      /\ client.end = "none"
  BY <1>1, <1>e, <1>p DEF ClientType
<1>5. host \in HostType /\ host.parser = Telnet!Start
  BY <1>e, <1>p DEF HostType
<1>6. /\ log \in LogType /\ log.typed = 0 /\ log.shown = 0
      /\ log.received = <<>> /\ log.read = <<>>
  BY <1>e DEF LogType
<1>7. /\ plan.typed \in Seq(Seq(Bytes)) /\ plan.shown \in Seq(Seq(Bytes))
      /\ 0 <= Len(plan.typed) /\ 0 <= Len(plan.shown)
  BY <1>1 DEF PlanType
<1>8. TelnetTypes
  BY <1>1, <1>3, <1>4, <1>5, <1>6, <1>7, <1>e DEF TelnetTypes
<1>9. CommandKnown /\ EndHolds
  BY <1>4, <1>p DEF CommandKnown, EndHolds
<1>n. <<>> \o <<>> = <<>> /\ (<<>> \o <<>>) \o <<>> = <<>>
  OBVIOUS
<1>10. Telnet!Sent(plan.typed, 0) = <<>> /\ Telnet!Sent(plan.shown, 0) = <<>>
  BY <1>7, SentMore
<1>11. TypedArrives
  <2>1. OnWire(Telnet!Start, <<>>, <<>>)
    BY <1>p, OnWireNothing
  <2> QED
    BY <1>3, <1>5, <1>6, <1>n, <1>10, <1>e, <2>1 DEF TypedArrives
<1>12. ShownArrives
  <2>1. PICK s \in Silent : s = wire.client
    BY <1>3
  <2>2. OnWire(Telnet!Start, s, <<>>)
    BY <1>p DEF Silent, IsSilent, OnWire
  <2> QED
    BY <1>4, <1>6, <1>n, <1>10, <1>e, <2>1, <2>2 DEF ShownArrives
<1> QED
  BY <1>8, <1>9, <1>11, <1>12 DEF DataHolds

(* Every step keeps what was written together with what is read.           *)
LEMMA DataStep == DataHolds /\ [Next]_vars => DataHolds'
<1> SUFFICES ASSUME DataHolds, [Next]_vars PROVE DataHolds'
  OBVIOUS
<1>1. CASE Telnet!Next
  BY <1>1, TelnetTyped, CommandStaysKnown, ShownStep, TypedStep, EndStep DEF DataHolds
<1>2. CASE UNCHANGED telnetVars
  BY <1>2 DEF DataHolds, TelnetTypes, CommandKnown, ShownArrives, TypedArrives, EndHolds, telnetVars
<1> QED
  BY <1>1, <1>2 DEF Next, vars

(* Both sides read what the other one wrote, and a reader is told of the   *)
(* end after all the data: whatever is written, in pieces of any size, and *)
(* whatever is negotiated in between (telnet/stream.go:73-205).            *)
THEOREM DataArrives == Spec => []DataIntact
<1>1. DataHolds => DataIntact
  <2> SUFFICES ASSUME DataHolds PROVE DataIntact
    OBVIOUS
  <2>t. /\ log.received \in Seq(Bytes) /\ client.pending \in Seq(Bytes)
        /\ log.read \in Seq(Bytes) /\ host.parser \in Parsers /\ client.parser \in Parsers
    BY LogTyped, ClientTyped, HostTyped DEF DataHolds, TelnetTypes
  <2>1. PICK d \in Seq(Bytes) :
          /\ (log.received \o client.pending) \o d = Telnet!Sent(plan.shown, log.shown)
          /\ "client" \in open => OnWire(client.parser, wire.client, d)
    BY DEF DataHolds, ShownArrives
  <2>2. PICK e \in Seq(Bytes) :
          OnWire(host.parser, wire.host, e) /\ log.read \o e = Telnet!Sent(plan.typed, log.typed)
    BY DEF DataHolds, TypedArrives
  <2>3. log.received \o client.pending \in Seq(Bytes)
    <3>1. \A a, b \in Seq(Bytes) : a \o b \in Seq(Bytes)
      OBVIOUS
    <3> QED
      BY <2>t, <3>1
  <2>4. Telnet!IsPrefix(log.received \o client.pending, Telnet!Sent(plan.shown, log.shown))
    BY <2>1, <2>3, PrefixOf
  <2>5. Telnet!IsPrefix(log.read, Telnet!Sent(plan.typed, log.typed))
    BY <2>t, <2>2, PrefixOf
  <2>6. ASSUME wire.host = <<>> PROVE log.read = Telnet!Sent(plan.typed, log.typed)
    <3>1. e = <<>>
      BY <2>t, <2>2, <2>6, OnWireNothing
    <3>2. log.read \o <<>> = log.read
      BY <2>t, ConcatNothing
    <3> QED
      BY <2>2, <3>1, <3>2
  <2>7. ASSUME client.end = "returned", "client" \in open, ~log.failed
        PROVE  log.received = Telnet!Sent(plan.shown, log.shown)
    <3>1. wire.client = <<>> /\ client.pending = <<>>
      BY <2>7 DEF DataHolds, EndHolds
    <3>2. d = <<>>
      BY <2>t, <2>1, <2>7, <3>1, OnWireNothing
    <3>3. log.received \o <<>> = log.received
      BY <2>t, ConcatNothing
    <3> QED
      BY <2>1, <3>1, <3>2, <3>3
  <2> QED
    BY <2>4, <2>5, <2>6, <2>7 DEF DataIntact, Telnet!DataIntact, Telnet!EndAfterData
<1> QED
  BY <1>1, DataInit, DataStep, PTL DEF Spec

----------------------------------------------------------------------------
(* Two answers about the same option of the same side. *)
Same(a, b) == a[2] = b[2] /\ Side(a[1]) = Side(b[1])
SupportedAnswer(a) == Supports(Side(a[1]), a[2])

(* An answer and the next one on the same option are not the same. *)
Alternates(s) ==
  \A i, j \in 1..Len(s) :
    /\ i < j /\ SupportedAnswer(s[i]) /\ Same(s[i], s[j])
    /\ \A k \in 1..Len(s) : i < k /\ k < j => ~Same(s[k], s[i])
    => (Yes(s[i][1]) <=> ~Yes(s[j][1]))

(* The last answer about an option says whether it is on. *)
Standing(s, on) ==
  \A i \in 1..Len(s) :
    /\ SupportedAnswer(s[i])
    /\ \A k \in 1..Len(s) : i < k => ~Same(s[k], s[i])
    => (Yes(s[i][1]) <=> s[i][2] \in on[Side(s[i][1])])

(* The answers, with the one that is about to be written. *)
Replied ==
  IF reader # <<>> /\ Head(reader).kind = "command"
  THEN Append(log.answers, Tail(Head(reader).bytes)) ELSE log.answers
Options == [local |-> client.local, remote |-> client.remote]

(* What the client has answered agrees with what is on. *)
NegotiationHolds ==
  /\ Alternates(log.answers) /\ Alternates(Replied)
  /\ client.end = "none" => Standing(Replied, Options)

(* One more answer, which turns its option on or off.                      *)
LEMMA AnswerAppended ==
  ASSUME NEW s \in Seq(Answers), NEW c \in Negotiations, NEW o \in Bytes, NEW on, NEW off,
         Alternates(s), Standing(s, on),
         Supports(Side(c), o) =>
           (Yes(c) <=> o \notin on[Side(c)]) /\ (Yes(c) <=> o \in off[Side(c)]),
         \A p \in Bytes, side \in {"local", "remote"} :
           p # o \/ side # Side(c) => (p \in off[side] <=> p \in on[side])
  PROVE  Alternates(Append(s, <<c, o>>)) /\ Standing(Append(s, <<c, o>>), off)
<1>t. PICK t : t = Append(s, <<c, o>>)
  OBVIOUS
<1>n. PICK n : n = Len(s) + 1
  OBVIOUS
<1>1. /\ t = Append(s, <<c, o>>) /\ n = Len(s) + 1
      /\ n \in Nat /\ Len(s) \in Nat /\ Len(t) = n
      /\ \A i \in 1..Len(s) : t[i] = s[i]
      /\ t[n] = <<c, o>>
  <2>1. <<c, o>> \in Answers
    BY DEF Answers
  <2>2. /\ Len(t) = Len(s) + 1 /\ Len(s) \in Nat
        /\ \A i \in 1..Len(s) : t[i] = s[i]
        /\ t[Len(s) + 1] = <<c, o>>
    BY <2>1, <1>t, AppendProperties
  <2> QED
    BY <1>t, <1>n, <2>2
<1>2. /\ \A i \in 1..Len(t) : i \in 1..Len(s) \/ i = n
      /\ n \in 1..Len(t) /\ \A i \in 1..Len(s) : i \in 1..Len(t) /\ i < n
  BY <1>1
<1>3. t[n][1] = c /\ t[n][2] = o
  BY <1>1
<1>4. \A i \in 1..Len(s) : s[i][1] \in Negotiations /\ s[i][2] \in Bytes
  BY DEF Answers
<1>5. \A d : Side(d) \in {"local", "remote"}
  BY DEF Side
<1>6. Alternates(t)
  <2> SUFFICES ASSUME NEW i \in 1..Len(t), NEW j \in 1..Len(t), i < j, SupportedAnswer(t[i]),
                      Same(t[i], t[j]),
                      \A k \in 1..Len(t) : i < k /\ k < j => ~Same(t[k], t[i])
               PROVE  Yes(t[i][1]) <=> ~Yes(t[j][1])
    BY DEF Alternates
  <2>1. i \in 1..Len(s) /\ t[i] = s[i]
    BY <1>1, <1>2
  <2>2. CASE j \in 1..Len(s)
    <3>1. t[j] = s[j] /\ \A k \in 1..Len(s) : t[k] = s[k] /\ k \in 1..Len(t)
      BY <1>1, <1>2, <2>2
    <3> QED
      BY <2>1, <2>2, <3>1 DEF Alternates
  <2>3. CASE j = n
    <3>1. \A k \in 1..Len(s) : i < k => ~Same(s[k], s[i])
      BY <1>1, <1>2, <2>1, <2>3
    <3>2. Yes(s[i][1]) <=> s[i][2] \in on[Side(s[i][1])]
      BY <2>1, <3>1 DEF Standing
    <3>3. s[i][2] = o /\ Side(s[i][1]) = Side(c)
      BY <1>3, <2>1, <2>3 DEF Same
    <3>4. Supports(Side(c), o)
      BY <2>1, <3>3 DEF SupportedAnswer
    <3>5. Yes(c) <=> o \notin on[Side(c)]
      BY <3>4
    <3>6. Yes(s[i][1]) <=> ~Yes(c)
      BY <3>2, <3>3, <3>5
    <3> QED
      BY <1>3, <2>1, <2>3, <3>6
  <2> QED
    BY <1>2, <2>2, <2>3
<1>7. Standing(t, off)
  <2> SUFFICES ASSUME NEW i \in 1..Len(t), SupportedAnswer(t[i]),
                      \A k \in 1..Len(t) : i < k => ~Same(t[k], t[i])
               PROVE  Yes(t[i][1]) <=> t[i][2] \in off[Side(t[i][1])]
    BY DEF Standing
  <2>1. CASE i = n
    <3>1. Supports(Side(c), o)
      BY <1>3, <2>1 DEF SupportedAnswer
    <3>2. Yes(c) <=> o \in off[Side(c)]
      BY <3>1
    <3> QED
      BY <1>3, <2>1, <3>2
  <2>2. CASE i \in 1..Len(s)
    <3>1. t[i] = s[i] /\ i < n /\ \A k \in 1..Len(s) : t[k] = s[k] /\ k \in 1..Len(t)
      BY <1>1, <1>2, <2>2
    <3>2. Yes(s[i][1]) <=> s[i][2] \in on[Side(s[i][1])]
      <4>1. \A k \in 1..Len(s) : i < k => ~Same(s[k], s[i])
        BY <3>1
      <4>2. SupportedAnswer(s[i])
        BY <3>1
      <4> QED
        BY <2>2, <4>1, <4>2 DEF Standing
    <3>3. s[i][2] # o \/ Side(s[i][1]) # Side(c)
      <4>1. ~Same(t[n], t[i])
        BY <1>2, <3>1
      <4> QED
        BY <1>3, <3>1, <4>1 DEF Same
    <3>4. s[i][2] \in off[Side(s[i][1])] <=> s[i][2] \in on[Side(s[i][1])]
      <4>1. s[i][2] \in Bytes /\ Side(s[i][1]) \in {"local", "remote"}
        BY <1>4, <1>5, <2>2
      <4> QED
        BY <3>3, <4>1
    <3> QED
      BY <3>1, <3>2, <3>4
  <2> QED
    BY <1>2, <2>1, <2>2
<1> QED
  BY <1>1, <1>6, <1>7

(* The property in these words. *)
LEMMA AlternatesIs ==
  ASSUME log.answers \in Seq(Answers), Alternates(log.answers) PROVE AnswersAlternate
<1>1. PICK s \in Seq(Answers) : s = log.answers
  OBVIOUS
<1>2. \A i \in 1..Len(s) : s[i][1] \in Negotiations
  BY DEF Answers
<1>3. Len(s) \in Nat /\ DOMAIN s = 1..Len(s)
  OBVIOUS
<1> SUFFICES ASSUME NEW i \in DOMAIN s, NEW j \in DOMAIN s
             PROVE  LET a == s[i]
                        b == s[j]
                        side == IF a[1] \in {"WILL", "WONT"} THEN {"WILL", "WONT"}
                                ELSE {"DO", "DONT"}
                        supported == IF "WILL" \in side THEN Telnet!SupportsLocal(a[2])
                                     ELSE Telnet!SupportsRemote(a[2])
                        between == {k \in (i + 1)..(j - 1) : s[k][2] = a[2] /\ s[k][1] \in side}
                    IN  i < j /\ supported /\ a[2] = b[2] /\ b[1] \in side /\ between = {}
                          => a[1] # b[1]
  BY <1>1 DEF AnswersAlternate, Telnet!AnswersAlternate
<1> DEFINE a == s[i]
           b == s[j]
           side == IF a[1] \in {"WILL", "WONT"} THEN {"WILL", "WONT"} ELSE {"DO", "DONT"}
           supported == IF "WILL" \in side THEN Telnet!SupportsLocal(a[2])
                        ELSE Telnet!SupportsRemote(a[2])
           between == {k \in (i + 1)..(j - 1) : s[k][2] = a[2] /\ s[k][1] \in side}
<1>4. SUFFICES ASSUME i < j, supported, a[2] = b[2], b[1] \in side, between = {}
               PROVE  a[1] # b[1]
  OBVIOUS
<1>5. \A c \in Negotiations : Side(c) = Side(a[1]) => c \in side
  BY <1>2, <1>3 DEF Side, Negotiations
<1>6. Side(b[1]) = Side(a[1]) /\ a[2] = b[2]
  BY <1>2, <1>3, <1>4 DEF Side, Negotiations
<1>7. SupportedAnswer(a)
  BY <1>4 DEF SupportedAnswer, Supports, Side
<1>8. ASSUME NEW k \in 1..Len(s), i < k, k < j PROVE ~Same(s[k], a)
  <2>1. k \in (i + 1)..(j - 1)
    BY <1>3, <1>8
  <2>2. ~(s[k][2] = a[2] /\ s[k][1] \in side)
    <3> HIDE DEF side, a
    <3> QED
      BY <1>4, <2>1
  <2>3. s[k][1] \in Negotiations
    BY <1>2
  <2> HIDE DEF side, a
  <2> QED
    BY <1>5, <2>2, <2>3 DEF Same
<1>9. Yes(a[1]) <=> ~Yes(b[1])
  <2>1. Same(s[i], s[j])
    BY <1>6 DEF Same
  <2> QED
    BY <1>1, <1>3, <1>4, <1>7, <1>8, <2>1 DEF Alternates
<1> QED
  BY <1>9

(* A request is answered at most once: one step of the reader. *)
LEMMA NegotiationRead ==
  ASSUME TelnetTypes, CommandKnown, NegotiationHolds, Telnet!ReadByte PROVE NegotiationHolds'
<1> DEFINE b == Head(wire.client)
           p == client.parser
           next == [client EXCEPT !.parser = Telnet!Processed(p, b),
                                  !.pending = @ \o Telnet!DataOf(p, b)]
           result == Telnet!Negotiated(client, p.command, b)
<1>t. /\ client \in ClientType /\ log \in LogType /\ log.answers \in Seq(Answers)
      /\ client.local \in SUBSET Bytes /\ client.remote \in SUBSET Bytes
  BY ClientTyped, LogTyped DEF TelnetTypes
<1>1. reader = <<>> /\ client.end = "none" /\ log' = log
  BY DEF Telnet!ReadByte
<1>2. Replied = log.answers
  BY <1>1 DEF Replied
<1>3. Alternates(log.answers) /\ Standing(log.answers, Options)
  BY <1>1, <1>2 DEF NegotiationHolds
<1>4. /\ b \in Bytes /\ next \in ClientType
      /\ \/ /\ p.state = "negotiation" /\ p.command \in Negotiations
            /\ reader' = result.replies
            /\ client' = IF p.command \in {"DO", "DONT"} THEN [next EXCEPT !.local = result.on]
                         ELSE [next EXCEPT !.remote = result.on]
         \/ client' = next /\ (reader' = <<>> \/ Head(reader').kind = "payload")
  BY ReadByteIs
<1>n. next.local = client.local /\ next.remote = client.remote
  BY <1>t DEF ClientType
<1>u. \A on : /\ [next EXCEPT !.local = on].local = on
              /\ [next EXCEPT !.local = on].remote = client.remote
              /\ [next EXCEPT !.remote = on].remote = on
              /\ [next EXCEPT !.remote = on].local = client.local
  <2> HIDE DEF next
  <2> QED
    BY <1>4, <1>n DEF ClientType
<1>5. CASE client' = next /\ (reader' = <<>> \/ Head(reader').kind = "payload")
  <2>1. Options' = Options
    BY <1>5, <1>n DEF Options
  <2>2. Replied' = log.answers
    BY <1>1, <1>5 DEF Replied
  <2> QED
    BY <1>1, <1>3, <2>1, <2>2 DEF NegotiationHolds
<1>6. CASE ~(client' = next /\ (reader' = <<>> \/ Head(reader').kind = "payload"))
  <2>c. PICK c \in Negotiations : c = p.command
    BY <1>4, <1>6
  <2> DEFINE on == IF AnsweredBy(c) = "local" THEN client.local ELSE client.remote
  <2>o. on \in SUBSET Bytes
    BY <1>t
  <2>r. PICK r : r = Telnet!Negotiated(client, c, b)
    OBVIOUS
  <2>1. /\ reader' = r.replies
        /\ client' = IF AnsweredBy(c) = "local" THEN [next EXCEPT !.local = r.on]
                     ELSE [next EXCEPT !.remote = r.on]
    <3> HIDE DEF next, p, b
    <3> QED
      BY <1>4, <1>6, <2>c, <2>r DEF AnsweredBy
  <2>2. /\ AnsweredBy(c) = "local" => client'.local = r.on /\ client'.remote = client.remote
        /\ AnsweredBy(c) # "local" => client'.remote = r.on /\ client'.local = client.local
    <3> HIDE DEF next
    <3> QED
      BY <1>u, <2>1
  <2>3. \/ r.replies = <<>> /\ r.on = on
        \/ \E a \in Negotiations :
             /\ Side(a) = AnsweredBy(c)
             /\ r.replies \in {<<Telnet!Answer(a, b)>>, <<Telnet!Answer(a, b), Telnet!AskSize>>}
             /\ \A o \in Bytes : o # b => (o \in r.on <=> o \in on)
             /\ Supports(Side(a), b) => (Yes(a) <=> b \notin on) /\ (Yes(a) <=> b \in r.on)
    <3> HIDE DEF b
    <3>1. on = IF AnsweredBy(c) = "local" THEN client.local ELSE client.remote
      OBVIOUS
    <3> HIDE DEF on
    <3> QED
      BY <1>4, <2>o, <2>r, <3>1, NegotiatedIs
  <2>4. CASE r.replies = <<>> /\ r.on = on
    <3>1. Options' = Options
      BY <2>2, <2>4 DEF Options
    <3>2. Replied' = log.answers
      BY <1>1, <2>1, <2>4 DEF Replied
    <3> QED
      BY <1>1, <1>3, <3>1, <3>2 DEF NegotiationHolds
  <2>5. ASSUME NEW a \in Negotiations, Side(a) = AnsweredBy(c),
               r.replies \in {<<Telnet!Answer(a, b)>>, <<Telnet!Answer(a, b), Telnet!AskSize>>},
               \A o \in Bytes : o # b => (o \in r.on <=> o \in on),
               Supports(Side(a), b) => (Yes(a) <=> b \notin on) /\ (Yes(a) <=> b \in r.on)
        PROVE  NegotiationHolds'
    <3>1. PICK option \in Bytes : option = b
      BY <1>4
    <3>2. reader' # <<>> /\ Head(reader') = Telnet!Answer(a, option)
      <4>1. PICK m : m = Telnet!Answer(a, option)
        OBVIOUS
      <4>2. reader' \in {<<m>>, <<m, Telnet!AskSize>>}
        BY <2>1, <2>5, <3>1, <4>1
      <4> QED
        BY <4>1, <4>2, MessageTaken
    <3>3. Replied' = Append(log.answers, <<a, option>>)
      <4>1. Head(reader').kind = "command" /\ Tail(Head(reader').bytes) = <<a, option>>
        BY <3>2, CommandBytes
      <4> QED
        BY <1>1, <3>2, <4>1 DEF Replied
    <3>4. PICK before, after : before = Options /\ after = Options'
      OBVIOUS
    <3>5. /\ Supports(Side(a), option) =>
               (Yes(a) <=> option \notin before[Side(a)]) /\ (Yes(a) <=> option \in after[Side(a)])
          /\ \A q \in Bytes, side \in {"local", "remote"} :
               q # option \/ side # Side(a) => (q \in after[side] <=> q \in before[side])
      <4>1. /\ before["local"] = client.local /\ before["remote"] = client.remote
            /\ after["local"] = client'.local /\ after["remote"] = client'.remote
        BY <3>4 DEF Options
      <4>2. AnsweredBy(c) \in {"local", "remote"}
        BY DEF AnsweredBy
      <4>3. on = before[Side(a)] /\ r.on = after[Side(a)]
        BY <2>2, <2>5, <4>1, <4>2
      <4>4. \A side \in {"local", "remote"} : side # Side(a) => after[side] = before[side]
        BY <2>2, <2>5, <4>1, <4>2
      <4> HIDE DEF on, b
      <4> QED
        BY <2>5, <3>1, <4>3, <4>4
    <3>6. Alternates(Replied') /\ Standing(Replied', after)
      <4>1. Standing(log.answers, before)
        BY <1>3, <3>4
      <4>2. PICK s \in Seq(Answers) : s = log.answers /\ Alternates(s) /\ Standing(s, before)
        BY <1>t, <1>3, <4>1
      <4>3. /\ Alternates(Append(s, <<a, option>>))
            /\ Standing(Append(s, <<a, option>>), after)
        BY ONLY <3>1, <3>5, <4>2, a \in Negotiations, option \in Bytes, s \in Seq(Answers),
           AnswerAppended
      <4> QED
        BY <3>3, <4>2, <4>3
    <3>7. Alternates(Replied)' /\ Standing(Replied, Options)' /\ Alternates(log.answers)'
      <4>1. Standing(Replied, Options)' <=> Standing(Replied', Options')
        BY DEF Standing
      <4>2. Alternates(Replied)' <=> Alternates(Replied')
        BY DEF Alternates
      <4> QED
        BY <1>1, <1>3, <3>4, <3>6, <4>1, <4>2
    <3> QED
      BY <3>7 DEF NegotiationHolds
  <2> HIDE DEF on
  <2> QED
    BY <2>3, <2>4, <2>5
<1> QED
  BY <1>5, <1>6

(* The answers go on alternating: one step. *)
LEMMA NegotiationStep ==
  ASSUME TelnetTypes, CommandKnown, NegotiationHolds, Telnet!Next PROVE NegotiationHolds'
<1>t. /\ client \in ClientType /\ log \in LogType /\ reader \in Replies
      /\ log.answers \in Seq(Answers)
  BY LogTyped DEF TelnetTypes
<1>c. /\ \A s : /\ [client EXCEPT !.size = s].local = client.local
                /\ [client EXCEPT !.size = s].remote = client.remote
                /\ [client EXCEPT !.size = s].end = client.end
      /\ \A s : /\ [client EXCEPT !.pending = s].local = client.local
                /\ [client EXCEPT !.pending = s].remote = client.remote
                /\ [client EXCEPT !.pending = s].end = client.end
      /\ \A e : [client EXCEPT !.end = e].end = e
  BY <1>t DEF ClientType
<1>l. /\ \A s : [log EXCEPT !.received = s].answers = log.answers
      /\ \A s : [log EXCEPT !.read = s].answers = log.answers
      /\ [log EXCEPT !.failed = TRUE].answers = log.answers
      /\ [log EXCEPT !.typed = @ + 1].answers = log.answers
      /\ [log EXCEPT !.shown = @ + 1].answers = log.answers
      /\ [log EXCEPT !.resized = @ + 1].answers = log.answers
      /\ \A s : [log EXCEPT !.answers = s].answers = s
  BY <1>t DEF LogType
<1>k. ASSUME Replied' = Replied, log'.answers \in {log.answers, Replied},
             client'.end = client.end,
             client'.local = client.local, client'.remote = client.remote
      PROVE  NegotiationHolds'
  <2>1. Options' = Options
    BY <1>k DEF Options
  <2>2. Alternates(log'.answers)
    BY <1>k DEF NegotiationHolds
  <2>3. Alternates(log.answers)' /\ (Alternates(Replied)' <=> Alternates(Replied'))
        /\ (Standing(Replied, Options)' <=> Standing(Replied', Options'))
    BY <2>2 DEF Alternates, Standing
  <2> QED
    BY <1>k, <2>1, <2>3 DEF NegotiationHolds
<1>i. ASSUME reader' = reader, log'.answers = log.answers PROVE Replied' = Replied
  BY <1>i DEF Replied
<1>1. CASE Telnet!ReadByte
  BY <1>1, NegotiationRead
<1>2. CASE Telnet!ReadSize
  <2>1. Replied = log.answers
    BY <1>2 DEF Telnet!ReadSize, Replied
  <2>2. Head(<<Telnet!Payload(Telnet!Subnegotiation("NAWS", client.size))>>).kind = "payload"
    BY MessageTaken DEF Telnet!Payload
  <2>3. Replied' = log.answers
    BY <1>2, <2>2 DEF Telnet!ReadSize, Replied
  <2> QED
    BY <1>2, <1>k, <2>1, <2>3 DEF Telnet!ReadSize
<1>3. CASE Telnet!Reply
  <2>1. /\ reader # <<>> /\ reader' = Tail(reader) /\ client' = client
        /\ log' = [log EXCEPT !.answers = IF Head(reader).kind = "command"
                                          THEN Append(@, Tail(Head(reader).bytes)) ELSE @]
    BY <1>3 DEF Telnet!Reply
  <2>2. log'.answers = Replied
    BY <1>l, <2>1 DEF Replied
  <2>3. reader' = <<>> \/ Head(reader').kind = "size"
    BY <1>t, <2>1, ReplyTaken, MessageTaken, AskSizeIs
  <2>4. Replied' = log'.answers
    BY <2>3 DEF Replied
  <2> QED
    BY <1>k, <2>1, <2>2, <2>4
<1>4. CASE Telnet!ReplyFails
  <2>1. reader' = <<>> /\ log'.answers = log.answers /\ client'.end = "pending"
    BY <1>4, <1>c, <1>l DEF Telnet!ReplyFails
  <2>2. Replied' = log.answers
    BY <2>1 DEF Replied
  <2>3. Alternates(log.answers)' /\ Alternates(Replied)'
    BY <2>1, <2>2 DEF NegotiationHolds, Alternates
  <2> QED
    BY <2>1, <2>3 DEF NegotiationHolds
<1>5. CASE Telnet!ReadReturns
  BY <1>5, <1>c, <1>l, <1>i, <1>k DEF Telnet!ReadReturns
<1>6. CASE Telnet!ReadEnds
  <2>1. /\ reader' = reader /\ log' = log /\ client'.end # "none"
    BY <1>6, <1>c DEF Telnet!ReadEnds
  <2>2. Replied' = Replied
    BY <1>i, <2>1
  <2>3. Alternates(log.answers)' /\ Alternates(Replied)'
    BY <2>1, <2>2 DEF NegotiationHolds, Alternates
  <2> QED
    BY <2>1, <2>3 DEF NegotiationHolds
<1>7. CASE Telnet!Type \/ Telnet!Show \/ Telnet!SendSize
  BY <1>7, <1>l, <1>i, <1>k DEF Telnet!Type, Telnet!Show, Telnet!SendSize
<1>8. CASE Telnet!StoreSize
  BY <1>8, <1>c, <1>l, <1>i, <1>k DEF Telnet!StoreSize
<1>9. CASE Telnet!HostReadByte
  BY <1>9, <1>l, <1>i, <1>k DEF Telnet!HostReadByte
<1>10. CASE Telnet!ApplicationResized \/ Telnet!TakeOldSize \/ Telnet!PutNewSize
  BY <1>10, <1>i, <1>k DEF Telnet!ApplicationResized, Telnet!TakeOldSize, Telnet!PutNewSize
<1>11. ASSUME NEW end \in {"client", "host"}, Telnet!Close(end) PROVE NegotiationHolds'
  BY <1>11, <1>i, <1>k DEF Telnet!Close
<1> QED
  BY <1>1, <1>2, <1>3, <1>4, <1>5, <1>6, <1>7, <1>8, <1>9, <1>10, <1>11
     DEF Telnet!Next, Telnet!ClientStep, Telnet!HostStep

(* No option is acknowledged twice in the same way, whatever the host asks *)
(* for and in which order: two implementations that answer like this come  *)
(* to rest (telnet/stream.go:207-254).                                     *)
THEOREM AnswersDoAlternate == Spec => []AnswersAlternate
<1>1. Init => NegotiationHolds
  <2> SUFFICES ASSUME Init PROVE NegotiationHolds
    OBVIOUS
  <2>1. reader = <<>> /\ log.answers = <<>>
    BY DEF Init, Telnet!Init
  <2>2. Replied = <<>> /\ 1..Len(<<>>) = {}
    BY <2>1 DEF Replied
  <2> QED
    BY <2>1, <2>2 DEF NegotiationHolds, Alternates, Standing
<1>2. DataHolds /\ NegotiationHolds /\ [Next]_vars => NegotiationHolds'
  <2> SUFFICES ASSUME DataHolds, NegotiationHolds, [Next]_vars PROVE NegotiationHolds'
    OBVIOUS
  <2>1. CASE Telnet!Next
    BY <2>1, NegotiationStep DEF DataHolds
  <2>2. CASE UNCHANGED telnetVars
    <3>1. UNCHANGED <<Replied, Options, log, client>>
      BY <2>2 DEF telnetVars, Replied, Options
    <3> QED
      BY <3>1 DEF NegotiationHolds, Alternates, Standing
  <2> QED
    BY <2>1, <2>2 DEF Next, vars
<1>3. DataHolds /\ NegotiationHolds => AnswersAlternate
  BY AlternatesIs, LogTyped DEF DataHolds, TelnetTypes, NegotiationHolds
<1> QED
  BY <1>1, <1>2, <1>3, DataInit, DataStep, PTL DEF Spec
=============================================================================
