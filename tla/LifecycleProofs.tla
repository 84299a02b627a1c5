-------------------------- MODULE LifecycleProofs ---------------------------
(***************************************************************************)
(* A server forgets nothing that its transports opened, closing is over    *)
(* for every caller at once, and the server implements Ownership: for any  *)
(* number of callers of Connect, NewSession and Close.  The first          *)
(* invariant, IInv, is about what is opened; CloseInv adds what the calls  *)
(* of Close do, and the last part relates the steps to Ownership's.        *)
(***************************************************************************)
EXTENDS LifecycleProperties, TLAPS

(* The steps in which a Close, of the server or of a connection, is at a   *)
(* connection, and those in which it is at a session.                      *)
AtSession(t) == close[t].pc \in {"closeSession", "joinSession", "closeStream", "awaitDone"}
AtConnection(t) ==
  \/ close[t].pc \in {"closeConnection", "joinConnection", "nextSession", "closeOpener",
                      "endConnection", "removeConnection"}
  \/ AtSession(t) /\ close[t].target # "session"

(* What a Close is at and what it still has to close was handed out, and   *)
(* it forgets a connection after it closed the transport connection.       *)
Holds(t) ==
  /\ \A k \in close[t].connections : Connected(k)
  /\ AtConnection(t) => close[t].connection \in Connects /\ Connected(close[t].connection)
  /\ AtSession(t) => close[t].session \in Opens
  /\ close[t].pc \in {"endConnection", "removeConnection"} =>
       opener[close[t].connection] = "closed"

ClosersHold == (\A k \in server.connections : Connected(k)) /\ \A t \in Closes : Holds(t)

(* A session is forgotten after its stream was closed, and what is being   *)
(* opened has no stream yet.                                               *)
LoopsCloseStreams ==
  \A n \in Opens :
    /\ session[n].loop # "none" => open[n].pc = "started"
    /\ session[n].loop \in {"finishing", "done", "removed"} => stream[n] # "open"
    /\ open[n].pc \in {"idle", "opening"} => stream[n] # "open"
    /\ open[n].pc # "idle" => open[n].connection \in Connects

IInv == TypeOK /\ ClosersHold /\ LoopsCloseStreams /\ NothingLeaks

-----------------------------------------------------------------------------
(* Steps of other callers do not take from a Close what it holds: what was *)
(* handed out stays so, and what is closed (server.go:49-75).              *)
LEMMA StillHolds ==
  ASSUME ClosersHold, NEW t \in Closes, close[t] \in CloseType, close'[t] = close[t],
         \A k \in Connects : Connected(k) => Connected(k)',
         \A k \in Connects : Connected(k) /\ opener[k] = "closed" => opener'[k] = "closed"
  PROVE  Holds(t)'
<1>1. /\ Holds(t) /\ AtConnection(t)' = AtConnection(t) /\ AtSession(t)' = AtSession(t)
      /\ close[t].connections \subseteq Connects
  BY DEF ClosersHold, AtConnection, AtSession, CloseType
<1>2. close[t].pc \in {"endConnection", "removeConnection"} => AtConnection(t)
  BY DEF AtConnection
<1> QED
  BY <1>1, <1>2 DEF Holds

(* A step that is no step of a Close leaves every Close what it holds.     *)
LEMMA AllStillHold ==
  ASSUME IInv, UNCHANGED close,
         \A k \in Connects : Connected(k) => Connected(k)',
         \A k \in Connects : Connected(k) /\ opener[k] = "closed" => opener'[k] = "closed",
         \A k \in server'.connections : k \in server.connections \/ Connected(k)'
  PROVE  ClosersHold'
<1>1. \A t \in Closes : Holds(t)'
  BY StillHolds DEF IInv, TypeOK
<1>2. \A k \in server'.connections : Connected(k)'
  BY DEF IInv, TypeOK, ServerType, ClosersHold
<1> QED
  BY <1>1, <1>2 DEF ClosersHold

-----------------------------------------------------------------------------
(* Server.Connect (server.go:36-75).                                       *)
LEMMA ConnectStep ==
  ASSUME IInv, NEW k \in Connects,
         ConnectBegin(k) \/ Dial(k) \/ Track(k) \/ DiscardOpener(k)
  PROVE  IInv'
<1> USE DEF IInv, ConnectFrame
<1>1. TypeOK'
  <2>1. CASE ConnectBegin(k)
    BY <2>1 DEF ConnectBegin, TypeOK, Done
  <2>2. CASE Dial(k)
    BY <2>2 DEF Dial, TypeOK, TransportState, Done
  <2>3. CASE Track(k)
    BY <2>3 DEF Track, TypeOK, ServerType, Done
  <2>4. CASE DiscardOpener(k)
    BY <2>4 DEF DiscardOpener, TypeOK, TransportState, Done
  <2> QED
    BY <2>1, <2>2, <2>3, <2>4
<1>2. /\ \A j \in Connects : Connected(j) => Connected(j)'
      /\ \A j \in Connects : Connected(j) /\ opener[j] = "closed" => opener'[j] = "closed"
      /\ \A j \in server'.connections : j \in server.connections \/ Connected(j)'
      /\ UNCHANGED close
  BY DEF ConnectBegin, Dial, Track, DiscardOpener, TypeOK, ServerType, Connected
<1>3. ClosersHold'
  BY <1>2, AllStillHold
<1>4. LoopsCloseStreams'
  BY DEF ConnectBegin, Dial, Track, DiscardOpener, LoopsCloseStreams
<1>5. NothingLeaks'
  BY DEF ConnectBegin, Dial, Track, DiscardOpener, TypeOK, ServerType, NothingLeaks
<1> QED
  BY <1>1, <1>3, <1>4, <1>5

(* Connection.NewSession (connection.go:54-91).                            *)
LEMMA OpenStep ==
  ASSUME IInv, NEW n \in Opens,
         \/ \E k \in Connects : OpenBegin(n, k)
         \/ OpenStream(n) \/ TrackSession(n) \/ DiscardStream(n) \/ Start(n)
  PROVE  IInv'
<1> USE DEF IInv, OpenFrame
<1> DEFINE k == open[n].connection
<1>1. CASE TrackSession(n)
  <2>1. k \in Connects /\ open[n] \in OpenType /\ connection[k] \in ConnectionType
    BY <1>1 DEF TrackSession, LoopsCloseStreams, TypeOK
  <2>2. CASE StillOpen(connection[k])
    <3>1. /\ connection' = [connection EXCEPT ![k].sessions = @ \cup {n}]
          /\ open' = [open EXCEPT ![n].pc = "tracked"]
          /\ open[n].pc = "opened" /\ UNCHANGED <<stream, session>> /\ OpenFrame
      BY <1>1, <2>2 DEF TrackSession
    <3>2. connection' \in [Connects -> ConnectionType] /\ open' \in [Opens -> OpenType]
      BY <2>1, <3>1 DEF TypeOK, ConnectionType, OpenType
    <3>3. TypeOK'
      BY <3>1, <3>2 DEF TypeOK, Done
    <3>4. LoopsCloseStreams'
      BY <3>1, <2>1 DEF LoopsCloseStreams, TypeOK, OpenType
    <3>5. \A m \in Opens \ {n} :
            /\ open'[m] = open[m] /\ stream'[m] = stream[m]
            /\ \A j \in Connects : m \in connection[j].sessions <=> m \in connection'[j].sessions
      BY <3>1, <2>1 DEF TypeOK, ConnectionType
    <3>6. n \in connection'[open'[n].connection].sessions
      BY <3>1, <2>1 DEF TypeOK, ConnectionType, OpenType
    <3>7. NothingLeaks'
      BY <3>1, <3>5, <3>6 DEF NothingLeaks, LoopsCloseStreams
    <3> QED
      BY <3>1, <3>3, <3>4, <3>7, AllStillHold DEF Connected
  <2>3. CASE ~StillOpen(connection[k])
    <3>1. /\ open' = [open EXCEPT ![n].pc = "discard"]
          /\ open[n].pc = "opened" /\ UNCHANGED <<connection, stream, session>> /\ OpenFrame
      BY <1>1, <2>3 DEF TrackSession
    <3> QED
      BY <3>1, <2>1, AllStillHold
      DEF TypeOK, OpenType, Done, LoopsCloseStreams, NothingLeaks, Connected
  <2> QED
    BY <2>2, <2>3
<1>2. CASE Start(n)
  <2>1. /\ session' = [session EXCEPT ![n].loop = "reading"]
        /\ open' = [open EXCEPT ![n].pc = "started"]
        /\ open[n].pc = "tracked" /\ session[n].loop = "none"
        /\ UNCHANGED <<connection, stream>> /\ OpenFrame
    BY <1>2 DEF Start, LoopsCloseStreams
  <2>2. session' \in [Opens -> SessionType] /\ open' \in [Opens -> OpenType]
    <3>1. [session[n] EXCEPT !.loop = "reading"] \in SessionType
      BY DEF TypeOK, SessionType
    <3>2. [open[n] EXCEPT !.pc = "started"] \in OpenType
      BY DEF TypeOK, OpenType
    <3>3. session \in [Opens -> SessionType] /\ open \in [Opens -> OpenType]
      BY DEF TypeOK
    <3> QED
      BY <2>1, <3>1, <3>2, <3>3
  <2>3. \A m \in Opens : session'[m].once = "done" => Done(m)'
    BY <2>1 DEF TypeOK, SessionType, Done
  <2>4. TypeOK'
    BY <2>1, <2>2, <2>3 DEF TypeOK
  <2>5. LoopsCloseStreams' /\ NothingLeaks'
    BY <2>1 DEF TypeOK, OpenType, SessionType, LoopsCloseStreams, NothingLeaks
  <2> QED
    BY <2>1, <2>4, <2>5, AllStillHold DEF Connected
<1>3. CASE \E j \in Connects : OpenBegin(n, j)
  <2>1. TypeOK'
    BY <1>3 DEF OpenBegin, TypeOK, OpenType, Done
  <2>2. LoopsCloseStreams' /\ NothingLeaks'
    BY <1>3 DEF OpenBegin, TypeOK, OpenType, LoopsCloseStreams, NothingLeaks
  <2> QED
    BY <1>3, <2>1, <2>2, AllStillHold DEF OpenBegin, Connected
<1>4. CASE OpenStream(n)
  <2>1. TypeOK'
    <3>1. open' \in [Opens -> OpenType]
      BY <1>4 DEF OpenStream, TypeOK, OpenType
    <3>2. stream' \in [Opens -> TransportState]
      BY <1>4 DEF OpenStream, TypeOK, TransportState
    <3> QED
      BY <1>4, <3>1, <3>2 DEF OpenStream, OpenFrame, TypeOK, Done
  <2>2. CASE stream' = [stream EXCEPT ![n] = "open"] /\ open' = [open EXCEPT ![n].pc = "opened"]
    <3>1. LoopsCloseStreams'
      BY <1>4, <2>2 DEF OpenStream, TypeOK, OpenType, LoopsCloseStreams
    <3>2. NothingLeaks'
      BY <1>4, <2>2 DEF OpenStream, TypeOK, OpenType, NothingLeaks
    <3> QED
      BY <1>4, <2>1, <3>1, <3>2, AllStillHold DEF OpenStream, Connected
  <2>3. CASE open' = [open EXCEPT ![n].pc = "failed"] /\ UNCHANGED stream
    <3>1. LoopsCloseStreams'
      BY <1>4, <2>3 DEF OpenStream, TypeOK, OpenType, LoopsCloseStreams
    <3>2. NothingLeaks'
      BY <1>4, <2>3 DEF OpenStream, TypeOK, OpenType, NothingLeaks
    <3> QED
      BY <1>4, <2>1, <3>1, <3>2, AllStillHold DEF OpenStream, Connected
  <2> QED
    BY <1>4, <2>2, <2>3 DEF OpenStream
<1>5. CASE DiscardStream(n)
  <2>1. TypeOK'
    BY <1>5 DEF DiscardStream, TypeOK, OpenType, TransportState, Done
  <2>2. LoopsCloseStreams' /\ NothingLeaks'
    BY <1>5 DEF DiscardStream, TypeOK, OpenType, LoopsCloseStreams, NothingLeaks
  <2> QED
    BY <1>5, <2>1, <2>2, AllStillHold DEF DiscardStream, Connected
<1> QED
  BY <1>1, <1>2, <1>3, <1>4, <1>5

(* The end of a read loop (session.go:456-493, connection.go:134-139).     *)
LEMMA LoopStep ==
  ASSUME IInv, NEW n \in Opens, LoopNext(n)
  PROVE  IInv'
<1> USE DEF IInv, LoopNext, LoopFrame
<1>1. TypeOK'
  <2>1. CASE EndLoop(n)
    BY <2>1 DEF EndLoop, TypeOK, SessionType, TransportState, Done
  <2>2. CASE Finish(n)
    BY <2>2 DEF Finish, TypeOK, SessionType, Done
  <2>3. CASE RemoveSession(n)
    <3>1. session' \in [Opens -> SessionType] /\ \A m \in Opens : Done(m) => Done(m)'
      BY <2>3 DEF RemoveSession, TypeOK, SessionType, Done
    <3>2. connection' \in [Connects -> ConnectionType]
      <4> DEFINE k == open[n].connection
      <4>1. connection' = [connection EXCEPT ![k].sessions = @ \ {n}]
        BY <2>3 DEF RemoveSession
      <4>2. connection \in [Connects -> ConnectionType]
        BY DEF TypeOK
      <4> HIDE DEF k
      <4>3. ASSUME k \in Connects
            PROVE  [connection[k] EXCEPT !.sessions = @ \ {n}] \in ConnectionType
        BY <4>2, <4>3 DEF ConnectionType
      <4> QED
        BY <4>1, <4>2, <4>3
    <3>3. \A m \in Opens : session'[m].once = session[m].once
      BY <2>3 DEF RemoveSession, TypeOK, SessionType
    <3> QED
      BY <2>3, <3>1, <3>2, <3>3 DEF RemoveSession, TypeOK
  <2> QED
    BY <2>1, <2>2, <2>3
<1>2. ClosersHold'
  BY AllStillHold DEF EndLoop, Finish, RemoveSession, Connected
<1>3. LoopsCloseStreams'
  BY DEF EndLoop, Finish, RemoveSession, TypeOK, SessionType, LoopsCloseStreams
<1>4. NothingLeaks'
  <2>1. CASE EndLoop(n)
    BY <2>1 DEF EndLoop, TypeOK, NothingLeaks
  <2>2. CASE Finish(n)
    BY <2>2 DEF Finish, NothingLeaks
  <2>3. CASE RemoveSession(n)
    BY <2>3 DEF RemoveSession, TypeOK, ConnectionType, LoopsCloseStreams, NothingLeaks
  <2> QED
    BY <2>1, <2>2, <2>3
<1> QED
  BY <1>1, <1>2, <1>3, <1>4

-----------------------------------------------------------------------------
(* A step of Close opens nothing, tracks nothing, and forgets only what is *)
(* closed (server.go:77-123, connection.go:94-132, session.go:394-414).    *)
OnlyCloses(t) ==
  /\ UNCHANGED <<connect, open>>
  /\ \A u \in Closes \ {t} : close'[u] = close[u]
  /\ \A k \in Connects : /\ opener'[k] \in {opener[k], "closed"}
                         /\ connection'[k].sessions = connection[k].sessions
  /\ \A n \in Opens : stream'[n] \in {stream[n], "closed"} /\ session'[n].loop = session[n].loop
  /\ server'.connections \subseteq server.connections
  /\ \A k \in server.connections : k \in server'.connections \/ opener'[k] = "closed"

(* Such a step keeps the invariant when it keeps its own Close and the     *)
(* types (server.go:77-123, connection.go:94-132).                         *)
LEMMA ClosingKeeps ==
  ASSUME IInv, NEW t \in Closes, OnlyCloses(t), TypeOK', Holds(t)'
  PROVE  IInv'
<1>1. \A k \in Connects : Connected(k) => Connected(k)'
  BY DEF OnlyCloses, Connected
<1>2. \A k \in Connects : Connected(k) /\ opener[k] = "closed" => opener'[k] = "closed"
  BY DEF OnlyCloses
<1>3. ASSUME NEW u \in Closes
      PROVE  Holds(u)'
  <2>1. CASE u = t
    BY <2>1
  <2>2. CASE u # t
    BY <1>1, <1>2, <2>2, StillHolds DEF OnlyCloses, IInv, TypeOK
  <2> QED
    BY <2>1, <2>2
<1>4. ClosersHold'
  BY <1>1, <1>3 DEF OnlyCloses, ClosersHold, IInv, TypeOK, ServerType
<1>5. LoopsCloseStreams'
  BY DEF OnlyCloses, IInv, LoopsCloseStreams
<1>6. NothingLeaks'
  <2>1. ASSUME NEW k \in Connects, opener'[k] = "open"
        PROVE  connect'[k] \in {"dialed", "discard"} \/ k \in server'.connections
    BY <2>1 DEF OnlyCloses, IInv, NothingLeaks
  <2>2. ASSUME NEW n \in Opens, stream'[n] = "open"
        PROVE  \/ open'[n].pc \in {"opened", "discard"}
               \/ n \in connection'[open'[n].connection].sessions
    BY <2>2 DEF OnlyCloses, IInv, NothingLeaks, LoopsCloseStreams
  <2> QED
    BY <2>1, <2>2 DEF NothingLeaks
<1> QED
  BY <1>4, <1>5, <1>6 DEF IInv

(* What a step of t makes of its Close, c, is all a step of Close needs to *)
(* state (server.go:77-123, connection.go:94-132, session.go:394-414).     *)
LEMMA ClosingTyped ==
  ASSUME IInv, NEW t \in Closes, NEW c \in CloseType, close' = [close EXCEPT ![t] = c],
         UNCHANGED <<connect, open>>, server' \in ServerType,
         opener' \in [Connects -> TransportState],
         connection' \in [Connects -> ConnectionType],
         stream' \in [Opens -> TransportState], session' \in [Opens -> SessionType],
         \A n \in Opens : session'[n].once = "done" => Done(n)'
  PROVE  TypeOK' /\ close'[t] = c /\ \A u \in Closes \ {t} : close'[u] = close[u]
BY DEF IInv, TypeOK

(* What the invariant says of one Close and of the records it reads        *)
(* (server.go:77-123, connection.go:94-132).                               *)
LEMMA AtTypes ==
  ASSUME IInv, NEW t \in Closes
  PROVE  /\ close[t] \in CloseType /\ close[t].connections \subseteq Connects
         /\ close[t].sessions \subseteq Opens
         /\ \A k \in close[t].connections : Connected(k)
         /\ \A k \in server.connections : k \in Connects /\ Connected(k)
         /\ AtConnection(t) => close[t].connection \in Connects /\ Connected(close[t].connection)
         /\ AtSession(t) => close[t].session \in Opens
         /\ close[t].pc \in {"endConnection", "removeConnection"} =>
              opener[close[t].connection] = "closed"
         /\ server \in ServerType
         /\ \A k \in Connects : connection[k] \in ConnectionType
         /\ \A n \in Opens : session[n] \in SessionType
BY DEF IInv, TypeOK, ClosersHold, Holds, CloseType, ServerType

(* A Close that leaves a connection is done with it (connection.go:119-132,*)
(* server.go:99-107).                                                      *)
LEMMA LeavesConnection ==
  ASSUME IInv, NEW t \in Closes, NEW err \in BOOLEAN, ConnectionClosed(t, err)
  PROVE  \E c \in CloseType :
           /\ close' = [close EXCEPT ![t] = c] /\ c.connections = close[t].connections
           /\ c.pc \in {"returned", "nextConnection"}
<1> DEFINE to(pc, b) == [close[t] EXCEPT !.pc = pc, !.result = b]
<1>1. \A pc \in {"returned", "nextConnection"}, b \in BOOLEAN :
        /\ to(pc, b) \in CloseType /\ to(pc, b).pc = pc
        /\ to(pc, b).connections = close[t].connections
  <2> SUFFICES ASSUME NEW pc \in {"returned", "nextConnection"}, NEW b \in BOOLEAN
               PROVE  /\ to(pc, b) \in CloseType /\ to(pc, b).pc = pc
                      /\ to(pc, b).connections = close[t].connections
    OBVIOUS
  <2>1. close[t] \in CloseType
    BY AtTypes
  <2>2. [close[t] EXCEPT !.pc = pc] \in CloseType
    BY <2>1 DEF CloseType
  <2> QED
    BY <2>1, <2>2 DEF CloseType
<1>2. CASE close[t].target = "connection"
  <2>1. close' = [close EXCEPT ![t] = to("returned", err)]
    BY <1>2 DEF ConnectionClosed
  <2> HIDE DEF to
  <2> QED
    BY <1>1, <2>1
<1>3. CASE close[t].target # "connection"
  <2>1. close' = [close EXCEPT ![t] = to("nextConnection", close[t].result \/ err)]
    BY <1>3 DEF ConnectionClosed
  <2>2. (close[t].result \/ err) \in BOOLEAN
    OBVIOUS
  <2> HIDE DEF to
  <2> QED
    BY <1>1, <2>1, <2>2
<1> QED
  BY <1>2, <1>3

(* And one that leaves a session goes on with its connection               *)
(* (connection.go:113-117, session.go:397-413).                            *)
LEMMA LeavesSession ==
  ASSUME IInv, NEW t \in Closes, NEW err \in BOOLEAN, SessionClosed(t, err), AtSession(t)
  PROVE  \E c \in CloseType :
           /\ close' = [close EXCEPT ![t] = c] /\ c.connections = close[t].connections
           /\ c.connection = close[t].connection
           /\ c.pc = "nextSession" => AtConnection(t)
           /\ c.pc \in {"returned", "nextSession"}
<1>1. CASE close[t].target = "session"
  <2> DEFINE c == [close[t] EXCEPT !.pc = "returned", !.result = err]
  <2>1. /\ c \in CloseType /\ c.connections = close[t].connections
        /\ c.connection = close[t].connection /\ c.pc = "returned"
    BY AtTypes DEF CloseType
  <2>2. close' = [close EXCEPT ![t] = c]
    BY <1>1 DEF SessionClosed
  <2> HIDE DEF c
  <2> QED
    BY <2>1, <2>2
<1>2. CASE close[t].target # "session"
  <2> DEFINE to(b) == [close[t] EXCEPT !.pc = "nextSession", !.failed = b]
  <2>1. \A b \in BOOLEAN :
          /\ to(b) \in CloseType /\ to(b).connections = close[t].connections
          /\ to(b).connection = close[t].connection /\ to(b).pc = "nextSession"
    BY AtTypes DEF CloseType
  <2>2. close' = [close EXCEPT ![t] = to(close[t].failed \/ err)]
    BY <1>2 DEF SessionClosed
  <2>3. (close[t].failed \/ err) \in BOOLEAN
    OBVIOUS
  <2> HIDE DEF to
  <2> QED
    BY <1>2, <2>1, <2>2, <2>3 DEF AtConnection
<1> QED
  BY <1>1, <1>2

(* Close of the server (server.go:77-123).                                 *)
LEMMA CloseServerStep ==
  ASSUME IInv, NEW t \in Closes,
         CloseServer(t) \/ JoinServer(t) \/ NextConnection(t) \/ RemoveConnection(t)
  PROVE  IInv'
<1>1. CASE CloseServer(t) /\ server.closed
  <2> DEFINE c == [close[t] EXCEPT !.pc = "joinServer", !.target = "server"]
  <2>1. c \in CloseType /\ c.pc = "joinServer" /\ c.connections = close[t].connections
    BY AtTypes DEF CloseType
  <2>2. close' = [close EXCEPT ![t] = c]
    BY <1>1 DEF CloseServer, IInv, TypeOK
  <2> HIDE DEF c
  <2>3. UNCHANGED <<server, connect, opener, connection, open, stream, session>>
    BY <1>1 DEF CloseServer
  <2>4. TypeOK' /\ close'[t] = c /\ \A u \in Closes \ {t} : close'[u] = close[u]
    BY <2>1, <2>2, <2>3, ClosingTyped DEF IInv, TypeOK, Done
  <2>5. Holds(t)'
    BY <2>1, <2>3, <2>4, AtTypes DEF Holds, AtConnection, AtSession, Connected
  <2>6. OnlyCloses(t)
    BY <2>3, <2>4 DEF OnlyCloses
  <2> QED
    BY <2>4, <2>5, <2>6, ClosingKeeps
<1>2. CASE CloseServer(t) /\ ~server.closed
  <2> DEFINE c == [close[t] EXCEPT !.pc = "nextConnection", !.target = "server",
                                   !.connections = server.connections]
  <2>1. c \in CloseType /\ c.pc = "nextConnection" /\ c.connections = server.connections
    BY AtTypes DEF CloseType, ServerType
  <2>2. close' = [close EXCEPT ![t] = c]
    BY <1>2 DEF CloseServer, IInv, TypeOK
  <2> HIDE DEF c
  <2>3. /\ UNCHANGED <<connect, opener, connection, open, stream, session>>
        /\ server' \in ServerType /\ server'.connections = server.connections
    BY <1>2, AtTypes DEF CloseServer, ServerType
  <2>4. TypeOK' /\ close'[t] = c /\ \A u \in Closes \ {t} : close'[u] = close[u]
    BY <2>1, <2>2, <2>3, ClosingTyped DEF IInv, TypeOK, Done
  <2>5. Holds(t)'
    BY <2>1, <2>3, <2>4, AtTypes DEF Holds, AtConnection, AtSession, Connected
  <2>6. OnlyCloses(t)
    BY <2>3, <2>4 DEF OnlyCloses
  <2> QED
    BY <2>4, <2>5, <2>6, ClosingKeeps
<1>3. CASE JoinServer(t)
  <2> DEFINE c == [close[t] EXCEPT !.pc = "returned", !.result = server.closeErr]
  <2>1. c \in CloseType /\ c.pc = "returned" /\ c.connections = close[t].connections
    BY AtTypes DEF CloseType, ServerType
  <2>2. close' = [close EXCEPT ![t] = c]
    BY <1>3 DEF JoinServer, IInv, TypeOK
  <2> HIDE DEF c
  <2>3. UNCHANGED <<server, connect, opener, connection, open, stream, session>>
    BY <1>3 DEF JoinServer
  <2>4. TypeOK' /\ close'[t] = c /\ \A u \in Closes \ {t} : close'[u] = close[u]
    BY <2>1, <2>2, <2>3, ClosingTyped DEF IInv, TypeOK, Done
  <2>5. Holds(t)'
    BY <2>1, <2>3, <2>4, AtTypes DEF Holds, AtConnection, AtSession, Connected
  <2>6. OnlyCloses(t)
    BY <2>3, <2>4 DEF OnlyCloses
  <2> QED
    BY <2>4, <2>5, <2>6, ClosingKeeps
<1>4. CASE NextConnection(t) /\ close[t].connections = {}
  <2> DEFINE c == [close[t] EXCEPT !.pc = "returned"]
  <2>1. c \in CloseType /\ c.pc = "returned" /\ c.connections = close[t].connections
    BY AtTypes DEF CloseType
  <2>2. close' = [close EXCEPT ![t] = c]
    BY <1>4 DEF NextConnection, IInv, TypeOK
  <2> HIDE DEF c
  <2>3. /\ UNCHANGED <<connect, opener, connection, open, stream, session>>
        /\ server' \in ServerType /\ server'.connections = server.connections
    BY <1>4, AtTypes DEF NextConnection, ServerType, CloseType
  <2>4. TypeOK' /\ close'[t] = c /\ \A u \in Closes \ {t} : close'[u] = close[u]
    BY <2>1, <2>2, <2>3, ClosingTyped DEF IInv, TypeOK, Done
  <2>5. Holds(t)'
    BY <2>1, <2>3, <2>4, AtTypes DEF Holds, AtConnection, AtSession, Connected
  <2>6. OnlyCloses(t)
    BY <2>3, <2>4 DEF OnlyCloses
  <2> QED
    BY <2>4, <2>5, <2>6, ClosingKeeps
<1>5. CASE NextConnection(t) /\ close[t].connections # {}
  <2>0. PICK k \in close[t].connections :
          /\ close' = [close EXCEPT ![t].pc = "closeConnection", ![t].connection = k,
                                    ![t].connections = @ \ {k}]
          /\ UNCHANGED <<server, connect, opener, connection, open, stream, session>>
    BY <1>5 DEF NextConnection
  <2> DEFINE c == [close[t] EXCEPT !.pc = "closeConnection", !.connection = k,
                                   !.connections = @ \ {k}]
  <2>1. /\ c \in CloseType /\ c.pc = "closeConnection" /\ c.connection = k
        /\ c.connections \subseteq close[t].connections
        /\ k \in Connects
    BY AtTypes DEF CloseType
  <2>2. close' = [close EXCEPT ![t] = c]
    BY <2>0 DEF IInv, TypeOK
  <2> HIDE DEF c
  <2>4. TypeOK' /\ close'[t] = c /\ \A u \in Closes \ {t} : close'[u] = close[u]
    BY <2>0, <2>1, <2>2, ClosingTyped DEF IInv, TypeOK, Done
  <2>5. Holds(t)'
    BY <2>0, <2>1, <2>4, AtTypes DEF Holds, AtConnection, AtSession, Connected
  <2>6. OnlyCloses(t)
    BY <2>0, <2>4 DEF OnlyCloses
  <2> QED
    BY <2>4, <2>5, <2>6, ClosingKeeps
<1>6. CASE RemoveConnection(t)
  <2>0. PICK c \in CloseType :
          /\ close' = [close EXCEPT ![t] = c] /\ c.connections = close[t].connections
          /\ c.pc \in {"returned", "nextConnection"}
    BY <1>6, AtTypes, LeavesConnection DEF RemoveConnection, CloseType
  <2>3. /\ UNCHANGED <<connect, opener, connection, open, stream, session>>
        /\ server' \in ServerType
        /\ server'.connections = server.connections \ {close[t].connection}
        /\ opener[close[t].connection] = "closed"
    BY <1>6, AtTypes DEF RemoveConnection, ServerType
  <2>4. TypeOK' /\ close'[t] = c /\ \A u \in Closes \ {t} : close'[u] = close[u]
    BY <2>0, <2>3, ClosingTyped DEF IInv, TypeOK, Done
  <2>5. Holds(t)'
    BY <2>0, <2>3, <2>4, AtTypes DEF Holds, AtConnection, AtSession, Connected
  <2>6. OnlyCloses(t)
    BY <2>3, <2>4 DEF OnlyCloses
  <2> QED
    BY <2>4, <2>5, <2>6, ClosingKeeps
<1> QED
  BY <1>1, <1>2, <1>3, <1>4, <1>5, <1>6

(* Close of a connection (connection.go:94-132).                           *)
LEMMA CloseConnectionStep ==
  ASSUME IInv, NEW t \in Closes,
         \/ \E k \in Connects : CloseConnection(t, k)
         \/ JoinConnection(t) \/ NextSession(t) \/ CloseOpener(t) \/ EndConnection(t)
  PROVE  IInv'
<1>1. CASE \E k \in Connects : CloseConnection(t, k)
  <2>0. PICK k \in Connects : CloseConnection(t, k)
    BY <1>1
  <2> DEFINE c == [close[t] EXCEPT
                     !.pc = IF connection[k].closed THEN "joinConnection" ELSE "nextSession",
                     !.target = IF close[t].pc = "idle" THEN "connection" ELSE close[t].target,
                     !.connection = k, !.failed = FALSE, !.sessions = connection[k].sessions]
  <2>1. /\ c \in CloseType /\ c.pc \in {"joinConnection", "nextSession"} /\ c.connection = k
        /\ c.connections = close[t].connections
    <3>1. close[t] \in CloseType /\ connection[k].sessions \subseteq Opens
      BY AtTypes DEF ConnectionType
    <3>2. (IF close[t].pc = "idle" THEN "connection" ELSE close[t].target)
            \in {"none", "server", "connection", "session"}
      BY <3>1 DEF CloseType
    <3>3. (IF connection[k].closed THEN "joinConnection" ELSE "nextSession")
            \in {"joinConnection", "nextSession"}
      OBVIOUS
    <3> QED
      BY <3>1, <3>2, <3>3, ZenonT(40) DEF CloseType
  <2>2. close' = [close EXCEPT ![t] = c]
    BY <2>0 DEF CloseConnection
  <2> HIDE DEF c
  <2>3. /\ UNCHANGED <<server, connect, opener, open, stream, session>>
        /\ connection' \in [Connects -> ConnectionType]
        /\ \A j \in Connects : connection'[j].sessions = connection[j].sessions
        /\ Connected(k)
    <3>1. /\ UNCHANGED <<server, connect, opener, open, stream, session>>
          /\ connection' = [connection EXCEPT ![k].closed = TRUE]
      BY <2>0 DEF CloseConnection
    <3>2. connection \in [Connects -> ConnectionType]
      BY DEF IInv, TypeOK
    <3>3. Connected(k)
      BY <2>0, AtTypes DEF CloseConnection, AtConnection, Connected
    <3> QED
      BY <3>1, <3>2, <3>3 DEF ConnectionType
  <2>4. TypeOK' /\ close'[t] = c /\ \A u \in Closes \ {t} : close'[u] = close[u]
    BY <2>1, <2>2, <2>3, ClosingTyped DEF IInv, TypeOK, Done
  <2>5. Holds(t)'
    BY <2>1, <2>3, <2>4, AtTypes DEF Holds, AtConnection, AtSession, Connected
  <2>6. OnlyCloses(t)
    BY <2>3, <2>4 DEF OnlyCloses
  <2> QED
    BY <2>4, <2>5, <2>6, ClosingKeeps
<1>2. CASE JoinConnection(t)
  <2>0. PICK c \in CloseType :
          /\ close' = [close EXCEPT ![t] = c] /\ c.connections = close[t].connections
          /\ c.pc \in {"returned", "nextConnection"}
    <3>1. close[t].connection \in Connects
      BY <1>2, AtTypes DEF JoinConnection, AtConnection
    <3> QED
      BY <1>2, <3>1, AtTypes, LeavesConnection DEF JoinConnection, ConnectionType
  <2>3. UNCHANGED <<server, connect, opener, connection, open, stream, session>>
    BY <1>2 DEF JoinConnection
  <2>4. TypeOK' /\ close'[t] = c /\ \A u \in Closes \ {t} : close'[u] = close[u]
    BY <2>0, <2>3, ClosingTyped DEF IInv, TypeOK, Done
  <2>5. Holds(t)'
    BY <2>0, <2>3, <2>4, AtTypes DEF Holds, AtConnection, AtSession, Connected
  <2>6. OnlyCloses(t)
    BY <2>3, <2>4 DEF OnlyCloses
  <2> QED
    BY <2>4, <2>5, <2>6, ClosingKeeps
<1>3. CASE NextSession(t)
  <2>0. PICK c \in CloseType :
          /\ close' = [close EXCEPT ![t] = c]
          /\ c.connections = close[t].connections /\ c.connection = close[t].connection
          /\ \/ c.pc = "closeOpener"
             \/ c.pc = "closeSession" /\ c.session \in Opens
    <3> DEFINE ends == [close[t] EXCEPT !.pc = "closeOpener"]
    <3> DEFINE goes(n) == [close[t] EXCEPT !.pc = "closeSession", !.session = n,
                                           !.sessions = @ \ {n}]
    <3>1. /\ ends \in CloseType /\ ends.pc = "closeOpener"
          /\ ends.connections = close[t].connections /\ ends.connection = close[t].connection
      BY AtTypes DEF CloseType
    <3>2. \A n \in close[t].sessions :
            /\ goes(n) \in CloseType /\ goes(n).pc = "closeSession" /\ goes(n).session = n
            /\ goes(n).connections = close[t].connections
            /\ goes(n).connection = close[t].connection /\ n \in Opens
      BY AtTypes, ZenonT(40) DEF CloseType
    <3>3. \/ close' = [close EXCEPT ![t] = ends]
          \/ \E n \in close[t].sessions : close' = [close EXCEPT ![t] = goes(n)]
      BY <1>3 DEF NextSession, IInv, TypeOK
    <3> HIDE DEF ends, goes
    <3> QED
      BY <3>1, <3>2, <3>3
  <2>3. /\ UNCHANGED <<server, connect, opener, connection, open, stream, session>>
        /\ AtConnection(t)
    BY <1>3 DEF NextSession, AtConnection
  <2>4. TypeOK' /\ close'[t] = c /\ \A u \in Closes \ {t} : close'[u] = close[u]
    BY <2>0, <2>3, ClosingTyped DEF IInv, TypeOK, Done
  <2>5. Holds(t)'
    BY <2>0, <2>3, <2>4, AtTypes DEF Holds, AtConnection, AtSession, Connected
  <2>6. OnlyCloses(t)
    BY <2>3, <2>4 DEF OnlyCloses
  <2> QED
    BY <2>4, <2>5, <2>6, ClosingKeeps
<1>4. CASE CloseOpener(t)
  <2>0. PICK failed \in BOOLEAN :
          close' = [close EXCEPT ![t].pc = "endConnection", ![t].failed = @ \/ failed]
    BY <1>4 DEF CloseOpener
  <2> DEFINE c == [close[t] EXCEPT !.pc = "endConnection", !.failed = @ \/ failed]
  <2>1. /\ c \in CloseType /\ c.pc = "endConnection" /\ c.connection = close[t].connection
        /\ c.connections = close[t].connections
    BY AtTypes DEF CloseType
  <2>2. close' = [close EXCEPT ![t] = c]
    BY <2>0 DEF IInv, TypeOK
  <2> HIDE DEF c
  <2>3. /\ UNCHANGED <<server, connect, connection, open, stream, session>>
        /\ AtConnection(t) /\ opener' = [opener EXCEPT ![close[t].connection] = "closed"]
    BY <1>4 DEF CloseOpener, AtConnection
  <2>4. /\ opener' \in [Connects -> TransportState] /\ opener'[close[t].connection] = "closed"
        /\ \A k \in Connects : opener'[k] \in {opener[k], "closed"}
    BY <2>3, AtTypes DEF IInv, TypeOK, TransportState
  <2>5. TypeOK' /\ close'[t] = c /\ \A u \in Closes \ {t} : close'[u] = close[u]
    BY <2>1, <2>2, <2>3, <2>4, ClosingTyped DEF IInv, TypeOK, Done
  <2>6. Holds(t)'
    BY <2>1, <2>3, <2>4, <2>5, AtTypes DEF Holds, AtConnection, AtSession, Connected
  <2>7. OnlyCloses(t)
    BY <2>3, <2>4, <2>5 DEF OnlyCloses
  <2> QED
    BY <2>5, <2>6, <2>7, ClosingKeeps
<1>5. CASE EndConnection(t)
  <2> DEFINE c == [close[t] EXCEPT !.pc = "removeConnection"]
  <2>1. /\ c \in CloseType /\ c.pc = "removeConnection" /\ c.connection = close[t].connection
        /\ c.connections = close[t].connections
    BY AtTypes DEF CloseType
  <2>2. close' = [close EXCEPT ![t] = c]
    BY <1>5 DEF EndConnection, IInv, TypeOK
  <2> HIDE DEF c
  <2>3. /\ UNCHANGED <<server, connect, opener, open, stream, session>>
        /\ AtConnection(t) /\ close[t].pc = "endConnection"
    BY <1>5 DEF EndConnection, AtConnection
  <2>4. /\ connection' \in [Connects -> ConnectionType]
        /\ \A k \in Connects : connection'[k].sessions = connection[k].sessions
    <3> DEFINE k == close[t].connection
    <3> DEFINE ended(b) == [connection[k] EXCEPT !.closeDone = TRUE, !.closeErr = b]
    <3>1. k \in Connects /\ connection[k] \in ConnectionType
      BY <2>3, AtTypes
    <3>2. \A b \in BOOLEAN :
            ended(b) \in ConnectionType /\ ended(b).sessions = connection[k].sessions
      BY <3>1 DEF ConnectionType
    <3>3. connection' = [connection EXCEPT ![k] = ended(close[t].failed)]
      BY <1>5 DEF EndConnection, IInv, TypeOK
    <3>4. close[t].failed \in BOOLEAN
      BY AtTypes DEF CloseType
    <3> HIDE DEF ended
    <3> QED
      BY <3>1, <3>2, <3>3, <3>4 DEF IInv, TypeOK
  <2>5. TypeOK' /\ close'[t] = c /\ \A u \in Closes \ {t} : close'[u] = close[u]
    BY <2>1, <2>2, <2>3, <2>4, ClosingTyped DEF IInv, TypeOK, Done
  <2>6. Holds(t)'
    BY <2>1, <2>3, <2>5, AtTypes DEF Holds, AtConnection, AtSession, Connected
  <2>7. OnlyCloses(t)
    BY <2>3, <2>4, <2>5 DEF OnlyCloses
  <2> QED
    BY <2>5, <2>6, <2>7, ClosingKeeps
<1> QED
  BY <1>1, <1>2, <1>3, <1>4, <1>5

(* Close of a session (session.go:394-414).                                *)
LEMMA CloseSessionStep ==
  ASSUME IInv, NEW t \in Closes,
         \/ \E n \in Opens : CloseSession(t, n)
         \/ CloseStream(t) \/ AwaitDone(t) \/ JoinSession(t)
  PROVE  IInv'
<1>1. CASE \E n \in Opens : CloseSession(t, n)
  <2>0. PICK n \in Opens : CloseSession(t, n)
    BY <1>1
  <2> DEFINE c == [close[t] EXCEPT
                     !.pc = IF session[n].once = "new" THEN "closeStream" ELSE "joinSession",
                     !.target = IF close[t].pc = "idle" THEN "session" ELSE close[t].target,
                     !.session = n]
  <2>1. /\ c \in CloseType /\ c.pc \in {"closeStream", "joinSession"} /\ c.session = n
        /\ c.connections = close[t].connections /\ c.connection = close[t].connection
        /\ c.target # "session" => close[t].pc # "idle" /\ close[t].target = c.target
    BY AtTypes, ZenonT(40) DEF CloseType
  <2>2. close' = [close EXCEPT ![t] = c]
    BY <2>0 DEF CloseSession
  <2> HIDE DEF c
  <2>3. /\ UNCHANGED <<server, connect, opener, connection, open, stream>>
        /\ close[t].pc # "idle" => AtSession(t)
        /\ session' = [session EXCEPT ![n].once = IF @ = "new" THEN "running" ELSE @]
    BY <2>0 DEF CloseSession, AtSession
  <2>4. /\ session' \in [Opens -> SessionType]
        /\ \A m \in Opens : /\ session'[m].loop = session[m].loop
                            /\ session'[m].once = "done" => session[m].once = "done"
    BY <2>3, AtTypes DEF IInv, TypeOK, SessionType
  <2>5. TypeOK' /\ close'[t] = c /\ \A u \in Closes \ {t} : close'[u] = close[u]
    <3>1. \A m \in Opens : session'[m].once = "done" => Done(m)'
      BY <2>4 DEF IInv, TypeOK, Done
    <3> QED
      BY <2>1, <2>2, <2>3, <2>4, <3>1, ClosingTyped DEF IInv, TypeOK
  <2>6. Holds(t)'
    BY <2>1, <2>3, <2>5, AtTypes DEF Holds, AtConnection, AtSession, Connected
  <2>7. OnlyCloses(t)
    BY <2>3, <2>4, <2>5 DEF OnlyCloses
  <2> QED
    BY <2>5, <2>6, <2>7, ClosingKeeps
<1>2. CASE CloseStream(t)
  <2> DEFINE c == [close[t] EXCEPT !.pc = "awaitDone"]
  <2> DEFINE n == close[t].session
  <2>1. /\ c \in CloseType /\ c.pc = "awaitDone" /\ c.connection = close[t].connection
        /\ c.connections = close[t].connections /\ c.session = n /\ c.target = close[t].target
    BY AtTypes DEF CloseType
  <2>2. close' = [close EXCEPT ![t] = c]
    BY <1>2 DEF CloseStream, IInv, TypeOK
  <2> HIDE DEF c
  <2>3. /\ UNCHANGED <<server, connect, opener, connection, open>>
        /\ AtSession(t) /\ n \in Opens
        /\ stream' = [stream EXCEPT ![n] = "closed"]
        /\ \E failed \in BOOLEAN : session' = [session EXCEPT ![n].closeErr = failed]
    BY <1>2, AtTypes DEF CloseStream, AtSession
  <2>4. /\ session' \in [Opens -> SessionType] /\ stream' \in [Opens -> TransportState]
        /\ \A m \in Opens : /\ stream'[m] \in {stream[m], "closed"}
                            /\ session'[m].loop = session[m].loop
                            /\ session'[m].once = session[m].once
    BY <2>3, AtTypes DEF IInv, TypeOK, SessionType, TransportState
  <2>5. TypeOK' /\ close'[t] = c /\ \A u \in Closes \ {t} : close'[u] = close[u]
    <3>1. \A m \in Opens : session'[m].once = "done" => Done(m)'
      BY <2>4 DEF IInv, TypeOK, Done
    <3> QED
      BY <2>1, <2>2, <2>3, <2>4, <3>1, ClosingTyped DEF IInv, TypeOK
  <2>6. Holds(t)'
    BY <2>1, <2>3, <2>5, AtTypes DEF Holds, AtConnection, AtSession, Connected
  <2>7. OnlyCloses(t)
    BY <2>3, <2>4, <2>5 DEF OnlyCloses
  <2> QED
    BY <2>5, <2>6, <2>7, ClosingKeeps
<1>3. CASE AwaitDone(t)
  <2> DEFINE n == close[t].session
  <2>0. PICK c \in CloseType :
          /\ close' = [close EXCEPT ![t] = c] /\ c.connections = close[t].connections
          /\ c.connection = close[t].connection
          /\ c.pc = "nextSession" => AtConnection(t)
          /\ c.pc \in {"returned", "nextSession"}
    <3>1. AtSession(t) /\ n \in Opens
      BY <1>3, AtTypes DEF AwaitDone, AtSession
    <3> QED
      BY <1>3, <3>1, AtTypes, LeavesSession DEF AwaitDone, SessionType
  <2>3. /\ UNCHANGED <<server, connect, opener, connection, open, stream>>
        /\ AtSession(t) /\ n \in Opens /\ Done(n)
        /\ session' = [session EXCEPT ![n].once = "done"]
    BY <1>3, AtTypes DEF AwaitDone, AtSession
  <2>4. /\ session' \in [Opens -> SessionType]
        /\ \A m \in Opens : /\ session'[m].loop = session[m].loop
                            /\ m # n => session'[m].once = session[m].once
    BY <2>3, AtTypes DEF IInv, TypeOK, SessionType
  <2>5. TypeOK' /\ close'[t] = c /\ \A u \in Closes \ {t} : close'[u] = close[u]
    <3>1. \A m \in Opens : session'[m].once = "done" => Done(m)'
      BY <2>3, <2>4 DEF IInv, TypeOK, Done
    <3> QED
      BY <2>0, <2>3, <2>4, <3>1, ClosingTyped DEF IInv, TypeOK
  <2>6. Holds(t)'
    BY <2>0, <2>3, <2>5, AtTypes DEF Holds, AtConnection, AtSession, Connected
  <2>7. OnlyCloses(t)
    BY <2>3, <2>4, <2>5 DEF OnlyCloses
  <2> QED
    BY <2>5, <2>6, <2>7, ClosingKeeps
<1>4. CASE JoinSession(t)
  <2>0. PICK c \in CloseType :
          /\ close' = [close EXCEPT ![t] = c] /\ c.connections = close[t].connections
          /\ c.connection = close[t].connection
          /\ c.pc = "nextSession" => AtConnection(t)
          /\ c.pc \in {"returned", "nextSession"}
    <3>1. AtSession(t) /\ close[t].session \in Opens
      BY <1>4, AtTypes DEF JoinSession, AtSession
    <3> QED
      BY <1>4, <3>1, AtTypes, LeavesSession DEF JoinSession, SessionType
  <2>3. UNCHANGED <<server, connect, opener, connection, open, stream, session>>
    BY <1>4 DEF JoinSession
  <2>4. TypeOK' /\ close'[t] = c /\ \A u \in Closes \ {t} : close'[u] = close[u]
    BY <2>0, <2>3, ClosingTyped DEF IInv, TypeOK, Done
  <2>5. Holds(t)'
    BY <2>0, <2>3, <2>4, AtTypes DEF Holds, AtConnection, AtSession, Connected
  <2>6. OnlyCloses(t)
    BY <2>3, <2>4 DEF OnlyCloses
  <2> QED
    BY <2>4, <2>5, <2>6, ClosingKeeps
<1> QED
  BY <1>1, <1>2, <1>3, <1>4

-----------------------------------------------------------------------------
(* The invariant that the theorems rest on (server.go:36-123,              *)
(* connection.go:54-139, session.go:394-414, 456-493).                     *)
LEMMA Invariance == Spec => []IInv
<1>1. Init => IInv
  <2> SUFFICES ASSUME Init PROVE IInv
    OBVIOUS
  <2>1. TypeOK
    BY DEF Init, TypeOK, ServerType, ConnectionType, OpenType, SessionType, CloseType,
       TransportState, Done
  <2>2. ClosersHold /\ LoopsCloseStreams /\ NothingLeaks
    BY DEF Init, ClosersHold, Holds, AtConnection, AtSession, LoopsCloseStreams, NothingLeaks
  <2> QED
    BY <2>1, <2>2 DEF IInv
<1>2. IInv /\ [Next]_vars => IInv'
  <2> SUFFICES ASSUME IInv, [Next]_vars PROVE IInv'
    OBVIOUS
  <2>1. CASE UNCHANGED vars
    BY <2>1 DEF vars, IInv, TypeOK, Done, ClosersHold, Holds, AtConnection, AtSession, Connected,
       LoopsCloseStreams, NothingLeaks
  <2>2. CASE Next
    BY <2>2, ConnectStep, OpenStep, LoopStep, CloseServerStep, CloseConnectionStep,
       CloseSessionStep
    DEF Next, CloseNext
  <2> QED
    BY <2>1, <2>2
<1> QED
  BY <1>1, <1>2, PTL DEF Spec

(* Whatever a transport opened, a connection or a session, is closed or in *)
(* the hands of its parent or of the call that opened it, although the     *)
(* calls that open and close race without a lock (server.go:49-75,         *)
(* connection.go:66-91).                                                   *)
THEOREM NothingIsLeaked == Spec => []NothingLeaks
<1>1. IInv => NothingLeaks
  BY DEF IInv
<1> QED
  BY <1>1, Invariance, PTL

(* Every variable keeps its type, and a closeOnce that has run saw the     *)
(* read loop end (server.go:13-24, connection.go:37-47, session.go:397).   *)
THEOREM LifecycleTypes == Spec => []TypeOK
<1>1. IInv => TypeOK
  BY DEF IInv
<1> QED
  BY <1>1, Invariance, PTL

-----------------------------------------------------------------------------

(* The calls of Close that do the work: of the server, of a connection and *)
(* of a session.  The other calls of Close wait for them.                  *)
RunsServer(t) ==
  close[t].target = "server" /\ close[t].pc \notin {"idle", "joinServer", "returned"}
RunsConnection(t) ==
  \/ close[t].pc \in {"nextSession", "closeOpener", "endConnection"}
  \/ AtSession(t) /\ close[t].target # "session"
RunsSession(t) == close[t].pc \in {"closeStream", "awaitDone"}

ConnectionOver(k) == opener[k] = "closed" /\ \A n \in SessionsOf(k) : Done(n)

(* Whom each Close works for, and that nobody else has done its work.      *)
Works(t) ==
  /\ close[t].pc = "idle" <=> close[t].target = "none"
  /\ close[t].pc \in {"joinServer", "nextConnection", "closeConnection"} =>
       close[t].target = "server"
  /\ AtConnection(t) => close[t].target \in {"connection", "server"}
  /\ RunsServer(t) => server.closed /\ ~server.closeDone
  /\ RunsConnection(t) =>
       connection[close[t].connection].closed /\ ~connection[close[t].connection].closeDone
  /\ RunsSession(t) => session[close[t].session].once = "running"
  /\ close[t].pc = "removeConnection" =>
       /\ connection[close[t].connection].closeDone
       /\ connection[close[t].connection].closeErr = close[t].failed

(* What is left to close is on the list of the Close that runs.            *)
Lists(t) ==
  /\ RunsServer(t) =>
       \A k \in Connects :
         Connected(k) => \/ connection[k].closeDone \/ k \in close[t].connections
                         \/ AtConnection(t) /\ close[t].connection = k
  /\ RunsConnection(t) =>
       \A n \in SessionsOf(close[t].connection) :
         \/ Done(n)
         \/ close[t].pc \notin {"closeOpener", "endConnection"} /\ n \in close[t].sessions
         \/ AtSession(t) /\ close[t].session = n

(* What a caller of Close was told.                                        *)
Told(t) ==
  close[t].pc = "returned" =>
    /\ close[t].target = "server" => server.closeDone /\ close[t].result = server.closeErr
    /\ close[t].target = "connection" =>
         /\ close[t].connection \in Connects
         /\ connection[close[t].connection].closeDone
         /\ close[t].result = connection[close[t].connection].closeErr
    /\ close[t].target = "session" =>
         /\ close[t].session \in Opens /\ session[close[t].session].once = "done"
         /\ close[t].result = session[close[t].session].closeErr

(* No two calls of Close do the same work.                                 *)
Alone(t, u) ==
  /\ ~(RunsServer(t) /\ RunsServer(u))
  /\ RunsConnection(t) /\ RunsConnection(u) => close[t].connection # close[u].connection
  /\ RunsSession(t) /\ RunsSession(u) => close[t].session # close[u].session

(* What is known of the connections and sessions themselves.               *)
Over ==
  /\ server.closeDone =>
       server.closed /\ \A k \in Connects : Connected(k) => connection[k].closeDone
  /\ \A k \in Connects : /\ connection[k].closeDone =>
                              connection[k].closed /\ Connected(k) /\ ConnectionOver(k)
                         /\ Connected(k) => k \in server.connections \/ connection[k].closeDone
  /\ \A n \in Opens : /\ open[n].pc = "opened" \/ Tracked(n) => stream[n] # "none"
                      /\ Tracked(n) => Done(n) \/ n \in connection[open[n].connection].sessions

CloseInv ==
  /\ IInv /\ Over
  /\ \A t \in Closes : Works(t) /\ Lists(t) /\ Told(t)
  /\ \A t, u \in Closes : t # u => Alone(t, u)

-----------------------------------------------------------------------------
(* Steps of other callers do not undo what a Close did: closed is for ever, *)
(* and what is closed gets no children (server.go:57, connection.go:75).   *)
Persists ==
  /\ server.closed => server'.closed /\ \A k \in Connects : Connected(k)' => Connected(k)
  /\ server.closeDone => server'.closeDone /\ server'.closeErr = server.closeErr
  /\ \A k \in Connects :
       /\ connection[k].closed => connection'[k].closed /\ SessionsOf(k)' \subseteq SessionsOf(k)
       /\ connection[k].closeDone =>
            connection'[k].closeDone /\ connection'[k].closeErr = connection[k].closeErr
  /\ \A n \in Opens :
       /\ Done(n) => Done(n)'
       /\ session[n].once = "done" =>
            session'[n].once = "done" /\ session'[n].closeErr = session[n].closeErr

(* Nobody does the work of u for it.                                       *)
Spares(u) ==
  /\ RunsServer(u) => ~server'.closeDone
  /\ RunsConnection(u) => ~connection'[close[u].connection].closeDone
  /\ RunsSession(u) => session'[close[u].session].once = "running"

(* A Close that does no step keeps all that is said of it.                 *)
LEMMA StillWorks ==
  ASSUME CloseInv, NEW u \in Closes, close'[u] = close[u], Persists, Spares(u)
  PROVE  Works(u)' /\ Lists(u)' /\ Told(u)'
<1>1. /\ AtConnection(u)' = AtConnection(u) /\ AtSession(u)' = AtSession(u)
      /\ RunsServer(u)' = RunsServer(u) /\ RunsConnection(u)' = RunsConnection(u)
      /\ RunsSession(u)' = RunsSession(u)
  BY DEF AtConnection, AtSession, RunsServer, RunsConnection, RunsSession
<1>2. /\ Works(u) /\ Lists(u) /\ Told(u) /\ IInv
      /\ RunsConnection(u) => AtConnection(u) /\ close[u].connection \in Connects
      /\ RunsSession(u) => close[u].session \in Opens
      /\ close[u].pc = "removeConnection" => close[u].connection \in Connects
  BY AtTypes DEF CloseInv, RunsConnection, RunsSession, AtConnection, AtSession
<1>3. Works(u)'
  BY <1>1, <1>2 DEF Works, Persists, Spares
<1>4. Lists(u)'
  <2>1. ASSUME RunsServer(u), NEW k \in Connects, Connected(k)'
        PROVE  \/ connection'[k].closeDone \/ k \in close[u].connections
               \/ AtConnection(u) /\ close[u].connection = k
    BY <1>2, <2>1 DEF Lists, Works, Persists
  <2>2. ASSUME RunsConnection(u), NEW n \in SessionsOf(close[u].connection)'
        PROVE  \/ Done(n)'
               \/ close[u].pc \notin {"closeOpener", "endConnection"} /\ n \in close[u].sessions
               \/ AtSession(u) /\ close[u].session = n
    <3>1. n \in SessionsOf(close[u].connection) /\ n \in Opens
      BY <1>2, <2>2 DEF Works, Persists, SessionsOf
    <3> QED
      BY <1>2, <2>2, <3>1 DEF Lists, Persists
  <2> QED
    BY <1>1, <2>1, <2>2 DEF Lists
<1>5. Told(u)'
  BY <1>2 DEF Told, Persists
<1> QED
  BY <1>3, <1>4, <1>5

(* A step that is no step of a Close.                                      *)
LEMMA OpenerStep ==
  ASSUME CloseInv, IInv', UNCHANGED close, Persists, Over',
         server'.closeDone = server.closeDone,
         \A k \in Connects : connection'[k].closeDone = connection[k].closeDone,
         \A n \in Opens : session'[n].once = session[n].once
  PROVE  CloseInv'
<1>1. ASSUME NEW u \in Closes
      PROVE  Works(u)' /\ Lists(u)' /\ Told(u)'
  <2>1. Spares(u)
    BY AtTypes
    DEF CloseInv, Works, Spares, RunsConnection, RunsSession, AtConnection, AtSession
  <2> QED
    BY <2>1, StillWorks
<1>2. ASSUME NEW t \in Closes, NEW u \in Closes, t # u
      PROVE  Alone(t, u)'
  BY <1>2 DEF CloseInv, Alone, RunsServer, RunsConnection, RunsSession, AtSession
<1> QED
  BY <1>1, <1>2 DEF CloseInv

(* A step of the Close of t.                                               *)
LEMMA CloserStep ==
  ASSUME CloseInv, IInv', NEW t \in Closes, Persists, Over',
         \A u \in Closes \ {t} : close'[u] = close[u] /\ Spares(u) /\ Alone(t, u)',
         Works(t)', Lists(t)', Told(t)'
  PROVE  CloseInv'
<1>1. ASSUME NEW u \in Closes
      PROVE  Works(u)' /\ Lists(u)' /\ Told(u)'
  BY StillWorks
<1>2. ASSUME NEW u \in Closes, NEW v \in Closes, u # v
      PROVE  Alone(u, v)'
  <2>1. CASE u = t
    BY <1>2, <2>1
  <2>2. CASE v = t
    BY <1>2, <2>2 DEF Alone
  <2>3. CASE u # t /\ v # t
    BY <1>2, <2>3 DEF CloseInv, Alone, RunsServer, RunsConnection, RunsSession, AtSession
  <2> QED
    BY <2>1, <2>2, <2>3
<1> QED
  BY <1>1, <1>2 DEF CloseInv

-----------------------------------------------------------------------------
(* Server.Connect (server.go:36-75).                                       *)
LEMMA ConnectCloses ==
  ASSUME CloseInv, NEW k \in Connects,
         ConnectBegin(k) \/ Dial(k) \/ Track(k) \/ DiscardOpener(k)
  PROVE  CloseInv'
<1>1. IInv' /\ UNCHANGED <<close, connection, open, stream, session>>
  BY ConnectStep
  DEF CloseInv, ConnectBegin, Dial, Track, DiscardOpener, ConnectFrame
<1>2. /\ server'.closed = server.closed /\ server'.closeDone = server.closeDone
      /\ server'.closeErr = server.closeErr /\ server.connections \subseteq server'.connections
      /\ \A j \in Connects :
           /\ Connected(j) => Connected(j)'
           /\ Connected(j)' => Connected(j) \/ j \in server'.connections
           /\ Connected(j)' /\ server.closed => Connected(j)
           /\ Connected(j) => opener'[j] = opener[j]
           /\ opener[j] = "closed" /\ Connected(j) => opener'[j] = "closed"
  <2>1. CASE ConnectBegin(k)
    BY <2>1 DEF ConnectBegin, Connected, CloseInv, IInv, TypeOK
  <2>2. CASE Dial(k)
    BY <2>2 DEF Dial, Connected, CloseInv, IInv, TypeOK
  <2>3. CASE Track(k)
    BY <2>3 DEF Track, StillOpen, Connected, CloseInv, IInv, TypeOK, ServerType
  <2>4. CASE DiscardOpener(k)
    BY <2>4 DEF DiscardOpener, Connected, CloseInv, IInv, TypeOK
  <2> QED
    BY <2>1, <2>2, <2>3, <2>4
<1>3. /\ \A j \in Connects : SessionsOf(j)' = SessionsOf(j)
      /\ \A n \in Opens : Done(n)' = Done(n) /\ Tracked(n)' = Tracked(n)
  BY <1>1 DEF SessionsOf, Tracked, Done
<1>4. Persists
  BY <1>1, <1>2, <1>3 DEF Persists
<1>5. \A j \in Connects : connection[j].closeDone => opener'[j] = "closed"
  BY <1>2 DEF CloseInv, Over, ConnectionOver
<1>6. Over'
  <2>1. ASSUME NEW j \in Connects
        PROVE  /\ connection'[j].closeDone =>
                    connection'[j].closed /\ Connected(j)' /\ ConnectionOver(j)'
               /\ Connected(j)' => j \in server'.connections \/ connection'[j].closeDone
    BY <1>1, <1>2, <1>3, <1>5 DEF CloseInv, Over, ConnectionOver, SessionsOf
  <2>2. server'.closeDone =>
          server'.closed /\ \A j \in Connects : Connected(j)' => connection'[j].closeDone
    BY <1>1, <1>2 DEF CloseInv, Over
  <2>3. ASSUME NEW n \in Opens
        PROVE  /\ open'[n].pc = "opened" \/ Tracked(n)' => stream'[n] # "none"
               /\ Tracked(n)' => Done(n)' \/ n \in connection'[open'[n].connection].sessions
    BY <1>1, <1>3 DEF CloseInv, Over
  <2> QED
    BY <2>1, <2>2, <2>3 DEF Over
<1> QED
  BY <1>1, <1>2, <1>4, <1>6, OpenerStep

(* Connection.NewSession (connection.go:54-91).                            *)
LEMMA OpenCloses ==
  ASSUME CloseInv, NEW n \in Opens,
         \/ \E k \in Connects : OpenBegin(n, k)
         \/ OpenStream(n) \/ TrackSession(n) \/ DiscardStream(n) \/ Start(n)
  PROVE  CloseInv'
<1>1. IInv' /\ UNCHANGED <<server, connect, opener, close>>
  BY OpenStep
  DEF CloseInv, OpenBegin, OpenStream, TrackSession, DiscardStream, Start, OpenFrame
<1>2. /\ \A k \in Connects :
           /\ connection'[k].closed = connection[k].closed
           /\ connection'[k].closeDone = connection[k].closeDone
           /\ connection'[k].closeErr = connection[k].closeErr
           /\ connection[k].sessions \subseteq connection'[k].sessions
      /\ \A m \in Opens : /\ session'[m].once = session[m].once
                          /\ session'[m].closeErr = session[m].closeErr
                          /\ m # n => /\ open'[m] = open[m] /\ session'[m] = session[m]
                                      /\ stream'[m] = stream[m]
      /\ stream'[n] = "none" => stream[n] = "none"
  <2> USE DEF CloseInv, IInv, TypeOK, OpenBegin, OpenStream, TrackSession, DiscardStream,
              Start, OpenFrame
  <2>1. \A k \in Connects :
          /\ connection'[k].closed = connection[k].closed
          /\ connection'[k].closeDone = connection[k].closeDone
          /\ connection'[k].closeErr = connection[k].closeErr
          /\ connection[k].sessions \subseteq connection'[k].sessions
    <3>1. connection \in [Connects -> ConnectionType]
      OBVIOUS
    <3>2. \/ connection' = connection
          \/ \E j : connection' = [connection EXCEPT ![j].sessions = @ \cup {n}]
      OBVIOUS
    <3> QED
      BY <3>1, <3>2 DEF ConnectionType
  <2>2. \A m \in Opens : /\ session'[m].once = session[m].once
                         /\ session'[m].closeErr = session[m].closeErr
                         /\ m # n => session'[m] = session[m]
    BY DEF SessionType
  <2>3. \A m \in Opens : m # n => open'[m] = open[m] /\ stream'[m] = stream[m]
    OBVIOUS
  <2>4. stream'[n] = "none" => stream[n] = "none"
    OBVIOUS
  <2> QED
    BY <2>1, <2>2, <2>3, <2>4
<1>3. /\ Done(n) => Done(n)'
      /\ Tracked(n) => /\ Tracked(n)' /\ open'[n].connection = open[n].connection
      /\ Tracked(n)' /\ ~Tracked(n) => /\ open[n].pc = "opened"
                                       /\ open'[n].connection = open[n].connection
                                       /\ ~connection[open[n].connection].closed
                                       /\ n \in connection'[open[n].connection].sessions
      /\ open'[n].pc = "opened" => stream'[n] # "none"
  <2>1. CASE \E k \in Connects : OpenBegin(n, k)
    BY <2>1 DEF OpenBegin, Tracked, Done, CloseInv, IInv, TypeOK, OpenType
  <2>2. CASE OpenStream(n)
    BY <2>2 DEF OpenStream, Tracked, Done, CloseInv, IInv, TypeOK, OpenType
  <2>3. CASE TrackSession(n)
    BY <2>3 DEF TrackSession, StillOpen, Tracked, Done, CloseInv, IInv, LoopsCloseStreams, TypeOK,
       OpenType, ConnectionType
  <2>4. CASE DiscardStream(n)
    BY <2>4 DEF DiscardStream, Tracked, Done, CloseInv, IInv, TypeOK, OpenType
  <2>5. CASE Start(n)
    BY <2>5 DEF Start, Tracked, Done, CloseInv, IInv, LoopsCloseStreams, TypeOK, OpenType
  <2> QED
    BY <2>1, <2>2, <2>3, <2>4, <2>5
<1>4. \A m \in Opens \ {n} : Done(m)' = Done(m) /\ Tracked(m)' = Tracked(m)
  BY <1>2 DEF Done, Tracked
<1>5. \A k \in Connects : connection[k].closed => SessionsOf(k)' \subseteq SessionsOf(k)
  BY <1>2, <1>3, <1>4 DEF SessionsOf
<1>6. Persists
  BY <1>1, <1>2, <1>3, <1>4, <1>5 DEF Persists, Connected
<1>7. Over'
  <2>1. ASSUME NEW k \in Connects
        PROVE  /\ connection'[k].closeDone =>
                    connection'[k].closed /\ Connected(k)' /\ ConnectionOver(k)'
               /\ Connected(k)' => k \in server'.connections \/ connection'[k].closeDone
    BY <1>1, <1>2, <1>3, <1>4, <1>5 DEF CloseInv, Over, ConnectionOver, Connected, SessionsOf
  <2>2. ASSUME NEW m \in Opens
        PROVE  /\ open'[m].pc = "opened" \/ Tracked(m)' => stream'[m] # "none"
               /\ Tracked(m)' => Done(m)' \/ m \in connection'[open'[m].connection].sessions
    <3>1. Tracked(m) => open[m].connection \in Connects
      BY DEF CloseInv, IInv, LoopsCloseStreams, Tracked
    <3>2. CASE m = n
      BY <1>2, <1>3, <3>1, <3>2 DEF CloseInv, Over
    <3>3. CASE m # n
      BY <1>2, <1>4, <3>1, <3>3 DEF CloseInv, Over
    <3> QED
      BY <3>2, <3>3
  <2> QED
    BY <1>1, <1>2, <2>1, <2>2 DEF CloseInv, Over, Connected
<1> QED
  BY <1>1, <1>2, <1>6, <1>7, OpenerStep

(* The end of a read loop (session.go:456-493, connection.go:134-139).     *)
LEMMA LoopCloses ==
  ASSUME CloseInv, NEW n \in Opens, LoopNext(n)
  PROVE  CloseInv'
<1>1. IInv' /\ UNCHANGED <<server, connect, opener, open, close>>
  BY LoopStep DEF CloseInv, LoopNext, EndLoop, Finish, RemoveSession, LoopFrame
<1>2. /\ \A k \in Connects :
           /\ connection'[k].closed = connection[k].closed
           /\ connection'[k].closeDone = connection[k].closeDone
           /\ connection'[k].closeErr = connection[k].closeErr
           /\ \A m \in Opens \ {n} : m \in connection'[k].sessions <=> m \in connection[k].sessions
      /\ \A m \in Opens : /\ session'[m].once = session[m].once
                          /\ session'[m].closeErr = session[m].closeErr
                          /\ m # n => session'[m] = session[m] /\ stream'[m] = stream[m]
                          /\ stream'[m] = "none" => stream[m] = "none"
  <2>1. CASE EndLoop(n)
    BY <2>1 DEF EndLoop, CloseInv, IInv, TypeOK, SessionType
  <2>2. CASE Finish(n)
    BY <2>2 DEF Finish, CloseInv, IInv, TypeOK, SessionType
  <2>3. CASE RemoveSession(n)
    BY <2>3 DEF RemoveSession, CloseInv, IInv, TypeOK, ConnectionType, SessionType
  <2> QED
    BY <2>1, <2>2, <2>3 DEF LoopNext
<1>3. /\ Done(n) => Done(n)'
      /\ Done(n)' \/ UNCHANGED connection
  BY DEF CloseInv, IInv, TypeOK, SessionType, LoopNext, EndLoop, Finish, RemoveSession, Done
<1>4. /\ \A m \in Opens : Tracked(m)' = Tracked(m)
      /\ \A k \in Connects : SessionsOf(k)' = SessionsOf(k)
      /\ \A m \in Opens \ {n} : Done(m)' = Done(m)
  BY <1>1, <1>2 DEF Tracked, SessionsOf, Done
<1>5. Persists
  BY <1>1, <1>2, <1>3, <1>4 DEF Persists, Connected
<1>6. Over'
  <2>1. ASSUME NEW k \in Connects
        PROVE  /\ connection'[k].closeDone =>
                    connection'[k].closed /\ Connected(k)' /\ ConnectionOver(k)'
               /\ Connected(k)' => k \in server'.connections \/ connection'[k].closeDone
    BY <1>1, <1>2, <1>3, <1>4 DEF CloseInv, Over, ConnectionOver, Connected, SessionsOf
  <2>2. ASSUME NEW m \in Opens
        PROVE  /\ open'[m].pc = "opened" \/ Tracked(m)' => stream'[m] # "none"
               /\ Tracked(m)' => Done(m)' \/ m \in connection'[open'[m].connection].sessions
    <3>1. Tracked(m) => open[m].connection \in Connects
      BY DEF CloseInv, IInv, LoopsCloseStreams, Tracked
    <3> QED
      BY <1>1, <1>2, <1>3, <1>4, <3>1 DEF CloseInv, Over
  <2> QED
    BY <1>1, <1>2, <2>1, <2>2 DEF CloseInv, Over, Connected
<1> QED
  BY <1>1, <1>2, <1>5, <1>6, OpenerStep

-----------------------------------------------------------------------------
(* A step of the Close of t that touches only t (server.go:79-86, 96-99,   *)
(* connection.go:96-104, 113, session.go:397).                             *)
LEMMA QuietStep ==
  ASSUME CloseInv, IInv', NEW t \in Closes,
         UNCHANGED <<server, connect, opener, connection, open, stream, session>>,
         \A u \in Closes \ {t} : close'[u] = close[u],
         RunsServer(t)' => RunsServer(t),
         RunsConnection(t)' =>
           RunsConnection(t) /\ close'[t].connection = close[t].connection,
         RunsSession(t)' => RunsSession(t) /\ close'[t].session = close[t].session,
         Works(t)', Lists(t)', Told(t)'
  PROVE  CloseInv'
<1>1. Persists
  BY DEF Persists, Connected, SessionsOf, Tracked, Done
<1>2. Over'
  BY DEF CloseInv, Over, ConnectionOver, Connected, SessionsOf, Tracked, Done
<1>3. ASSUME NEW u \in Closes \ {t}
      PROVE  Spares(u) /\ Alone(t, u)'
  <2>1. Spares(u)
    BY DEF CloseInv, Works, Spares
  <2>2. Alone(t, u)
    BY DEF CloseInv
  <2>3. Alone(t, u)'
    BY <2>2 DEF Alone, RunsServer, RunsConnection, RunsSession, AtSession
  <2> QED
    BY <2>1, <2>3
<1> QED
  BY <1>1, <1>2, <1>3, CloserStep

(* Close of the server (server.go:77-123).                                 *)
LEMMA CloseServerCloses ==
  ASSUME CloseInv, NEW t \in Closes,
         CloseServer(t) \/ JoinServer(t) \/ NextConnection(t) \/ RemoveConnection(t)
  PROVE  CloseInv'
<1> USE DEF RunsServer, RunsConnection, RunsSession, AtConnection, AtSession
<1>1. IInv /\ IInv' /\ Over /\ Works(t) /\ Lists(t)
  BY CloseServerStep DEF CloseInv
<1>2. CASE CloseServer(t) /\ server.closed
  <2>1. /\ close'[t].pc = "joinServer" /\ close'[t].target = "server"
        /\ \A u \in Closes \ {t} : close'[u] = close[u]
        /\ UNCHANGED <<server, connect, opener, connection, open, stream, session>>
    BY <1>1, <1>2 DEF CloseServer, IInv, TypeOK, CloseType
  <2> QED
    BY <1>1, <2>1, QuietStep DEF Works, Lists, Told
<1>3. CASE CloseServer(t) /\ ~server.closed
  <2>1. /\ close'[t].pc = "nextConnection" /\ close'[t].target = "server"
        /\ close'[t].connections = server.connections
        /\ \A u \in Closes \ {t} : close'[u] = close[u]
        /\ server'.closed /\ server'.closeDone = server.closeDone
        /\ server'.connections = server.connections
        /\ UNCHANGED <<connect, opener, connection, open, stream, session>>
    BY <1>1, <1>3 DEF CloseServer, IInv, TypeOK, CloseType, ServerType
  <2>2. ~server.closeDone
    BY <1>1, <1>3 DEF Over
  <2>3. Persists
    BY <1>3, <2>1, <2>2 DEF Persists, SessionsOf, Tracked, Done
  <2>4. Over'
    BY <1>1, <2>1, <2>2 DEF Over, ConnectionOver, Connected, SessionsOf, Tracked, Done
  <2>5. ASSUME NEW u \in Closes \ {t}
        PROVE  Spares(u) /\ Alone(t, u)'
    BY <1>3, <2>1, <2>2 DEF CloseInv, Works, Spares, Alone
  <2>6. Lists(t)'
    BY <1>1, <2>1 DEF Over, Lists, Connected
  <2>7. Works(t)' /\ Told(t)'
    BY <2>1, <2>2 DEF Works, Told
  <2> QED
    BY <1>1, <2>1, <2>3, <2>4, <2>5, <2>6, <2>7, CloserStep
<1>4. CASE JoinServer(t)
  <2>1. /\ close'[t].pc = "returned" /\ close'[t].target = "server"
        /\ close'[t].result = server.closeErr /\ server.closeDone
        /\ \A u \in Closes \ {t} : close'[u] = close[u]
        /\ UNCHANGED <<server, connect, opener, connection, open, stream, session>>
    BY <1>1, <1>4 DEF JoinServer, Works, IInv, TypeOK, CloseType
  <2> QED
    BY <1>1, <2>1, QuietStep DEF Works, Lists, Told
<1>5. CASE NextConnection(t) /\ close[t].connections = {}
  <2>1. /\ close'[t].pc = "returned" /\ close'[t].target = "server"
        /\ close'[t].result = close[t].result
        /\ close[t].pc = "nextConnection" /\ close[t].target = "server"
        /\ \A u \in Closes \ {t} : close'[u] = close[u]
        /\ UNCHANGED <<connect, opener, connection, open, stream, session>>
    BY <1>1, <1>5 DEF NextConnection, Works, IInv, TypeOK, CloseType
  <2>2. /\ server'.closed = server.closed /\ server'.closeDone
        /\ server'.closeErr = close[t].result
        /\ server'.connections = server.connections
    BY <1>1, <1>5 DEF NextConnection, IInv, TypeOK, ServerType
  <2>3. server.closed /\ ~server.closeDone
    BY <1>1, <2>1 DEF Works
  <2>4. \A k \in Connects : Connected(k) => connection[k].closeDone
    BY <1>1, <1>5, <2>1 DEF Lists
  <2>5. Persists
    BY <2>1, <2>2, <2>3 DEF Persists, Connected, SessionsOf, Tracked, Done
  <2>6. Over'
    BY <1>1, <2>1, <2>2, <2>3, <2>4
    DEF Over, ConnectionOver, Connected, SessionsOf, Tracked, Done
  <2>7. ASSUME NEW u \in Closes \ {t}
        PROVE  Spares(u) /\ Alone(t, u)'
    BY <2>1 DEF CloseInv, Works, Spares, Alone
  <2>8. Works(t)' /\ Lists(t)' /\ Told(t)'
    BY <2>1, <2>2 DEF Works, Lists, Told
  <2> QED
    BY <1>1, <2>1, <2>5, <2>6, <2>7, <2>8, CloserStep
<1>6. CASE NextConnection(t) /\ close[t].connections # {}
  <2>1. PICK k \in close[t].connections :
          /\ close' = [close EXCEPT ![t].pc = "closeConnection", ![t].connection = k,
                                    ![t].connections = @ \ {k}]
          /\ close[t].pc = "nextConnection"
          /\ UNCHANGED <<server, connect, opener, connection, open, stream, session>>
    BY <1>6 DEF NextConnection
  <2>2. /\ close'[t].pc = "closeConnection" /\ close'[t].target = "server"
        /\ close'[t].connection = k /\ close'[t].connections = close[t].connections \ {k}
        /\ close[t].target = "server"
        /\ \A u \in Closes \ {t} : close'[u] = close[u]
    BY <1>1, <2>1 DEF Works, IInv, TypeOK, CloseType
  <2>3. Lists(t)'
    BY <1>1, <2>1, <2>2 DEF Lists, Connected
  <2>4. Works(t)' /\ Told(t)'
    BY <1>1, <2>1, <2>2 DEF Works, Told
  <2> QED
    BY <1>1, <2>1, <2>2, <2>3, <2>4, QuietStep
<1>7. CASE RemoveConnection(t)
  <2> DEFINE k == close[t].connection
  <2>1. /\ close[t].pc = "removeConnection" /\ close[t].target \in {"connection", "server"}
        /\ k \in Connects /\ connection[k].closeDone
        /\ connection[k].closeErr = close[t].failed
    BY <1>1, <1>7, AtTypes DEF RemoveConnection, Works
  <2>2. /\ close'[t].target = close[t].target /\ close'[t].connection = k
        /\ close'[t].connections = close[t].connections
        /\ \/ /\ close[t].target = "connection" /\ close'[t].pc = "returned"
              /\ close'[t].result = close[t].failed
           \/ close[t].target = "server" /\ close'[t].pc = "nextConnection"
        /\ \A u \in Closes \ {t} : close'[u] = close[u]
    BY <1>1, <1>7, <2>1 DEF RemoveConnection, ConnectionClosed, IInv, TypeOK, CloseType
  <2>3. /\ server'.closed = server.closed /\ server'.closeDone = server.closeDone
        /\ server'.closeErr = server.closeErr
        /\ server'.connections = server.connections \ {k}
        /\ UNCHANGED <<connect, opener, connection, open, stream, session>>
    BY <1>1, <1>7 DEF RemoveConnection, IInv, TypeOK, ServerType
  <2>4. Persists
    BY <2>3 DEF Persists, Connected, SessionsOf, Tracked, Done
  <2>5. Over'
    BY <1>1, <2>1, <2>3 DEF Over, ConnectionOver, Connected, SessionsOf, Tracked, Done
  <2>6. ASSUME NEW u \in Closes \ {t}
        PROVE  Spares(u) /\ Alone(t, u)'
    BY <2>1, <2>2, <2>3 DEF CloseInv, Works, Spares, Alone
  <2>7. Works(t)' /\ Told(t)'
    BY <1>1, <2>1, <2>2, <2>3 DEF Works, Told
  <2>8. Lists(t)'
    BY <1>1, <2>1, <2>2, <2>3 DEF Lists, Connected
  <2> QED
    BY <1>1, <2>2, <2>4, <2>5, <2>6, <2>7, <2>8, CloserStep
<1> QED
  BY <1>2, <1>3, <1>4, <1>5, <1>6, <1>7

(* Close of a connection (connection.go:94-132).                           *)
LEMMA CloseConnectionCloses ==
  ASSUME CloseInv, NEW t \in Closes,
         \/ \E k \in Connects : CloseConnection(t, k)
         \/ JoinConnection(t) \/ NextSession(t) \/ CloseOpener(t) \/ EndConnection(t)
  PROVE  CloseInv'
<1> USE DEF RunsServer, RunsConnection, RunsSession, AtConnection, AtSession
<1>1. IInv /\ IInv' /\ Over /\ Works(t) /\ Lists(t)
  BY CloseConnectionStep DEF CloseInv
<1>2. CASE \E k \in Connects : CloseConnection(t, k)
  <2>0. PICK k \in Connects : CloseConnection(t, k)
    BY <1>2
  <2>1. /\ close'[t].pc = IF connection[k].closed THEN "joinConnection" ELSE "nextSession"
        /\ close'[t].target = IF close[t].pc = "idle" THEN "connection" ELSE close[t].target
        /\ close'[t].connection = k /\ close'[t].sessions = connection[k].sessions
        /\ close'[t].connections = close[t].connections
        /\ \A u \in Closes \ {t} : close'[u] = close[u]
        /\ \/ close[t].pc = "idle" /\ connect[k] = "connected"
           \/ close[t].pc = "closeConnection" /\ close[t].connection = k
        /\ UNCHANGED <<server, connect, opener, open, stream, session>>
    <3> DEFINE c == [close[t] EXCEPT
                       !.pc = IF connection[k].closed THEN "joinConnection" ELSE "nextSession",
                       !.target = IF close[t].pc = "idle" THEN "connection" ELSE close[t].target,
                       !.connection = k, !.failed = FALSE, !.sessions = connection[k].sessions]
    <3>1. /\ c.pc = IF connection[k].closed THEN "joinConnection" ELSE "nextSession"
          /\ c.target = IF close[t].pc = "idle" THEN "connection" ELSE close[t].target
          /\ c.connection = k /\ c.sessions = connection[k].sessions
          /\ c.connections = close[t].connections
      BY <1>1, AtTypes DEF CloseType
    <3>2. close' = [close EXCEPT ![t] = c]
      BY <2>0 DEF CloseConnection
    <3> HIDE DEF c
    <3>3. close'[t] = c /\ \A u \in Closes \ {t} : close'[u] = close[u]
      BY <1>1, <3>2 DEF IInv, TypeOK
    <3> QED
      BY <2>0, <3>1, <3>3 DEF CloseConnection
  <2>2. \A j \in Connects :
          /\ connection'[j].closed = (j = k \/ connection[j].closed)
          /\ connection'[j].closeDone = connection[j].closeDone
          /\ connection'[j].closeErr = connection[j].closeErr
          /\ connection'[j].sessions = connection[j].sessions
    <3>1. connection' = [connection EXCEPT ![k].closed = TRUE]
      BY <2>0 DEF CloseConnection
    <3>2. connection \in [Connects -> ConnectionType]
      BY <1>1 DEF IInv, TypeOK
    <3> QED
      BY <3>1, <3>2 DEF ConnectionType
  <2>3. /\ \A j \in Connects : /\ SessionsOf(j)' = SessionsOf(j) /\ Connected(j)' = Connected(j)
                               /\ ConnectionOver(j)' = ConnectionOver(j)
        /\ \A n \in Opens : Done(n)' = Done(n) /\ Tracked(n)' = Tracked(n)
    BY <2>1 DEF Connected, ConnectionOver, SessionsOf, Tracked, Done
  <2>4. Persists
    BY <2>1, <2>2, <2>3 DEF Persists
  <2>5. Over'
    <3>1. \A n \in Opens : Tracked(n) => open[n].connection \in Connects
      BY <1>1 DEF IInv, LoopsCloseStreams, Tracked
    <3> QED
      BY <1>1, <2>1, <2>2, <2>3, <3>1 DEF Over
  <2>6. connection[k].closeDone => connection[k].closed
    BY <1>1 DEF Over
  <2>7. ASSUME NEW u \in Closes \ {t}
        PROVE  Spares(u) /\ Alone(t, u)'
    <3>1. Works(u) /\ Alone(t, u) /\ (RunsConnection(u) => close[u].connection \in Connects)
      BY AtTypes DEF CloseInv
    <3> QED
      BY <2>1, <2>2, <2>6, <3>1 DEF Works, Spares, Alone
  <2>8. Works(t)' /\ Told(t)'
    BY <1>1, <2>1, <2>2, <2>6 DEF Works, Told
  <2>9. Lists(t)'
    <3>1. ASSUME RunsServer(t)', NEW j \in Connects, Connected(j)'
          PROVE  \/ connection'[j].closeDone \/ j \in close'[t].connections
                 \/ AtConnection(t)' /\ close'[t].connection = j
      BY <1>1, <2>1, <2>2, <2>3, <3>1 DEF Lists
    <3>2. ASSUME RunsConnection(t)', NEW n \in SessionsOf(k)'
          PROVE  \/ Done(n)'
                 \/ n \in close'[t].sessions /\ close'[t].pc = "nextSession"
      BY <1>1, <2>1, <2>3, <3>2 DEF Over, SessionsOf
    <3> QED
      BY <2>1, <3>1, <3>2 DEF Lists
  <2> QED
    BY <1>1, <2>1, <2>4, <2>5, <2>7, <2>8, <2>9, CloserStep
<1>3. CASE JoinConnection(t)
  <2> DEFINE k == close[t].connection
  <2>1. /\ close[t].pc = "joinConnection" /\ close[t].target \in {"connection", "server"}
        /\ k \in Connects /\ connection[k].closeDone
        /\ UNCHANGED <<server, connect, opener, connection, open, stream, session>>
    BY <1>1, <1>3, AtTypes DEF JoinConnection, Works
  <2>2. /\ close'[t].target = close[t].target /\ close'[t].connection = k
        /\ close'[t].connections = close[t].connections
        /\ \/ /\ close[t].target = "connection" /\ close'[t].pc = "returned"
              /\ close'[t].result = connection[k].closeErr
           \/ close[t].target = "server" /\ close'[t].pc = "nextConnection"
        /\ \A u \in Closes \ {t} : close'[u] = close[u]
    BY <1>1, <1>3, <2>1 DEF JoinConnection, ConnectionClosed, IInv, TypeOK, CloseType
  <2>3. Works(t)' /\ Told(t)'
    BY <1>1, <2>1, <2>2 DEF Works, Told
  <2>4. Lists(t)'
    BY <1>1, <2>1, <2>2 DEF Lists, Connected
  <2> QED
    BY <1>1, <2>1, <2>2, <2>3, <2>4, QuietStep
<1>4. CASE NextSession(t)
  <2>1. /\ close[t].pc = "nextSession"
        /\ UNCHANGED <<server, connect, opener, connection, open, stream, session>>
        /\ close'[t].target = close[t].target /\ close'[t].connection = close[t].connection
        /\ close'[t].connections = close[t].connections
        /\ \/ /\ close[t].sessions = {} /\ close'[t].pc = "closeOpener"
           \/ /\ close'[t].pc = "closeSession" /\ close'[t].session \in close[t].sessions
              /\ close'[t].sessions = close[t].sessions \ {close'[t].session}
        /\ \A u \in Closes \ {t} : close'[u] = close[u]
    <3>1. CASE close[t].sessions = {}
      BY <1>1, <1>4, <3>1 DEF NextSession, IInv, TypeOK, CloseType
    <3>2. CASE close[t].sessions # {}
      <4>1. PICK n \in close[t].sessions :
              close' = [close EXCEPT ![t].pc = "closeSession", ![t].session = n,
                                     ![t].sessions = @ \ {n}]
        BY <1>4, <3>2 DEF NextSession
      <4>2. /\ close'[t].pc = "closeSession" /\ close'[t].session = n
            /\ close'[t].sessions = close[t].sessions \ {n}
            /\ close'[t].target = close[t].target
            /\ close'[t].connection = close[t].connection
            /\ close'[t].connections = close[t].connections
            /\ \A u \in Closes \ {t} : close'[u] = close[u]
        BY <1>1, <4>1 DEF IInv, TypeOK, CloseType
      <4> QED
        BY <1>4, <4>2 DEF NextSession
    <3> QED
      BY <3>1, <3>2
  <2>2. close[t].target \in {"connection", "server"}
    BY <1>1, <2>1 DEF Works
  <2>3. Works(t)' /\ Told(t)'
    BY <1>1, <2>1, <2>2 DEF Works, Told
  <2>4. Lists(t)'
    BY <1>1, <2>1, <2>2 DEF Lists, Connected, SessionsOf, Tracked, Done
  <2> QED
    BY <1>1, <2>1, <2>2, <2>3, <2>4, QuietStep
<1>5. CASE CloseOpener(t)
  <2> DEFINE k == close[t].connection
  <2>1. /\ close[t].pc = "closeOpener" /\ k \in Connects
        /\ UNCHANGED <<server, connect, connection, open, stream, session>>
        /\ opener' = [opener EXCEPT ![k] = "closed"]
    BY <1>5, AtTypes DEF CloseOpener, CloseInv
  <2>2. /\ close'[t].pc = "endConnection" /\ close'[t].target = close[t].target
        /\ close'[t].connection = k /\ close'[t].connections = close[t].connections
        /\ close'[t].sessions = close[t].sessions
        /\ \A u \in Closes \ {t} : close'[u] = close[u]
    <3>1. PICK failed \in BOOLEAN :
            close' = [close EXCEPT ![t].pc = "endConnection", ![t].failed = @ \/ failed]
      BY <1>5 DEF CloseOpener
    <3> QED
      BY <1>1, <3>1 DEF IInv, TypeOK, CloseType
  <2>3. /\ \A j \in Connects : /\ SessionsOf(j)' = SessionsOf(j) /\ Connected(j)' = Connected(j)
                               /\ ConnectionOver(j) => ConnectionOver(j)'
        /\ \A n \in Opens : Done(n)' = Done(n) /\ Tracked(n)' = Tracked(n)
    BY <1>1, <2>1 DEF IInv, TypeOK, Connected, ConnectionOver, SessionsOf, Tracked, Done
  <2>4. Persists
    BY <2>1, <2>3 DEF Persists
  <2>5. Over'
    BY <1>1, <2>1, <2>3 DEF Over
  <2>6. ASSUME NEW u \in Closes \ {t}
        PROVE  Spares(u) /\ Alone(t, u)'
    BY <2>1, <2>2 DEF CloseInv, Works, Spares, Alone
  <2>7. Works(t)' /\ Told(t)'
    BY <1>1, <2>1, <2>2 DEF Works, Told
  <2>8. Lists(t)'
    <3>1. \A n \in SessionsOf(k) : n \in Opens
      BY DEF SessionsOf
    <3> QED
      BY <1>1, <2>1, <2>2, <2>3, <3>1 DEF Lists
  <2> QED
    BY <1>1, <2>2, <2>4, <2>5, <2>6, <2>7, <2>8, CloserStep
<1>6. CASE EndConnection(t)
  <2> DEFINE k == close[t].connection
  <2>1. /\ close[t].pc = "endConnection" /\ k \in Connects /\ Connected(k)
        /\ opener[k] = "closed" /\ connection[k].closed
        /\ UNCHANGED <<server, connect, opener, open, stream, session>>
    BY <1>1, <1>6, AtTypes DEF EndConnection, Works
  <2>2. /\ close'[t].pc = "removeConnection" /\ close'[t].target = close[t].target
        /\ close'[t].connection = k /\ close'[t].connections = close[t].connections
        /\ close'[t].failed = close[t].failed
        /\ \A u \in Closes \ {t} : close'[u] = close[u]
    BY <1>1, <1>6 DEF EndConnection, IInv, TypeOK, CloseType
  <2>3. /\ \A j \in Connects :
             /\ connection'[j].closed = connection[j].closed
             /\ connection'[j].sessions = connection[j].sessions
             /\ j # k => connection'[j] = connection[j]
        /\ connection'[k].closeDone /\ connection'[k].closeErr = close[t].failed
    BY <1>1, <1>6, <2>1 DEF EndConnection, IInv, TypeOK, ConnectionType
  <2>4. /\ \A j \in Connects : /\ SessionsOf(j)' = SessionsOf(j) /\ Connected(j)' = Connected(j)
                               /\ ConnectionOver(j)' = ConnectionOver(j)
        /\ \A n \in Opens : Done(n)' = Done(n) /\ Tracked(n)' = Tracked(n)
    BY <2>1 DEF Connected, ConnectionOver, SessionsOf, Tracked, Done
  <2>5. ConnectionOver(k) /\ ~connection[k].closeDone
    BY <1>1, <2>1 DEF Lists, Works, ConnectionOver
  <2>6. Persists
    BY <2>1, <2>3, <2>4, <2>5 DEF Persists
  <2>7. Over'
    <3>1. \A n \in Opens : Tracked(n) => open[n].connection \in Connects
      BY <1>1 DEF IInv, LoopsCloseStreams, Tracked
    <3> QED
      BY <1>1, <2>1, <2>3, <2>4, <2>5, <3>1 DEF Over
  <2>8. ASSUME NEW u \in Closes \ {t}
        PROVE  Spares(u) /\ Alone(t, u)'
    <3>1. Works(u) /\ Alone(t, u) /\ (RunsConnection(u) => close[u].connection \in Connects)
      BY AtTypes DEF CloseInv
    <3> QED
      BY <2>1, <2>2, <2>3, <3>1 DEF Works, Spares, Alone
  <2>9. Works(t)' /\ Lists(t)' /\ Told(t)'
    <3>1. Lists(t)'
      BY <1>1, <2>1, <2>2, <2>3, <2>4 DEF Lists
    <3> QED
      BY <1>1, <2>1, <2>2, <2>3, <3>1 DEF Works, Told
  <2> QED
    BY <1>1, <2>2, <2>6, <2>7, <2>8, <2>9, CloserStep
<1> QED
  BY <1>2, <1>3, <1>4, <1>5, <1>6

(* Close of a session (session.go:394-414).                                *)
LEMMA CloseSessionCloses ==
  ASSUME CloseInv, NEW t \in Closes,
         \/ \E n \in Opens : CloseSession(t, n)
         \/ CloseStream(t) \/ AwaitDone(t) \/ JoinSession(t)
  PROVE  CloseInv'
<1> USE DEF RunsServer, RunsConnection, RunsSession, AtConnection, AtSession
<1>1. /\ IInv /\ IInv' /\ Over /\ Works(t) /\ Lists(t)
      /\ \A n \in Opens : Tracked(n) => open[n].connection \in Connects
  BY CloseSessionStep DEF CloseInv, IInv, LoopsCloseStreams, Tracked
<1>2. CASE \E n \in Opens : CloseSession(t, n)
  <2>0. PICK n \in Opens : CloseSession(t, n)
    BY <1>2
  <2>1. /\ close'[t].pc = IF session[n].once = "new" THEN "closeStream" ELSE "joinSession"
        /\ close'[t].target = IF close[t].pc = "idle" THEN "session" ELSE close[t].target
        /\ close'[t].session = n /\ close'[t].sessions = close[t].sessions
        /\ close'[t].connections = close[t].connections
        /\ close'[t].connection = close[t].connection
        /\ \A u \in Closes \ {t} : close'[u] = close[u]
        /\ \/ close[t].pc = "idle"
           \/ close[t].pc = "closeSession" /\ close[t].session = n
        /\ UNCHANGED <<server, connect, opener, connection, open, stream>>
    <3> DEFINE c == [close[t] EXCEPT
                       !.pc = IF session[n].once = "new" THEN "closeStream" ELSE "joinSession",
                       !.target = IF close[t].pc = "idle" THEN "session" ELSE close[t].target,
                       !.session = n]
    <3>1. /\ c.pc = IF session[n].once = "new" THEN "closeStream" ELSE "joinSession"
          /\ c.target = IF close[t].pc = "idle" THEN "session" ELSE close[t].target
          /\ c.session = n /\ c.sessions = close[t].sessions
          /\ c.connections = close[t].connections /\ c.connection = close[t].connection
      BY <1>1, AtTypes DEF CloseType
    <3>2. close' = [close EXCEPT ![t] = c]
      BY <2>0 DEF CloseSession
    <3> HIDE DEF c
    <3>3. close'[t] = c /\ \A u \in Closes \ {t} : close'[u] = close[u]
      BY <1>1, <3>2 DEF IInv, TypeOK
    <3> QED
      BY <2>0, <3>1, <3>3 DEF CloseSession
  <2>2. /\ \A m \in Opens : /\ session'[m].loop = session[m].loop
                            /\ session'[m].closeErr = session[m].closeErr
                            /\ m # n => session'[m].once = session[m].once
        /\ session[n].once # "new" => session'[n].once = session[n].once
        /\ session[n].once = "new" => session'[n].once = "running"
    <3>1. session' = [session EXCEPT ![n].once = IF session[n].once = "new" THEN "running"
                                                                           ELSE session[n].once]
      BY <2>0 DEF CloseSession
    <3>2. /\ session \in [Opens -> SessionType]
          /\ \A m \in Opens : session[m] \in SessionType
      BY <1>1 DEF IInv, TypeOK
    <3> QED
      BY <3>1, <3>2 DEF SessionType
  <2>3. /\ \A k \in Connects : /\ SessionsOf(k)' = SessionsOf(k) /\ Connected(k)' = Connected(k)
                               /\ ConnectionOver(k)' = ConnectionOver(k)
        /\ \A m \in Opens : Done(m)' = Done(m) /\ Tracked(m)' = Tracked(m)
    BY <2>1, <2>2 DEF Connected, ConnectionOver, SessionsOf, Tracked, Done
  <2>4. Persists
    BY <2>1, <2>2, <2>3 DEF Persists
  <2>5. Over'
    BY <1>1, <2>1, <2>3 DEF Over
  <2>6. ASSUME NEW u \in Closes \ {t}
        PROVE  Spares(u) /\ Alone(t, u)'
    <3>1. Works(u) /\ Alone(t, u) /\ (RunsSession(u) => close[u].session \in Opens)
      BY AtTypes DEF CloseInv
    <3> QED
      BY <2>1, <2>2, <3>1 DEF Works, Spares, Alone
  <2>7. Works(t)' /\ Told(t)'
    BY <1>1, <2>1, <2>2 DEF Works, Told
  <2>8. Lists(t)'
    <3>1. RunsConnection(t) => close[t].connection \in Connects
      BY <1>1, AtTypes DEF CloseInv, Works
    <3>2. \A k \in Connects : \A m \in SessionsOf(k) : m \in Opens
      BY DEF SessionsOf
    <3> QED
      BY <1>1, <2>1, <2>3, <3>1, <3>2 DEF Lists, Works
  <2> QED
    BY <1>1, <2>1, <2>4, <2>5, <2>6, <2>7, <2>8, CloserStep
<1>3. CASE CloseStream(t)
  <2> DEFINE n == close[t].session
  <2>1. /\ close[t].pc = "closeStream" /\ close'[t].pc = "awaitDone"
        /\ close'[t].target = close[t].target /\ close'[t].session = n
        /\ close'[t].sessions = close[t].sessions
        /\ close'[t].connections = close[t].connections
        /\ close'[t].connection = close[t].connection
        /\ \A u \in Closes \ {t} : close'[u] = close[u]
        /\ UNCHANGED <<server, connect, opener, connection, open>>
    BY <1>1, <1>3 DEF CloseStream, IInv, TypeOK, CloseType
  <2>2. /\ n \in Opens /\ session[n].once = "running"
        /\ stream' = [stream EXCEPT ![n] = "closed"]
        /\ \E failed \in BOOLEAN : session' = [session EXCEPT ![n].closeErr = failed]
    BY <1>1, <1>3, AtTypes DEF CloseStream, Works
  <2>3. \A m \in Opens : /\ session'[m].loop = session[m].loop
                         /\ session'[m].once = session[m].once
                         /\ m # n => session'[m].closeErr = session[m].closeErr
                         /\ stream'[m] = "none" => stream[m] = "none"
    BY <1>1, <2>2 DEF IInv, TypeOK, SessionType
  <2>4. /\ \A k \in Connects : /\ SessionsOf(k)' = SessionsOf(k) /\ Connected(k)' = Connected(k)
                               /\ ConnectionOver(k)' = ConnectionOver(k)
        /\ \A m \in Opens : Done(m)' = Done(m) /\ Tracked(m)' = Tracked(m)
    BY <2>1, <2>3 DEF Connected, ConnectionOver, SessionsOf, Tracked, Done
  <2>5. Persists
    BY <2>1, <2>2, <2>3, <2>4 DEF Persists
  <2>6. Over'
    BY <1>1, <2>1, <2>3, <2>4 DEF Over
  <2>7. ASSUME NEW u \in Closes \ {t}
        PROVE  Spares(u) /\ Alone(t, u)'
    <3>1. Works(u) /\ Alone(t, u) /\ (RunsSession(u) => close[u].session \in Opens)
      BY AtTypes DEF CloseInv
    <3> QED
      BY <2>1, <2>3, <3>1 DEF Works, Spares, Alone
  <2>8. Works(t)' /\ Told(t)'
    BY <1>1, <2>1, <2>2, <2>3 DEF Works, Told
  <2>9. Lists(t)'
    <3>1. RunsConnection(t) => close[t].connection \in Connects
      BY <1>1, AtTypes DEF CloseInv, Works
    <3>2. \A k \in Connects : \A m \in SessionsOf(k) : m \in Opens
      BY DEF SessionsOf
    <3> QED
      BY <1>1, <2>1, <2>4, <3>1, <3>2 DEF Lists
  <2> QED
    BY <1>1, <2>1, <2>5, <2>6, <2>7, <2>8, <2>9, CloserStep
<1>4. CASE AwaitDone(t)
  <2> DEFINE n == close[t].session
  <2>1. /\ close[t].pc = "awaitDone" /\ n \in Opens /\ Done(n)
        /\ session[n].once = "running" /\ close[t].target \in {"session", "connection", "server"}
        /\ session' = [session EXCEPT ![n].once = "done"]
        /\ UNCHANGED <<server, connect, opener, connection, open, stream>>
    <3>1. close[t].target # "none" /\ close[t] \in CloseType
      BY <1>1, <1>4, AtTypes DEF AwaitDone, Works
    <3> QED
      BY <1>1, <1>4, <3>1, AtTypes DEF AwaitDone, Works, CloseType
  <2>2. /\ close'[t].target = close[t].target /\ close'[t].session = n
        /\ close'[t].sessions = close[t].sessions
        /\ close'[t].connections = close[t].connections
        /\ close'[t].connection = close[t].connection
        /\ \/ /\ close[t].target = "session" /\ close'[t].pc = "returned"
              /\ close'[t].result = session[n].closeErr
           \/ close[t].target # "session" /\ close'[t].pc = "nextSession"
        /\ \A u \in Closes \ {t} : close'[u] = close[u]
    BY <1>1, <1>4 DEF AwaitDone, SessionClosed, IInv, TypeOK, CloseType
  <2>3. /\ \A m \in Opens : /\ session'[m].loop = session[m].loop
                            /\ session'[m].closeErr = session[m].closeErr
                            /\ m # n => session'[m].once = session[m].once
        /\ session'[n].once = "done"
    BY <1>1, <2>1 DEF IInv, TypeOK, SessionType
  <2>4. /\ \A k \in Connects : /\ SessionsOf(k)' = SessionsOf(k) /\ Connected(k)' = Connected(k)
                               /\ ConnectionOver(k)' = ConnectionOver(k)
        /\ \A m \in Opens : Done(m)' = Done(m) /\ Tracked(m)' = Tracked(m)
    BY <2>1, <2>3 DEF Connected, ConnectionOver, SessionsOf, Tracked, Done
  <2>5. Persists
    BY <2>1, <2>3, <2>4 DEF Persists
  <2>6. Over'
    BY <1>1, <2>1, <2>4 DEF Over
  <2>7. ASSUME NEW u \in Closes \ {t}
        PROVE  Spares(u) /\ Alone(t, u)'
    <3>1. Works(u) /\ Alone(t, u) /\ (RunsSession(u) => close[u].session \in Opens)
      BY AtTypes DEF CloseInv
    <3> QED
      BY <2>1, <2>2, <2>3, <3>1 DEF Works, Spares, Alone
  <2>8. Works(t)' /\ Told(t)'
    BY <1>1, <2>1, <2>2, <2>3 DEF Works, Told
  <2>9. Lists(t)'
    <3>1. RunsConnection(t) => close[t].connection \in Connects
      BY <1>1, AtTypes DEF CloseInv, Works
    <3>2. \A k \in Connects : \A m \in SessionsOf(k) : m \in Opens
      BY DEF SessionsOf
    <3> QED
      BY <1>1, <2>1, <2>2, <2>4, <3>1, <3>2 DEF Lists
  <2> QED
    BY <1>1, <2>2, <2>5, <2>6, <2>7, <2>8, <2>9, CloserStep
<1>5. CASE JoinSession(t)
  <2> DEFINE n == close[t].session
  <2>1. /\ close[t].pc = "joinSession" /\ n \in Opens /\ session[n].once = "done" /\ Done(n)
        /\ close[t].target \in {"session", "connection", "server"}
        /\ UNCHANGED <<server, connect, opener, connection, open, stream, session>>
    <3>1. close[t].target # "none" /\ close[t] \in CloseType
      BY <1>1, <1>5, AtTypes DEF JoinSession, Works
    <3> QED
      BY <1>1, <1>5, <3>1, AtTypes DEF JoinSession, CloseType, IInv, TypeOK
  <2>2. /\ close'[t].target = close[t].target /\ close'[t].session = n
        /\ close'[t].sessions = close[t].sessions
        /\ close'[t].connections = close[t].connections
        /\ close'[t].connection = close[t].connection
        /\ \/ /\ close[t].target = "session" /\ close'[t].pc = "returned"
              /\ close'[t].result = session[n].closeErr
           \/ close[t].target # "session" /\ close'[t].pc = "nextSession"
        /\ \A u \in Closes \ {t} : close'[u] = close[u]
    BY <1>1, <1>5 DEF JoinSession, SessionClosed, IInv, TypeOK, CloseType
  <2>3. Works(t)' /\ Told(t)'
    BY <1>1, <2>1, <2>2 DEF Works, Told
  <2>4. Lists(t)'
    BY <1>1, <2>1, <2>2 DEF Lists, Connected, SessionsOf, Tracked, Done
  <2> QED
    BY <1>1, <2>1, <2>2, <2>3, <2>4, QuietStep
<1> QED
  BY <1>2, <1>3, <1>4, <1>5

-----------------------------------------------------------------------------
(* The invariant that the theorem rests on (server.go:36-123,              *)
(* connection.go:54-139, session.go:394-414, 456-493).                     *)
LEMMA CloseInvariance == Spec => []CloseInv
<1>1. IInv /\ Init => CloseInv
  <2> SUFFICES ASSUME IInv, Init PROVE CloseInv
    OBVIOUS
  <2>1. Over
    BY DEF Init, Over, ConnectionOver, Connected, Tracked
  <2>2. \A t \in Closes : Works(t) /\ Lists(t) /\ Told(t)
    BY DEF Init, Works, Lists, Told, RunsServer, RunsConnection, RunsSession, AtConnection,
       AtSession
  <2>3. \A t, u \in Closes : Alone(t, u)
    BY DEF Init, Alone, RunsServer, RunsConnection, RunsSession, AtSession
  <2> QED
    BY <2>1, <2>2, <2>3 DEF CloseInv
<1>2. CloseInv /\ [Next]_vars => CloseInv'
  <2> SUFFICES ASSUME CloseInv, [Next]_vars PROVE CloseInv'
    OBVIOUS
  <2>1. CASE UNCHANGED vars
    <3>1. IInv'
      BY <2>1 DEF CloseInv, vars, IInv, TypeOK, Done, ClosersHold, Holds, AtConnection,
         AtSession, Connected, LoopsCloseStreams, NothingLeaks
    <3>2. Persists
      BY <2>1 DEF vars, Persists, Connected, SessionsOf, Tracked, Done
    <3>3. Over'
      BY <2>1 DEF vars, CloseInv, Over, ConnectionOver, Connected, SessionsOf, Tracked, Done
    <3> QED
      BY <2>1, <3>1, <3>2, <3>3, OpenerStep DEF vars
  <2>2. CASE Next
    BY <2>2, ConnectCloses, OpenCloses, LoopCloses, CloseServerCloses, CloseConnectionCloses,
       CloseSessionCloses
    DEF Next, CloseNext
  <2> QED
    BY <2>1, <2>2
<1> QED
  BY <1>1, <1>2, Invariance, PTL DEF Spec

(* When any call of Close returns, whoever did the work, all below what it *)
(* closes is closed and has stopped, and every caller is told the same     *)
(* (server.go:77-110, connection.go:94-132, session.go:394-414).           *)
THEOREM ClosingIsForEveryone == Spec => []ClosedForEveryone
<1>1. CloseInv => ClosedForEveryone
  <2> SUFFICES ASSUME CloseInv PROVE ClosedForEveryone
    OBVIOUS
  <2>1. \A n \in Opens : Tracked(n) /\ Done(n) => stream[n] = "closed"
    BY DEF CloseInv, IInv, TypeOK, TransportState, LoopsCloseStreams, Over, Done
  <2>2. \A k \in Connects :
          connection[k].closeDone =>
            opener[k] = "closed" /\ \A n \in SessionsOf(k) : Done(n) /\ stream[n] = "closed"
    BY <2>1 DEF CloseInv, Over, ConnectionOver, SessionsOf
  <2>3. CloseMeansClosed
    <3>1. ASSUME NEW t \in Closes, close[t].pc = "returned", close[t].target = "session"
          PROVE  Done(close[t].session)
      BY <3>1 DEF CloseInv, IInv, TypeOK, Told
    <3>2. ASSUME NEW t \in Closes, close[t].pc = "returned", NEW k \in Connects,
                 \/ close[t].target = "server" /\ Connected(k)
                 \/ close[t].target = "connection" /\ close[t].connection = k
          PROVE  connection[k].closeDone
      BY <3>2 DEF CloseInv, Told, Over
    <3> QED
      BY <2>2, <3>1, <3>2 DEF CloseMeansClosed
  <2>4. ClosersAgree
    <3>1. ASSUME NEW t \in Closes, close[t].pc = "returned"
          PROVE  close[t].target \in {"server", "connection", "session"}
      BY <3>1 DEF CloseInv, Works, IInv, TypeOK, CloseType
    <3> QED
      BY <3>1 DEF CloseInv, Told, ClosersAgree
  <2> QED
    BY <2>3, <2>4 DEF ClosedForEveryone
<1> QED
  BY <1>1, CloseInvariance, PTL

-----------------------------------------------------------------------------
(* A connection is open until somebody closes it, and a session is opened  *)
(* by a connection that was handed out.                                    *)
OpenInv ==
  /\ \A k \in Connects :
       /\ connect[k] \in {"idle", "dialing", "dialed"} => opener[k] # "closed"
       /\ Connected(k) /\ opener[k] = "closed" => connection[k].closed
  /\ \A n \in Opens : open[n].pc # "idle" => Connected(open[n].connection)

(* What Ownership sees of the server.                                      *)
ServerState ==
  IF ~server.closed THEN "open" ELSE IF server.closeDone THEN "closed" ELSE "closing"
Closing == {k \in Connects : connection[k].closed}
Parent == [n \in Opens |-> IF Tracked(n) THEN open[n].connection ELSE None]

-----------------------------------------------------------------------------
(* No step closes a transport connection before its connection is closing  *)
(* (server.go:49-75, connection.go:54-132).                                *)
LEMMA OpenInvStep ==
  ASSUME CloseInv, OpenInv, Next
  PROVE  OpenInv'
<1> USE DEF Connected
<1>1. TypeOK /\ \A n \in Opens : open[n].pc # "idle" => open[n].connection \in Connects
  BY DEF CloseInv, IInv, LoopsCloseStreams
<1>2. ASSUME NEW k \in Connects, ConnectBegin(k) \/ Dial(k) \/ Track(k) \/ DiscardOpener(k)
      PROVE  OpenInv'
  <2>1. CASE ConnectBegin(k)
    BY <1>1, <2>1 DEF ConnectBegin, ConnectFrame, OpenInv, TypeOK
  <2>2. CASE Dial(k)
    BY <1>1, <2>2 DEF Dial, ConnectFrame, OpenInv, TypeOK
  <2>3. CASE Track(k)
    <3>1. CASE StillOpen(server)
      BY <1>1, <2>3, <3>1 DEF Track, ConnectFrame, OpenInv, TypeOK
    <3>2. CASE ~StillOpen(server)
      BY <1>1, <2>3, <3>2 DEF Track, ConnectFrame, OpenInv, TypeOK
    <3> QED
      BY <3>1, <3>2
  <2>4. CASE DiscardOpener(k)
    BY <1>1, <2>4 DEF DiscardOpener, ConnectFrame, OpenInv, TypeOK
  <2> QED
    BY <1>2, <2>1, <2>2, <2>3, <2>4
<1>3. ASSUME NEW n \in Opens,
             \/ \E k \in Connects : OpenBegin(n, k)
             \/ OpenStream(n) \/ TrackSession(n) \/ DiscardStream(n) \/ Start(n)
      PROVE  OpenInv'
  <2>1. /\ UNCHANGED <<connect, opener>>
        /\ \A k \in Connects : connection'[k].closed = connection[k].closed
    <3>1. CASE TrackSession(n)
      <4>1. \/ connection' = [connection EXCEPT ![open[n].connection].sessions = @ \cup {n}]
            \/ UNCHANGED connection
        BY <3>1 DEF TrackSession
      <4> QED
        BY <1>1, <3>1, <4>1 DEF TrackSession, OpenFrame, TypeOK, ConnectionType
    <3>2. CASE ~TrackSession(n)
      BY <1>3, <3>2 DEF OpenBegin, OpenStream, DiscardStream, Start, OpenFrame
    <3> QED
      BY <3>1, <3>2
  <2>2. \A m \in Opens : open'[m].pc # "idle" => Connected(open'[m].connection)
    <3>1. /\ \A m \in Opens \ {n} : open'[m] = open[m]
          /\ \/ open'[n].connection = open[n].connection /\ open[n].pc # "idle"
             \/ \E k \in Connects : Connected(k) /\ open'[n].connection = k
      <4>1. CASE \E k \in Connects : OpenBegin(n, k)
        BY <1>1, <4>1 DEF OpenBegin, TypeOK, OpenType
      <4>2. CASE OpenStream(n)
        BY <1>1, <4>2 DEF OpenStream, TypeOK, OpenType
      <4>3. CASE TrackSession(n)
        BY <1>1, <4>3 DEF TrackSession, TypeOK, OpenType
      <4>4. CASE DiscardStream(n) \/ Start(n)
        BY <1>1, <4>4 DEF DiscardStream, Start, TypeOK, OpenType
      <4> QED
        BY <1>3, <4>1, <4>2, <4>3, <4>4
    <3> QED
      BY <1>1, <2>1, <3>1 DEF OpenInv
  <2> QED
    BY <2>1, <2>2 DEF OpenInv
<1>4. ASSUME NEW n \in Opens, LoopNext(n)
      PROVE  OpenInv'
  <2>1. UNCHANGED <<connect, opener, open>>
    BY <1>4 DEF LoopNext, EndLoop, Finish, RemoveSession, LoopFrame
  <2>2. \A k \in Connects : connection'[k].closed = connection[k].closed
    BY <1>1, <1>4 DEF LoopNext, EndLoop, Finish, RemoveSession, TypeOK, ConnectionType
  <2> QED
    BY <2>1, <2>2 DEF OpenInv
<1>5. ASSUME NEW t \in Closes, CloseServer(t) \/ CloseNext(t)
      PROVE  OpenInv'
  <2>1. UNCHANGED <<connect, open>>
    BY <1>5
    DEF CloseServer, CloseNext, JoinServer, NextConnection, CloseConnection, JoinConnection,
        NextSession, CloseOpener, EndConnection, RemoveConnection, CloseSession, CloseStream,
        AwaitDone, JoinSession
  <2>2. CASE CloseOpener(t)
    <3>1. /\ close[t].connection \in Connects /\ connection[close[t].connection].closed
          /\ Connected(close[t].connection)
      BY <1>1, <2>2, AtTypes DEF CloseOpener, CloseInv, Works, RunsConnection, AtConnection
    <3>2. opener' = [opener EXCEPT ![close[t].connection] = "closed"] /\ UNCHANGED connection
      BY <2>2 DEF CloseOpener
    <3> QED
      BY <1>1, <2>1, <3>1, <3>2 DEF OpenInv, TypeOK
  <2>3. CASE ~CloseOpener(t)
    <3>1. UNCHANGED opener
      BY <1>5, <2>3
      DEF CloseServer, CloseNext, JoinServer, NextConnection, CloseConnection, JoinConnection,
          NextSession, EndConnection, RemoveConnection, CloseSession, CloseStream, AwaitDone,
          JoinSession
    <3>2. \A k \in Connects : connection[k].closed => connection'[k].closed
      <4>1. CASE \E k \in Connects : CloseConnection(t, k)
        BY <1>1, <4>1 DEF CloseConnection, TypeOK, ConnectionType
      <4>2. CASE EndConnection(t)
        BY <1>1, <4>2 DEF EndConnection, TypeOK, ConnectionType
      <4>3. CASE UNCHANGED connection
        BY <4>3
      <4> QED
        BY <1>5, <4>1, <4>2, <4>3
        DEF CloseServer, CloseNext, JoinServer, NextConnection, JoinConnection, NextSession,
            CloseOpener, RemoveConnection, CloseSession, CloseStream, AwaitDone, JoinSession
    <3> QED
      BY <2>1, <3>1, <3>2 DEF OpenInv
  <2> QED
    BY <2>2, <2>3
<1> QED
  BY <1>2, <1>3, <1>4, <1>5 DEF Next

(* The invariant of the simulation (server.go:36-123).                     *)
LEMMA OpenInvariance == Spec => [](CloseInv /\ OpenInv)
<1>1. Init => OpenInv
  BY DEF Init, OpenInv, Connected
<1>2. CloseInv /\ OpenInv /\ [Next]_vars => OpenInv'
  <2> SUFFICES ASSUME CloseInv, OpenInv, [Next]_vars PROVE OpenInv'
    OBVIOUS
  <2>1. CASE UNCHANGED vars
    BY <2>1 DEF vars, OpenInv, Connected
  <2> QED
    BY <2>1, OpenInvStep
<1> QED
  BY <1>1, <1>2, CloseInvariance, PTL DEF Spec

-----------------------------------------------------------------------------
(* The graph that Ownership sees is a function of these facts.             *)
LEMMA LifeIs ==
  /\ Life \in [Connects \cup Opens -> {"absent", "live", "ended"}]
  /\ \A k \in Connects :
       Life[k] = IF ~Connected(k) THEN "absent"
                 ELSE IF opener[k] = "closed" THEN "ended" ELSE "live"
  /\ \A n \in Opens :
       Life[n] = IF ~Tracked(n) THEN "absent" ELSE IF Done(n) THEN "ended" ELSE "live"
BY LifecycleAssumption DEF Life

(* The same after a step.                                                  *)
LEMMA LifeIsThen ==
  /\ Life' \in [Connects \cup Opens -> {"absent", "live", "ended"}]
  /\ \A k \in Connects :
       Life'[k] = IF ~Connected(k)' THEN "absent"
                  ELSE IF opener'[k] = "closed" THEN "ended" ELSE "live"
  /\ \A n \in Opens :
       Life'[n] = IF ~Tracked(n)' THEN "absent" ELSE IF Done(n)' THEN "ended" ELSE "live"
BY LifecycleAssumption DEF Life

(* A step that changes none of them changes no life.                       *)
LEMMA SameLife ==
  ASSUME \A k \in Connects :
           Connected(k)' = Connected(k) /\ (Connected(k) => opener'[k] = opener[k]),
         \A n \in Opens : Tracked(n)' = Tracked(n) /\ (Tracked(n) => Done(n)' = Done(n))
  PROVE  Life' = Life
BY LifeIs, LifeIsThen

(* A step that changes one life changes the graph at that place.           *)
LEMMA OneLife ==
  ASSUME NEW x \in Connects \cup Opens, NEW v, Life'[x] = v,
         \A y \in (Connects \cup Opens) \ {x} : Life'[y] = Life[y]
  PROVE  Life' = [Life EXCEPT ![x] = v]
BY LifeIs, LifeIsThen

(* A step that tracks no session changes no parent (connection.go:84).     *)
LEMMA SameParent ==
  ASSUME \A n \in Opens : /\ Tracked(n)' = Tracked(n)
                          /\ Tracked(n) => open'[n].connection = open[n].connection
  PROVE  Parent' = Parent
BY DEF Parent

(* So a step that changes none of this is no step of Ownership.            *)
LEMMA Stutters ==
  ASSUME server'.closed = server.closed, server'.closeDone = server.closeDone,
         \A k \in Connects :
           /\ Connected(k)' = Connected(k) /\ (Connected(k) => opener'[k] = opener[k])
           /\ connection'[k].closed = connection[k].closed,
         \A n \in Opens :
           /\ Tracked(n)' = Tracked(n) /\ (Tracked(n) => Done(n)' = Done(n))
           /\ Tracked(n) => open'[n].connection = open[n].connection
  PROVE  UNCHANGED <<ServerState, Closing, Life, Parent>>
<1>1. UNCHANGED <<ServerState, Closing>>
  BY DEF ServerState, Closing
<1> QED
  BY <1>1, SameLife, SameParent

-----------------------------------------------------------------------------
(* Every step is a step of Ownership or none (server.go:36-110,            *)
(* connection.go:54-139, session.go:394-414, 456-493).                     *)
Simulates == Owner!Next \/ UNCHANGED <<ServerState, Closing, Life, Parent>>

(* Server.Connect (server.go:36-75).                                       *)
LEMMA ConnectMaps ==
  ASSUME CloseInv, OpenInv, NEW k \in Connects,
         ConnectBegin(k) \/ Dial(k) \/ Track(k) \/ DiscardOpener(k)
  PROVE  Simulates
<1>1. /\ TypeOK /\ UNCHANGED <<connection, open, stream, session, close>>
      /\ server'.closed = server.closed /\ server'.closeDone = server.closeDone
      /\ \A n \in Opens : Tracked(n)' = Tracked(n) /\ Done(n)' = Done(n)
  BY DEF CloseInv, IInv, TypeOK, ServerType, ConnectBegin, Dial, Track, DiscardOpener,
     ConnectFrame, Tracked, Done
<1>2. CASE Track(k) /\ ~server.closed
  <2>1. /\ connect' = [connect EXCEPT ![k] = "connected"] /\ UNCHANGED opener
        /\ connect[k] = "dialed" /\ opener[k] # "closed"
    BY <1>2 DEF Track, StillOpen, OpenInv
  <2>2. Life[k] = "absent" /\ Life'[k] = "live" /\ ServerState = "open"
    BY <1>1, <1>2, <2>1, LifeIs, LifeIsThen DEF Connected, TypeOK, ServerState
  <2>3. \A y \in (Connects \cup Opens) \ {k} : Life'[y] = Life[y]
    BY <1>1, <2>1, LifeIs, LifeIsThen, LifecycleAssumption DEF Connected, TypeOK
  <2>4. Life' = [Life EXCEPT ![k] = "live"]
    BY <2>2, <2>3, OneLife
  <2>5. UNCHANGED <<ServerState, Closing, Parent>>
    BY <1>1, SameParent DEF ServerState, Closing
  <2>6. Owner!Connect(k)
    BY <2>2, <2>4, <2>5 DEF Owner!Connect, ServerState, Closing, Parent
  <2> QED
    BY <2>6 DEF Simulates, Owner!Next
<1>3. CASE ~(Track(k) /\ ~server.closed)
  <2>1. \A j \in Connects :
          Connected(j)' = Connected(j) /\ (Connected(j) => opener'[j] = opener[j])
    BY <1>1, <1>3 DEF ConnectBegin, Dial, Track, DiscardOpener, StillOpen, Connected, TypeOK
  <2> QED
    BY <1>1, <2>1, Stutters DEF Simulates
<1> QED
  BY <1>2, <1>3

(* Connection.NewSession (connection.go:54-91).                            *)
LEMMA OpenMaps ==
  ASSUME CloseInv, OpenInv, NEW n \in Opens,
         \/ \E k \in Connects : OpenBegin(n, k)
         \/ OpenStream(n) \/ TrackSession(n) \/ DiscardStream(n) \/ Start(n)
  PROVE  Simulates
<1>1. /\ TypeOK /\ UNCHANGED <<server, connect, opener>>
      /\ open[n].pc # "idle" => open[n].connection \in Connects /\ Connected(open[n].connection)
  BY DEF CloseInv, IInv, OpenInv, LoopsCloseStreams, OpenBegin, OpenStream, TrackSession,
     DiscardStream, Start, OpenFrame
<1>2. CASE TrackSession(n) /\ ~connection[open[n].connection].closed
  <2>0. PICK k \in Connects : k = open[n].connection /\ Connected(k)
    BY <1>1, <1>2 DEF TrackSession
  <2>1. /\ open' = [open EXCEPT ![n].pc = "tracked"] /\ open[n].pc = "opened"
        /\ connection' = [connection EXCEPT ![k].sessions = @ \cup {n}]
        /\ UNCHANGED session
    BY <1>1, <1>2, <2>0 DEF TrackSession, StillOpen
  <2>2. /\ ~Tracked(n) /\ Tracked(n)' /\ open'[n].connection = k
        /\ \A m \in Opens \ {n} : open'[m] = open[m] /\ Tracked(m)' = Tracked(m)
        /\ \A m \in Opens : Done(m)' = Done(m)
    BY <1>1, <2>0, <2>1 DEF Tracked, Done, TypeOK, OpenType
  <2>3. ~Done(n) /\ opener[k] # "closed"
    BY <1>2, <2>0, <2>1 DEF CloseInv, IInv, LoopsCloseStreams, OpenInv, Done
  <2>4. Life[n] = "absent" /\ Life[k] = "live" /\ Life'[n] = "live" /\ k \notin Closing
    BY <1>2, <2>0, <2>2, <2>3, LifeIs, LifeIsThen DEF Closing
  <2>5. \A y \in (Connects \cup Opens) \ {n} : Life'[y] = Life[y]
    BY <1>1, <2>2, LifeIs, LifeIsThen, LifecycleAssumption DEF Connected
  <2>6. Life' = [Life EXCEPT ![n] = "live"]
    BY <2>4, <2>5, OneLife
  <2>7. Parent' = [Parent EXCEPT ![n] = k]
    BY <2>2 DEF Parent
  <2>8. UNCHANGED <<ServerState, Closing>>
    BY <1>1, <2>1 DEF ServerState, Closing, TypeOK, ConnectionType
  <2>9. Owner!OpenSession(n, k)
    BY <2>4, <2>6, <2>7, <2>8 DEF Owner!OpenSession, ServerState, Closing, Parent
  <2> QED
    BY <2>9 DEF Simulates, Owner!Next
<1>3. CASE ~(TrackSession(n) /\ ~connection[open[n].connection].closed)
  <2>1. /\ UNCHANGED connection
        /\ \A m \in Opens \ {n} : open'[m] = open[m] /\ session'[m] = session[m]
        /\ Tracked(n)' = Tracked(n) /\ Done(n)' = Done(n)
        /\ Tracked(n) => open'[n].connection = open[n].connection
    <3>1. CASE \E k \in Connects : OpenBegin(n, k)
      BY <1>1, <3>1 DEF OpenBegin, Tracked, Done, TypeOK, OpenType
    <3>2. CASE OpenStream(n)
      BY <1>1, <3>2 DEF OpenStream, Tracked, Done, TypeOK, OpenType
    <3>3. CASE TrackSession(n)
      BY <1>1, <1>3, <3>3 DEF TrackSession, StillOpen, Tracked, Done, TypeOK, OpenType
    <3>4. CASE DiscardStream(n)
      BY <1>1, <3>4 DEF DiscardStream, Tracked, Done, TypeOK, OpenType
    <3>5. CASE Start(n)
      <4>1. session[n].loop = "none"
        BY <3>5 DEF Start, CloseInv, IInv, LoopsCloseStreams
      <4> QED
        BY <1>1, <3>5, <4>1 DEF Start, Tracked, Done, TypeOK, OpenType, SessionType
    <3> QED
      BY <3>1, <3>2, <3>3, <3>4, <3>5
  <2>2. \A m \in Opens : /\ Tracked(m)' = Tracked(m) /\ Done(m)' = Done(m)
                         /\ Tracked(m) => open'[m].connection = open[m].connection
    BY <2>1 DEF Tracked, Done
  <2> QED
    BY <1>1, <2>1, <2>2, Stutters DEF Simulates, Connected
<1> QED
  BY <1>2, <1>3

(* The end of a read loop (session.go:456-493).                            *)
LEMMA LoopMaps ==
  ASSUME CloseInv, OpenInv, NEW n \in Opens, LoopNext(n)
  PROVE  Simulates
<1>1. /\ TypeOK /\ UNCHANGED <<server, connect, opener, open>>
      /\ \A m \in Opens : Tracked(m)' = Tracked(m)
      /\ session[n].loop # "none" => Tracked(n)
  BY DEF CloseInv, IInv, LoopsCloseStreams, Tracked, LoopNext, EndLoop, Finish, RemoveSession,
     LoopFrame
<1>2. CASE Finish(n)
  <2>1. /\ session' = [session EXCEPT ![n].loop = "done"] /\ session[n].loop = "finishing"
        /\ UNCHANGED connection
    BY <1>2 DEF Finish
  <2>2. /\ ~Done(n) /\ Done(n)' /\ Tracked(n) /\ Tracked(n)'
        /\ \A m \in Opens \ {n} : Done(m)' = Done(m)
    BY <1>1, <2>1 DEF Done, TypeOK, SessionType
  <2>3. Life[n] = "live" /\ Life'[n] = "ended"
    BY <2>2, LifeIs, LifeIsThen
  <2>4. \A y \in (Connects \cup Opens) \ {n} : Life'[y] = Life[y]
    BY <1>1, <2>2, LifeIs, LifeIsThen, LifecycleAssumption DEF Connected
  <2>5. Life' = [Life EXCEPT ![n] = "ended"]
    BY <2>3, <2>4, OneLife
  <2>6. UNCHANGED <<ServerState, Closing, Parent>>
    BY <1>1, <2>1, SameParent DEF ServerState, Closing
  <2>7. Owner!EndSession(n)
    BY <2>3, <2>5, <2>6 DEF Owner!EndSession, ServerState, Closing, Parent
  <2> QED
    BY <2>7 DEF Simulates, Owner!Next
<1>3. CASE EndLoop(n) \/ RemoveSession(n)
  <2>1. /\ \A m \in Opens : Done(m)' = Done(m)
        /\ \A k \in Connects : connection'[k].closed = connection[k].closed
    <3>1. CASE EndLoop(n)
      BY <1>1, <3>1 DEF EndLoop, Done, TypeOK, SessionType
    <3>2. CASE RemoveSession(n)
      BY <1>1, <3>2 DEF RemoveSession, Done, TypeOK, SessionType, ConnectionType
    <3> QED
      BY <1>3, <3>1, <3>2
  <2> QED
    BY <1>1, <2>1, Stutters DEF Simulates, Connected
<1> QED
  BY <1>2, <1>3 DEF LoopNext

(* Every Close (server.go:77-123, connection.go:94-132, session.go:394).   *)
LEMMA CloseMaps ==
  ASSUME CloseInv, OpenInv, NEW t \in Closes, CloseServer(t) \/ CloseNext(t)
  PROVE  Simulates
<1> USE DEF RunsServer, RunsConnection, AtConnection, AtSession
<1>1. /\ TypeOK /\ Works(t) /\ Lists(t) /\ UNCHANGED <<connect, open>>
      /\ \A m \in Opens : Tracked(m)' = Tracked(m)
  BY DEF CloseInv, IInv, Tracked, CloseServer, CloseNext, JoinServer, NextConnection,
     CloseConnection, JoinConnection, NextSession, CloseOpener, EndConnection, RemoveConnection,
     CloseSession, CloseStream, AwaitDone, JoinSession
<1>2. CASE CloseServer(t) \/ JoinServer(t)
  <2>1. UNCHANGED <<opener, connection, session>> /\ UNCHANGED <<Closing, Life, Parent>>
    <3>1. UNCHANGED <<opener, connection, session>>
      BY <1>2 DEF CloseServer, JoinServer
    <3> QED
      BY <1>1, <3>1, SameLife, SameParent DEF Closing, Connected, Done
  <2>2. CASE UNCHANGED server
    BY <2>1, <2>2 DEF Simulates, ServerState
  <2>3. CASE ~server.closed /\ server' = [server EXCEPT !.closed = TRUE]
    <3>1. ~server.closeDone
      BY <2>3 DEF CloseInv, Over
    <3>2. ServerState = "open" /\ ServerState' = "closing"
      BY <1>1, <2>3, <3>1 DEF ServerState, TypeOK, ServerType
    <3>3. Owner!CloseServer
      BY <2>1, <3>2 DEF Owner!CloseServer, ServerState, Closing, Parent
    <3> QED
      BY <3>3 DEF Simulates, Owner!Next
  <2> QED
    BY <1>2, <2>2, <2>3 DEF CloseServer, JoinServer
<1>3. CASE NextConnection(t)
  <2>1. UNCHANGED <<opener, connection, session>> /\ UNCHANGED <<Closing, Life, Parent>>
    <3>1. UNCHANGED <<opener, connection, session>>
      BY <1>3 DEF NextConnection
    <3> QED
      BY <1>1, <3>1, SameLife, SameParent DEF Closing, Connected, Done
  <2>2. CASE UNCHANGED server
    BY <2>1, <2>2 DEF Simulates, ServerState
  <2>3. CASE close[t].connections = {} /\ ~UNCHANGED server
    <3>1. server.closed /\ ~server.closeDone /\ close[t].pc = "nextConnection"
      BY <1>1, <1>3 DEF NextConnection, Works
    <3>2. server'.closed /\ server'.closeDone
      BY <1>1, <1>3, <2>3, <3>1 DEF NextConnection, TypeOK, ServerType
    <3>3. ServerState = "closing" /\ ServerState' = "closed"
      BY <3>1, <3>2 DEF ServerState
    <3>4. \A k \in Connects : Life[k] # "live"
      <4>1. \A k \in Connects : Connected(k) => connection[k].closeDone
        BY <1>1, <1>3, <2>3, <3>1 DEF Lists, NextConnection, Works
      <4> QED
        BY <4>1, LifeIs DEF CloseInv, Over, ConnectionOver
    <3>5. Owner!EndServer
      BY <2>1, <3>3, <3>4 DEF Owner!EndServer, ServerState, Closing, Parent
    <3> QED
      BY <3>5 DEF Simulates, Owner!Next
  <2> QED
    BY <1>3, <2>2, <2>3 DEF NextConnection
<1>4. CASE \E k \in Connects : CloseConnection(t, k)
  <2>1. PICK k \in Connects : CloseConnection(t, k)
    BY <1>4
  <2>2. /\ Connected(k) /\ connection' = [connection EXCEPT ![k].closed = TRUE]
        /\ UNCHANGED <<server, opener, session>>
    BY <1>1, <2>1, AtTypes DEF CloseConnection, Connected, CloseInv
  <2>3. UNCHANGED <<ServerState, Life, Parent>>
    BY <1>1, <2>2, SameLife, SameParent DEF ServerState, Connected, Done
  <2>4. Closing' = Closing \cup {k}
    BY <1>1, <2>2 DEF Closing, TypeOK, ConnectionType
  <2>5. CASE k \in Closing
    BY <2>3, <2>4, <2>5 DEF Simulates
  <2>6. CASE k \notin Closing
    <3>1. Life[k] = "live"
      BY <2>2, <2>6, LifeIs DEF Closing, OpenInv
    <3>2. Owner!CloseConnection(k)
      BY <2>3, <2>4, <2>6, <3>1 DEF Owner!CloseConnection, ServerState, Closing, Parent
    <3> QED
      BY <3>2 DEF Simulates, Owner!Next
  <2> QED
    BY <2>5, <2>6
<1>5. CASE CloseOpener(t)
  <2> DEFINE k == close[t].connection
  <2>1. /\ close[t].pc = "closeOpener" /\ k \in Connects /\ Connected(k) /\ connection[k].closed
        /\ opener' = [opener EXCEPT ![k] = "closed"]
        /\ UNCHANGED <<server, connection, session>>
    BY <1>1, <1>5, AtTypes DEF CloseOpener, CloseInv, Works
  <2>2. UNCHANGED <<ServerState, Closing, Parent>>
    BY <1>1, <2>1, SameParent DEF ServerState, Closing
  <2>3. CASE opener[k] = "closed"
    <3>1. UNCHANGED Life
      BY <1>1, <2>1, <2>3, SameLife DEF Connected, Done, TypeOK
    <3> QED
      BY <2>2, <3>1 DEF Simulates
  <2>4. CASE opener[k] # "closed"
    <3>1. Life[k] = "live" /\ Life'[k] = "ended"
      BY <1>1, <2>1, <2>4, LifeIs, LifeIsThen DEF Connected, TypeOK
    <3>2. \A y \in (Connects \cup Opens) \ {k} : Life'[y] = Life[y]
      BY <1>1, <2>1, LifeIs, LifeIsThen, LifecycleAssumption DEF Connected, Done, TypeOK
    <3>3. Life' = [Life EXCEPT ![k] = "ended"]
      BY <2>1, <3>1, <3>2, OneLife
    <3>4. \A n \in Opens : Parent[n] = k => Life[n] = "ended"
      BY <1>1, <2>1, LifeIs, LifecycleAssumption DEF Parent, Lists, SessionsOf
    <3>5. k \in Closing
      BY <2>1 DEF Closing
    <3>6. Owner!EndConnection(k)
      BY <2>2, <3>1, <3>3, <3>4, <3>5
      DEF Owner!EndConnection, Owner!Children, ServerState, Closing, Parent
    <3> QED
      BY <2>1, <3>6 DEF Simulates, Owner!Next
  <2> QED
    BY <2>3, <2>4
<1>6. CASE \/ JoinConnection(t) \/ NextSession(t) \/ EndConnection(t) \/ RemoveConnection(t)
           \/ \E n \in Opens : CloseSession(t, n)
           \/ CloseStream(t) \/ AwaitDone(t) \/ JoinSession(t)
  <2>1. UNCHANGED opener
    BY <1>6 DEF JoinConnection, NextSession, EndConnection, RemoveConnection, CloseSession,
       CloseStream, AwaitDone, JoinSession
  <2>2. server'.closed = server.closed /\ server'.closeDone = server.closeDone
    BY <1>1, <1>6 DEF JoinConnection, NextSession, EndConnection, RemoveConnection, CloseSession,
       CloseStream, AwaitDone, JoinSession, TypeOK, ServerType
  <2>3. \A k \in Connects : connection'[k].closed = connection[k].closed
    <3>1. CASE EndConnection(t)
      BY <1>1, <3>1 DEF EndConnection, TypeOK, ConnectionType
    <3>2. CASE UNCHANGED connection
      BY <3>2
    <3> QED
      BY <1>6, <3>1, <3>2
      DEF JoinConnection, NextSession, RemoveConnection, CloseSession, CloseStream, AwaitDone,
          JoinSession
  <2>4. \A n \in Opens : Done(n)' = Done(n)
    <3>1. CASE \E n \in Opens : CloseSession(t, n)
      BY <1>1, <3>1 DEF CloseSession, Done, TypeOK, SessionType
    <3>2. CASE CloseStream(t)
      BY <1>1, <3>2 DEF CloseStream, Done, TypeOK, SessionType
    <3>3. CASE AwaitDone(t)
      BY <1>1, <3>3 DEF AwaitDone, Done, TypeOK, SessionType
    <3>4. CASE UNCHANGED session
      BY <3>4 DEF Done
    <3> QED
      BY <1>6, <3>1, <3>2, <3>3, <3>4
      DEF JoinConnection, NextSession, EndConnection, RemoveConnection, JoinSession
  <2> QED
    BY <1>1, <2>1, <2>2, <2>3, <2>4, Stutters DEF Simulates, Connected
<1> QED
  BY <1>2, <1>3, <1>4, <1>5, <1>6 DEF CloseNext

-----------------------------------------------------------------------------
(* The object graph of a server implements Ownership: nothing is born to a *)
(* parent that is closing, and a parent ends after its children, whatever  *)
(* races (server.go:49-110, connection.go:73-132).                         *)
THEOREM OwnershipHolds == Spec => ImplementsOwnership
<1>1. Init => Owner!Init
  <2> SUFFICES ASSUME Init PROVE Owner!Init
    OBVIOUS
  <2>1. \A x \in Connects \cup Opens : Life[x] = "absent"
    BY LifeIs DEF Init, Connected, Tracked
  <2>2. Life = [x \in Connects \cup Opens |-> "absent"]
    BY <2>1, LifeIs
  <2> QED
    BY <2>2 DEF Init, Owner!Init, Tracked
<1>2. CloseInv /\ OpenInv /\ [Next]_vars => [Owner!Next]_(Owner!vars)
  <2> SUFFICES ASSUME CloseInv, OpenInv, [Next]_vars PROVE Simulates
    BY DEF Simulates, Owner!vars, ServerState, Closing, Parent
  <2>1. CASE UNCHANGED vars
    BY <2>1, Stutters DEF vars, Simulates, Connected, Tracked, Done
  <2>2. CASE Next
    BY <2>2, ConnectMaps, OpenMaps, LoopMaps, CloseMaps DEF Next
  <2> QED
    BY <2>1, <2>2
<1> QED
  BY <1>1, <1>2, OpenInvariance, PTL DEF Spec, ImplementsOwnership, Owner!Spec
=============================================================================
