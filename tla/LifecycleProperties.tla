------------------------ MODULE LifecycleProperties -------------------------
(***************************************************************************)
(* What the object graph of a server promises.                             *)
(***************************************************************************)
EXTENDS Lifecycle

(* The types of the variables. *)
ServerType ==
  [closed : BOOLEAN, closeDone : BOOLEAN, closeErr : BOOLEAN, connections : SUBSET Connects]
ConnectionType ==
  [closed : BOOLEAN, closeDone : BOOLEAN, closeErr : BOOLEAN, sessions : SUBSET Opens]
OpenType ==
  [pc : {"idle", "opening", "opened", "tracked", "started", "discard", "refused", "failed"},
   connection : Connects \cup {None}]
SessionType ==
  [loop : {"none", "reading", "finishing", "done", "removed"},
   once : {"new", "running", "done"}, closeErr : BOOLEAN]
CloseType ==
  [pc : {"idle", "joinServer", "nextConnection", "closeConnection", "joinConnection",
         "nextSession", "closeSession", "joinSession", "closeStream", "awaitDone",
         "closeOpener", "endConnection", "removeConnection", "returned"},
   target      : {"none", "session", "connection", "server"},
   connection  : Connects \cup {None}, session : Opens \cup {None},
   connections : SUBSET Connects, sessions : SUBSET Opens,
   failed      : BOOLEAN, result : BOOLEAN]
TransportState == {"none", "open", "closed"}

(* Every variable keeps its type (server.go:13-24, connection.go:37-47),   *)
(* and a closeOnce that has run saw the read loop end (session.go:397-408).*)
TypeOK ==
  /\ server \in ServerType
  /\ connect \in [Connects -> {"idle", "dialing", "dialed", "connected", "discard", "refused",
                               "failed"}]
  /\ opener \in [Connects -> TransportState]
  /\ connection \in [Connects -> ConnectionType]
  /\ open \in [Opens -> OpenType]
  /\ stream \in [Opens -> TransportState]
  /\ session \in [Opens -> SessionType]
  /\ close \in [Closes -> CloseType]
  /\ \A n \in Opens : session[n].once = "done" => Done(n)

(* A connection was handed out, or a session is known to its connection.   *)
Connected(k) == connect[k] = "connected"
Tracked(n) == open[n].pc \in {"tracked", "started"}
SessionsOf(k) == {n \in Opens : Tracked(n) /\ open[n].connection = k}

(* Nothing the transport opened is ever forgotten: what is open is either  *)
(* tracked by its parent, whose Close will close it, or in the hands of    *)
(* the call that opened it (server.go:49-71, connection.go:66-86).         *)
NothingLeaks ==
  /\ \A k \in Connects :
       opener[k] = "open" => connect[k] \in {"dialed", "discard"} \/ k \in server.connections
  /\ \A n \in Opens :
       stream[n] = "open" =>
         open[n].pc \in {"opened", "discard"} \/ n \in connection[open[n].connection].sessions

(* When Close returns, whoever called it first, what it closes is closed   *)
(* with everything below it: the read loops of its sessions have stopped   *)
(* and its transport connections are closed (server.go:77-110,             *)
(* connection.go:94-132, session.go:394-414).                              *)
CloseMeansClosed ==
  \A t \in Closes :
    close[t].pc = "returned" =>
      /\ close[t].target = "session" => Done(close[t].session)
      /\ \A k \in Connects :
           \/ close[t].target = "server" /\ Connected(k)
           \/ close[t].target = "connection" /\ close[t].connection = k
           => /\ opener[k] = "closed"
              /\ \A n \in SessionsOf(k) : Done(n) /\ stream[n] = "closed"

(* Every caller of Close of one object gets the same error (server.go:     *)
(* 79-86, connection.go:96-104, session.go:397-413).                       *)
ClosersAgree ==
  \A t, u \in Closes :
    /\ close[t].pc = "returned" /\ close[u].pc = "returned"
    /\ close[t].target = close[u].target
    /\ close[t].target = "connection" => close[t].connection = close[u].connection
    /\ close[t].target = "session" => close[t].session = close[u].session
    => close[t].result = close[u].result

(* Closing is over for everyone at once: all below is closed, and every    *)
(* caller is told the same (server.go:77-110, connection.go:94-132,        *)
(* session.go:394-414).                                                    *)
ClosedForEveryone == CloseMeansClosed /\ ClosersAgree

(* The graph as Ownership sees it: a connection is live from the time the  *)
(* server tracks it until its transport connection is closed, a session    *)
(* from the time its connection tracks it until it is done.                *)
Life ==
  [x \in Connects \cup Opens |->
     IF x \in Connects
       THEN IF ~Connected(x) THEN "absent" ELSE IF opener[x] = "closed" THEN "ended" ELSE "live"
       ELSE IF ~Tracked(x) THEN "absent" ELSE IF Done(x) THEN "ended" ELSE "live"]

Owner == INSTANCE Ownership WITH
  Connections <- Connects,
  Sessions    <- Opens,
  server      <- IF ~server.closed THEN "open"
                 ELSE IF server.closeDone THEN "closed" ELSE "closing",
  closing     <- {k \in Connects : connection[k].closed},
  life        <- Life,
  parent      <- [n \in Opens |-> IF Tracked(n) THEN open[n].connection ELSE None]

(* The server implements Ownership: nothing is born to a parent that is    *)
(* closing, and closing "proceeds from sessions to connections"            *)
(* (server.go:49-110, connection.go:73-132).                               *)
ImplementsOwnership == Owner!Spec

(* Close returns to every caller, no two of them wait for each other, and  *)
(* after a Close of the server nothing stays open, not even what a call of *)
(* Connect or NewSession was about to open (server.go:54-60, 77-110,       *)
(* connection.go:75-82, 94-132): again and again nobody is closing         *)
(* anything and a closed server has nothing open.                          *)
ClosingCompletes ==
  []<>(/\ \A t \in Closes : close[t].pc \in {"idle", "returned"}
       /\ server.closed => /\ \A k \in Connects : opener[k] # "open"
                           /\ \A n \in Opens : stream[n] # "open")
=============================================================================
