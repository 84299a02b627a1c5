----------------------------- MODULE Lifecycle ------------------------------
(***************************************************************************)
(* The object graph of a terminal server: Server.Connect and Server.Close  *)
(* (server.go), Connection.NewSession and Connection.Close                 *)
(* (connection.go), and of a session its start, its read loop's end and    *)
(* its Close (session.go).  All of them run at once; a critical section    *)
(* under the server's or a connection's mutex is one step, and the calls   *)
(* of the transport between two critical sections are steps of their own.  *)
(*                                                                         *)
(* A connection has the name of the call of Connect that makes it, and a   *)
(* session that of its call of NewSession.  Session models the inside of a *)
(* session: here its read loop only ends.                                  *)
(***************************************************************************)
EXTENDS Naturals, FiniteSets

CONSTANTS
  Connects,   \* callers of Server.Connect
  Opens,      \* callers of Connection.NewSession
  Closes,     \* callers of Close of the server, a connection or a session
  None        \* no connection or session

ASSUME LifecycleAssumption ==
  None \notin Connects \cup Opens /\ Connects \cap Opens = {}

VARIABLES
  server,      \* closed, closeDone, closeErr and the tracked connections
  connect,     \* where each call of Connect is
  opener,      \* each transport connection
  connection,  \* closed, closeDone, closeErr and the tracked sessions
  open,        \* where each call of NewSession is, and its connection
  stream,      \* each transport session
  session,     \* the read loop, and closeOnce and closeErr
  close        \* where each call of Close is: the loops of Server.Close and
               \* Connection.Close with what is left of their lists

vars == <<server, connect, opener, connection, open, stream, session, close>>

Init ==
  /\ server = [closed |-> FALSE, closeDone |-> FALSE, closeErr |-> FALSE, connections |-> {}]
  /\ connect = [k \in Connects |-> "idle"]
  /\ opener = [k \in Connects |-> "none"]
  /\ connection = [k \in Connects |->
                     [closed |-> FALSE, closeDone |-> FALSE, closeErr |-> FALSE, sessions |-> {}]]
  /\ open = [n \in Opens |-> [pc |-> "idle", connection |-> None]]
  /\ stream = [n \in Opens |-> "none"]
  /\ session = [n \in Opens |-> [loop |-> "none", once |-> "new", closeErr |-> FALSE]]
  /\ close = [t \in Closes |->
                [pc |-> "idle", target |-> "none", connection |-> None, session |-> None,
                 connections |-> {}, sessions |-> {}, failed |-> FALSE, result |-> FALSE]]

-----------------------------------------------------------------------------
(* Server.Connect.                                                         *)

ConnectFrame == UNCHANGED <<connection, open, stream, session, close>>

ConnectBegin(k) ==
  /\ connect[k] = "idle"
  /\ connect' = [connect EXCEPT ![k] = IF server.closed THEN "refused" ELSE "dialing"]
  /\ UNCHANGED <<server, opener>> /\ ConnectFrame

(* connector.Connect, without the server's lock. *)
Dial(k) ==
  /\ connect[k] = "dialing"
  /\ \/ opener' = [opener EXCEPT ![k] = "open"] /\ connect' = [connect EXCEPT ![k] = "dialed"]
     \/ connect' = [connect EXCEPT ![k] = "failed"] /\ UNCHANGED opener
  /\ UNCHANGED server /\ ConnectFrame

StillOpen(owner) == ~owner.closed

(* The lock again: the server may have been closed since. *)
Track(k) ==
  /\ connect[k] = "dialed"
  /\ IF StillOpen(server)
       THEN /\ server' = [server EXCEPT !.connections = @ \cup {k}]
            /\ connect' = [connect EXCEPT ![k] = "connected"]
       ELSE connect' = [connect EXCEPT ![k] = "discard"] /\ UNCHANGED server
  /\ UNCHANGED opener /\ ConnectFrame

KeepOpener(k) ==   \* mutant: the opener of a refused Connect is not closed
  /\ connect[k] = "discard"
  /\ connect' = [connect EXCEPT ![k] = "refused"]
  /\ UNCHANGED <<server, opener>> /\ ConnectFrame

DiscardOpener(k) ==
  /\ connect[k] = "discard"
  /\ opener' = [opener EXCEPT ![k] = "closed"]
  /\ connect' = [connect EXCEPT ![k] = "refused"]
  /\ UNCHANGED server /\ ConnectFrame

-----------------------------------------------------------------------------
(* Connection.NewSession.                                                  *)

OpenFrame == UNCHANGED <<server, connect, opener, close>>

OpenBegin(n, k) ==
  /\ open[n].pc = "idle" /\ connect[k] = "connected"
  /\ open' = [open EXCEPT ![n] = [pc         |-> IF connection[k].closed THEN "refused"
                                                                         ELSE "opening",
                                  connection |-> k]]
  /\ UNCHANGED <<connection, stream, session>> /\ OpenFrame

(* opener.OpenSession, without the connection's lock.  A closed transport  *)
(* connection opens nothing.                                               *)
OpenStream(n) ==
  /\ open[n].pc = "opening"
  /\ \/ /\ opener[open[n].connection] = "open"
        /\ stream' = [stream EXCEPT ![n] = "open"]
        /\ open' = [open EXCEPT ![n].pc = "opened"]
     \/ open' = [open EXCEPT ![n].pc = "failed"] /\ UNCHANGED stream
  /\ UNCHANGED <<connection, session>> /\ OpenFrame

(* The lock again: the connection may have been closed since. *)
TrackSession(n) ==
  LET k == open[n].connection IN
  /\ open[n].pc = "opened"
  /\ IF StillOpen(connection[k])
       THEN /\ connection' = [connection EXCEPT ![k].sessions = @ \cup {n}]
            /\ open' = [open EXCEPT ![n].pc = "tracked"]
       ELSE open' = [open EXCEPT ![n].pc = "discard"] /\ UNCHANGED connection
  /\ UNCHANGED <<stream, session>> /\ OpenFrame

DiscardStream(n) ==
  /\ open[n].pc = "discard"
  /\ stream' = [stream EXCEPT ![n] = "closed"]
  /\ open' = [open EXCEPT ![n].pc = "refused"]
  /\ UNCHANGED <<connection, session>> /\ OpenFrame

(* session.start: the read loop runs, and the caller gets the session. *)
Start(n) ==
  /\ open[n].pc = "tracked"
  /\ session' = [session EXCEPT ![n].loop = "reading"]
  /\ open' = [open EXCEPT ![n].pc = "started"]
  /\ UNCHANGED <<connection, stream>> /\ OpenFrame

-----------------------------------------------------------------------------
(* The end of a session's read loop.                                       *)

LoopFrame == UNCHANGED <<server, connect, opener, open, close>>

(* The host, an error or a closed stream ends the loop, which closes the   *)
(* stream.                                                                 *)
EndLoop(n) ==
  /\ session[n].loop = "reading"
  /\ stream' = [stream EXCEPT ![n] = "closed"]
  /\ session' = [session EXCEPT ![n].loop = "finishing"]
  /\ UNCHANGED connection /\ LoopFrame

(* finish closes done ... *)
Finish(n) ==
  /\ session[n].loop = "finishing"
  /\ session' = [session EXCEPT ![n].loop = "done"]
  /\ UNCHANGED <<connection, stream>> /\ LoopFrame

(* ... and then calls onClose, removeSession. *)
RemoveSession(n) ==
  /\ session[n].loop = "done"
  /\ connection' = [connection EXCEPT ![open[n].connection].sessions = @ \ {n}]
  /\ session' = [session EXCEPT ![n].loop = "removed"]
  /\ UNCHANGED stream /\ LoopFrame

Done(n) == session[n].loop \in {"done", "removed"}

-----------------------------------------------------------------------------
(* Close.  Server.Close calls Connection.Close, which calls Session.Close. *)

(* The call of Session.Close that t makes ends with err ... *)
SessionClosed(t, err) ==
  close' = [close EXCEPT ![t] =
              IF @.target = "session" THEN [@ EXCEPT !.pc = "returned", !.result = err]
                                      ELSE [@ EXCEPT !.pc = "nextSession",
                                                !.failed = close[t].failed \/ err]]

(* ... and so does its call of Connection.Close. *)
ConnectionClosed(t, err) ==
  close' = [close EXCEPT ![t] =
              IF @.target = "connection"
                THEN [@ EXCEPT !.pc = "returned", !.result = err]
                ELSE [@ EXCEPT !.pc = "nextConnection",
                               !.result = close[t].result \/ err]]

CloseServer(t) ==
  /\ close[t].pc = "idle"
  /\ IF server.closed
       THEN /\ close' = [close EXCEPT ![t].pc = "joinServer", ![t].target = "server"]
            /\ UNCHANGED server
       ELSE /\ server' = [server EXCEPT !.closed = TRUE]
            /\ close' = [close EXCEPT ![t].pc = "nextConnection", ![t].target = "server",
                                      ![t].connections = server.connections]
  /\ UNCHANGED <<connect, opener, connection, open, stream, session>>

JoinServer(t) ==
  /\ close[t].pc = "joinServer" /\ server.closeDone
  /\ close' = [close EXCEPT ![t].pc = "returned", ![t].result = server.closeErr]
  /\ UNCHANGED <<server, connect, opener, connection, open, stream, session>>

(* The loop of Server.Close, and its end. *)
NextConnection(t) ==
  /\ close[t].pc = "nextConnection"
  /\ \/ /\ close[t].connections = {}
        /\ server' = [server EXCEPT !.closeDone = TRUE, !.closeErr = close[t].result]
        /\ close' = [close EXCEPT ![t].pc = "returned"]
     \/ \E k \in close[t].connections :
          /\ close' = [close EXCEPT ![t].pc = "closeConnection", ![t].connection = k,
                                    ![t].connections = @ \ {k}]
          /\ UNCHANGED server
  /\ UNCHANGED <<connect, opener, connection, open, stream, session>>

(* Connection.Close, for a caller that was given k or for Server.Close. *)
CloseConnection(t, k) ==
  LET target == IF close[t].pc = "idle" THEN "connection" ELSE close[t].target IN
  /\ \/ close[t].pc = "idle" /\ connect[k] = "connected"
     \/ close[t].pc = "closeConnection" /\ close[t].connection = k
  /\ close' = [close EXCEPT ![t] =
                 [@ EXCEPT !.pc = IF connection[k].closed THEN "joinConnection" ELSE "nextSession",
                           !.target = target, !.connection = k, !.failed = FALSE,
                           !.sessions = connection[k].sessions]]
  /\ connection' = [connection EXCEPT ![k].closed = TRUE]
  /\ UNCHANGED <<server, connect, opener, open, stream, session>>

NoJoin(t) ==   \* mutant: a second Close of a connection returns at once
  /\ close[t].pc = "joinConnection"
  /\ ConnectionClosed(t, FALSE)
  /\ UNCHANGED <<server, connect, opener, connection, open, stream, session>>

JoinConnection(t) ==
  /\ close[t].pc = "joinConnection" /\ connection[close[t].connection].closeDone
  /\ ConnectionClosed(t, connection[close[t].connection].closeErr)
  /\ UNCHANGED <<server, connect, opener, connection, open, stream, session>>

(* The loop of Connection.Close, and the transport connection at its end. *)
NextSession(t) ==
  /\ close[t].pc = "nextSession"
  /\ \/ close[t].sessions = {} /\ close' = [close EXCEPT ![t].pc = "closeOpener"]
     \/ \E n \in close[t].sessions :
          close' = [close EXCEPT ![t].pc = "closeSession", ![t].session = n,
                                 ![t].sessions = @ \ {n}]
  /\ UNCHANGED <<server, connect, opener, connection, open, stream, session>>

CloseOpener(t) ==
  /\ close[t].pc = "closeOpener"
  /\ opener' = [opener EXCEPT ![close[t].connection] = "closed"]
  /\ \E failed \in BOOLEAN :
       close' = [close EXCEPT ![t].pc = "endConnection", ![t].failed = @ \/ failed]
  /\ UNCHANGED <<server, connect, connection, open, stream, session>>

EndConnectionUntold(t) ==   \* mutant: closeDone is not closed
  /\ close[t].pc = "endConnection"
  /\ connection' = [connection EXCEPT ![close[t].connection].closeErr = close[t].failed]
  /\ close' = [close EXCEPT ![t].pc = "removeConnection"]
  /\ UNCHANGED <<server, connect, opener, open, stream, session>>

EndConnection(t) ==
  /\ close[t].pc = "endConnection"
  /\ connection' = [connection EXCEPT ![close[t].connection].closeDone = TRUE,
                                      ![close[t].connection].closeErr = close[t].failed]
  /\ close' = [close EXCEPT ![t].pc = "removeConnection"]
  /\ UNCHANGED <<server, connect, opener, open, stream, session>>

RemoveConnection(t) ==
  /\ close[t].pc = "removeConnection"
  /\ server' = [server EXCEPT !.connections = @ \ {close[t].connection}]
  /\ ConnectionClosed(t, close[t].failed)
  /\ UNCHANGED <<connect, opener, connection, open, stream, session>>

(* Session.Close, for a caller that was given n or for Connection.Close:   *)
(* the first caller runs the body of closeOnce, the others wait for it.    *)
CloseSession(t, n) ==
  LET target == IF close[t].pc = "idle" THEN "session" ELSE close[t].target IN
  /\ \/ close[t].pc = "idle" /\ open[n].pc = "started"
     \/ close[t].pc = "closeSession" /\ close[t].session = n
  /\ close' = [close EXCEPT ![t] =
                 [@ EXCEPT !.pc = IF session[n].once = "new" THEN "closeStream" ELSE "joinSession",
                           !.target = target, !.session = n]]
  /\ session' = [session EXCEPT ![n].once = IF @ = "new" THEN "running" ELSE @]
  /\ UNCHANGED <<server, connect, opener, connection, open, stream>>

CloseStream(t) ==
  LET n == close[t].session IN
  /\ close[t].pc = "closeStream"
  /\ stream' = [stream EXCEPT ![n] = "closed"]
  /\ \E failed \in BOOLEAN : session' = [session EXCEPT ![n].closeErr = failed]
  /\ close' = [close EXCEPT ![t].pc = "awaitDone"]
  /\ UNCHANGED <<server, connect, opener, connection, open>>

NotAwaited(t) ==   \* mutant: Session.Close does not wait for the read loop
  LET n == close[t].session IN
  /\ close[t].pc = "awaitDone"
  /\ session' = [session EXCEPT ![n].once = "done"]
  /\ SessionClosed(t, session[n].closeErr)
  /\ UNCHANGED <<server, connect, opener, connection, open, stream>>

AwaitDone(t) ==
  LET n == close[t].session IN
  /\ close[t].pc = "awaitDone" /\ Done(n)
  /\ session' = [session EXCEPT ![n].once = "done"]
  /\ SessionClosed(t, session[n].closeErr)
  /\ UNCHANGED <<server, connect, opener, connection, open, stream>>

JoinSession(t) ==
  /\ close[t].pc = "joinSession" /\ session[close[t].session].once = "done"
  /\ SessionClosed(t, session[close[t].session].closeErr)
  /\ UNCHANGED <<server, connect, opener, connection, open, stream, session>>

-----------------------------------------------------------------------------
LoopNext(n) == EndLoop(n) \/ Finish(n) \/ RemoveSession(n)

CloseNext(t) ==
  \/ JoinServer(t) \/ NextConnection(t)
  \/ \E k \in Connects : CloseConnection(t, k)
  \/ JoinConnection(t) \/ NextSession(t) \/ CloseOpener(t) \/ EndConnection(t)
  \/ RemoveConnection(t)
  \/ \E n \in Opens : CloseSession(t, n)
  \/ CloseStream(t) \/ AwaitDone(t) \/ JoinSession(t)

Next ==
  \/ \E k \in Connects : ConnectBegin(k) \/ Dial(k) \/ Track(k) \/ DiscardOpener(k)
  \/ \E n \in Opens : \/ \E k \in Connects : OpenBegin(n, k)
                      \/ OpenStream(n) \/ TrackSession(n) \/ DiscardStream(n) \/ Start(n)
                      \/ LoopNext(n)
  \/ \E t \in Closes : CloseServer(t) \/ CloseNext(t)

Spec == Init /\ [][Next]_vars

(* Fairness.  Goroutines run, and a closed stream unblocks its read loop   *)
(* (the SessionStream contract).  Nobody has to call anything; dialing,    *)
(* opening and reading an open stream may block for ever.                  *)
FairSpec ==
  /\ Spec
  /\ \A k \in Connects : WF_vars(Track(k) \/ DiscardOpener(k))
  /\ \A n \in Opens : /\ WF_vars(TrackSession(n) \/ DiscardStream(n) \/ Start(n))
                      /\ WF_vars(stream[n] = "closed" /\ EndLoop(n))
                      /\ WF_vars(Finish(n) \/ RemoveSession(n))
  /\ \A t \in Closes : WF_vars(close[t].pc # "idle" /\ CloseNext(t))
=============================================================================
