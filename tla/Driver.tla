------------------------------- MODULE Driver -------------------------------
(***************************************************************************)
(* The driver's server, driver/server.go: Run takes JSON-RPC requests and  *)
(* serves each one in a goroutine of its own; connections and sessions of  *)
(* the core are registered under numbers.  The core is what Lifecycle      *)
(* shows of it: a call that succeeds opens one object, closing a           *)
(* connection closes its sessions, and closing the core closes everything. *)
(* A core object is named by the request that opened it.  Input to a       *)
(* session and subscriptions have modules of their own (Control and        *)
(* Subscriptions).                                                         *)
(***************************************************************************)
EXTENDS Naturals, Sequences, FiniteSets, SequencesExt

CONSTANTS
  Scripts,    \* what a client may send: sequences of records of a method, the
              \* number it is about (target), and whether it has an ID (named)
  Failures    \* what may go wrong: a subset of {"connect", "parse", "output", "close"}

VARIABLES
  script,        \* what the client sends
  run,           \* Run: where it is, why it stops, how many requests it took
  closed,        \* Server.closed; the context is canceled with it
  connections,   \* Server.connections: number -> core connection
  sessions,      \* Server.sessions: number -> its connection and core session
  numbers,       \* nextConnection, nextSession
  core,          \* the core's open connections and sessions, and if it closes
  request,       \* the goroutine of each request: its step and its result
  shutdown,      \* the channel of one shutdown signal
  writer         \* rpcWriter: what was written, and whether writing failed

driverVars ==
  <<script, run, closed, connections, sessions, numbers, core, request, shutdown, writer>>

Request == DOMAIN script
Method(r) == script[r].method
Target(r) == script[r].target

Init ==
  /\ script \in Scripts
  /\ run = [at |-> "select", why |-> "none", taken |-> 0]
  /\ closed = FALSE
  /\ connections = <<>>
  /\ sessions = <<>>
  /\ numbers = [connection |-> 0, session |-> 0]
  /\ core = [connections |-> {}, sessions |-> {}, closing |-> FALSE]
  /\ request = [r \in Request |-> [at |-> "unread", result |-> "none"]]
  /\ shutdown = FALSE
  /\ writer = [written |-> <<>>, failed |-> FALSE]

Going(r, step, result) == request' = [request EXCEPT ![r] = [at |-> step, result |-> result]]
Without(f, gone) == [n \in DOMAIN f \ gone |-> f[n]]
With(f, n, value) == [m \in DOMAIN f \cup {n} |-> IF m = n THEN value ELSE f[m]]

----------------------------------------------------------------------------
(* serve and call: the first step of every method, up to a blocking call.  *)
Simple(r) ==
  /\ Method(r) \in {"", "driver.ping", "driver.shutdown", "unknown"}
  /\ Going(r, "answer", IF Method(r) \in {"", "unknown"} THEN "error" ELSE "ok")
  /\ UNCHANGED <<connections, sessions>>

Found(r, table) == Target(r) \in DOMAIN table

BeginOpen(r) ==
  /\ Method(r) \in {"connection.open", "session.open"}
  /\ IF Method(r) = "connection.open" \/ Found(r, connections)
     THEN Going(r, "opening",
                IF Method(r) = "connection.open" THEN 0 ELSE connections[Target(r)])
     ELSE Going(r, "answer", "error")
  /\ UNCHANGED <<connections, sessions>>

SessionsOf(number) == {n \in DOMAIN sessions : sessions[n].connection = number}

BeginClose(r) ==
  \/ /\ Method(r) = "connection.close" /\ Found(r, connections)
     /\ connections' = Without(connections, {Target(r)})
     /\ sessions' = Without(sessions, SessionsOf(Target(r)))
     /\ Going(r, "closing", connections[Target(r)])
  \/ /\ Method(r) = "session.close" /\ Found(r, sessions)
     /\ sessions' = Without(sessions, {Target(r)})
     /\ Going(r, "closing", sessions[Target(r)].core)
     /\ UNCHANGED connections
  \/ /\ \/ Method(r) = "connection.close" /\ ~Found(r, connections)
        \/ Method(r) = "session.close" /\ ~Found(r, sessions)
     /\ Going(r, "answer", "error")
     /\ UNCHANGED <<connections, sessions>>

BeginWait(r) ==
  /\ Method(r) = "session.wait"
  /\ IF Found(r, sessions) THEN Going(r, "waiting", sessions[Target(r)].core)
     ELSE Going(r, "answer", "error")
  /\ UNCHANGED <<connections, sessions>>

Serve(r) ==
  /\ request[r].at = "begin"
  /\ Simple(r) \/ BeginOpen(r) \/ BeginClose(r) \/ BeginWait(r)
  /\ UNCHANGED <<script, run, closed, numbers, core, shutdown, writer>>

(* core.Connect and connection.NewSession. *)
CoreAllows(r) ==
  IF Method(r) = "connection.open" THEN ~core.closing
  ELSE request[r].result \in core.connections

CoreOpen(r) ==
  /\ request[r].at = "opening"
  /\ \/ /\ CoreAllows(r)
        /\ core' = IF Method(r) = "connection.open"
                   THEN [core EXCEPT !.connections = @ \cup {r}]
                   ELSE [core EXCEPT !.sessions = @ \cup {[core |-> r, on |-> request[r].result]}]
        /\ Going(r, "register", request[r].result)
     \/ /\ ~CoreAllows(r) \/ "connect" \in Failures
        /\ Going(r, "answer", "error")
        /\ UNCHANGED core
  /\ UNCHANGED <<script, run, closed, connections, sessions, numbers, shutdown, writer>>

(* The end of openConnection: a connection that comes too late is closed   *)
(* under the lock.                                                         *)
Closing(state, object) ==
  [state EXCEPT !.connections = @ \ {object},
                !.sessions = {s \in @ : s.core # object /\ s.on # object}]

RegisterConnection(r) ==
  /\ request[r].at = "register" /\ Method(r) = "connection.open"
  /\ IF closed
     THEN /\ core' = Closing(core, r)
          /\ Going(r, "answer", "error")
          /\ UNCHANGED <<connections, numbers>>
     ELSE /\ numbers' = [numbers EXCEPT !.connection = @ + 1]
          /\ connections' = With(connections, numbers'.connection, r)
          /\ Going(r, "answer", "ok")
          /\ UNCHANGED core
  /\ UNCHANGED <<script, run, closed, sessions, shutdown, writer>>

(* mutant: the connection is not looked up again *)
NotClosed(r) == ~closed

(* The end of openSession: its connection may be gone. *)
StillOpen(r) ==
  ~closed /\ Found(r, connections) /\ connections[Target(r)] = request[r].result

RegisterSession(r) ==
  /\ request[r].at = "register" /\ Method(r) = "session.open"
  /\ IF StillOpen(r)
     THEN /\ numbers' = [numbers EXCEPT !.session = @ + 1]
          /\ sessions' = With(sessions, numbers'.session, [connection |-> Target(r), core |-> r])
          /\ Going(r, "answer", "ok")
     ELSE Going(r, "closing", r) /\ UNCHANGED <<numbers, sessions>>
  /\ UNCHANGED <<script, run, closed, connections, core, shutdown, writer>>

(* Connection.Close and Session.Close of the core. *)
CoreClose(r) ==
  /\ request[r].at = "closing"
  /\ core' = Closing(core, request[r].result)
  /\ Going(r, "answer", IF Method(r) = "session.open" THEN "error" ELSE "ok")
  /\ UNCHANGED <<script, run, closed, connections, sessions, numbers, shutdown, writer>>

(* wait, waitForIdle and waitForEnd end with the session or the driver's   *)
(* context; they also end with a match or at a time the client chose.      *)
Ended(r) == \A s \in core.sessions : s.core # request[r].result
ContextDone(r) == closed

WaitEnds(r) ==
  /\ request[r].at = "waiting" /\ (Ended(r) \/ ContextDone(r))
  /\ Going(r, "answer", "error")
  /\ UNCHANGED <<script, run, closed, connections, sessions, numbers, core, shutdown, writer>>

WaitReturns(r) ==
  /\ request[r].at = "waiting"
  /\ \E result \in {"ok", "error"} : Going(r, "answer", result)
  /\ UNCHANGED <<script, run, closed, connections, sessions, numbers, core, shutdown, writer>>

(* serve's response: one whole object under the writer's lock. *)
Answer(r) ==
  /\ request[r].at = "answer"
  /\ IF ~script[r].named THEN UNCHANGED writer
     ELSE \/ ~writer.failed /\ writer' = [writer EXCEPT !.written = Append(@, r)]
          \/ /\ writer.failed \/ "output" \in Failures
             /\ writer' = [writer EXCEPT !.failed = TRUE]
  /\ IF Method(r) = "driver.shutdown" /\ ~writer'.failed
     THEN Going(r, "signal", "ok") ELSE Going(r, "done", request[r].result)
  /\ UNCHANGED <<script, run, closed, connections, sessions, numbers, core, shutdown>>

Signal(r) ==
  /\ request[r].at = "signal"
  /\ shutdown' = TRUE
  /\ Going(r, "done", "ok")
  /\ UNCHANGED <<script, run, closed, connections, sessions, numbers, core, writer>>

----------------------------------------------------------------------------
(* Run's select: a request, the end of the input, a shutdown, or a writer  *)
(* that failed.                                                            *)
Take ==
  /\ run.at = "select" /\ run.taken < Len(script)
  /\ run' = [run EXCEPT !.taken = @ + 1]
  /\ Going(run.taken + 1, "begin", "none")
  /\ UNCHANGED <<script, closed, connections, sessions, numbers, core, shutdown, writer>>

Ready(why) ==
  CASE why = "end" -> run.taken = Len(script)
    [] why = "parse" -> "parse" \in Failures
    [] why = "shutdown" -> shutdown
    [] why = "output" -> writer.failed

Stop(why) ==
  /\ run.at = "select" /\ Ready(why)
  /\ run' = [run EXCEPT !.at = "close", !.why = why]
  /\ UNCHANGED <<script, closed, connections, sessions, numbers, core, request, shutdown, writer>>

(* Server.Close: canceled under the lock, then the core is closed. *)
CloseBegin ==
  /\ run.at = "close"
  /\ closed' = TRUE
  /\ run' = [run EXCEPT !.at = "core"]
  /\ UNCHANGED <<script, connections, sessions, numbers, core, request, shutdown, writer>>

CoreCloseBegin ==
  /\ run.at = "core"
  /\ core' = [core EXCEPT !.closing = TRUE]
  /\ run' = [run EXCEPT !.at = "core closing"]
  /\ UNCHANGED <<script, closed, connections, sessions, numbers, request, shutdown, writer>>

CloseEnd ==
  /\ run.at = "core closing"
  /\ core' = [core EXCEPT !.connections = {}, !.sessions = {}]
  /\ run' = [run EXCEPT !.at = "active"]
  /\ UNCHANGED <<script, closed, connections, sessions, numbers, request, shutdown, writer>>

CloseFails ==
  /\ run.at = "core closing" /\ "close" \in Failures
  /\ core' = [core EXCEPT !.connections = {}, !.sessions = {}]
  /\ run' = [run EXCEPT !.at = "returned", !.why = "close"]
  /\ UNCHANGED <<script, closed, connections, sessions, numbers, request, shutdown, writer>>

(* mutant: Run does not wait for the requests in progress *)
NoneAwaited == TRUE

AllServed == \A r \in Request : request[r].at \in {"unread", "done"}

ParseError == 0   \* the ID of the response to what could not be parsed

Return ==
  /\ run.at = "active" /\ AllServed
  /\ run' = [run EXCEPT !.at = "returned"]
  /\ IF run.why = "parse" /\ ~writer.failed
     THEN \/ writer' = [writer EXCEPT !.written = Append(@, ParseError)]
          \/ "output" \in Failures /\ writer' = [writer EXCEPT !.failed = TRUE]
     ELSE UNCHANGED writer
  /\ UNCHANGED <<script, closed, connections, sessions, numbers, core, request, shutdown>>

RequestStep(r) ==
  \/ Serve(r) \/ CoreOpen(r) \/ RegisterConnection(r) \/ RegisterSession(r) \/ CoreClose(r)
  \/ WaitEnds(r) \/ Answer(r) \/ Signal(r)

RunStep == CloseBegin \/ CoreCloseBegin \/ CloseEnd \/ CloseFails \/ Return

Next ==
  \/ Take \/ RunStep
  \/ \E why \in {"end", "parse", "shutdown", "output"} : Stop(why)
  \/ \E r \in Request : RequestStep(r) \/ WaitReturns(r)

(* Goroutines run and calls of the core return.  The client need not send  *)
(* anything, and a wait may be as long as it likes; but Run's select is    *)
(* not left when a shutdown or a failure is ready.                         *)
Fairness ==
  /\ \A r \in UNION {DOMAIN s : s \in Scripts} :
       WF_driverVars(r \in Request /\ RequestStep(r))
  /\ WF_driverVars(RunStep)
  /\ WF_driverVars(Stop("shutdown")) /\ WF_driverVars(Stop("output"))

Spec == Init /\ [][Next]_driverVars /\ Fairness

----------------------------------------------------------------------------
Answers(r) == Cardinality({i \in DOMAIN writer.written : writer.written[i] = r})

(* Requests complete in any order, but when Run has returned, and neither  *)
(* writing nor closing failed, every request it took was answered exactly  *)
(* once, a notification never, and what could not be parsed comes last     *)
(* (driver/server.go:119-175, 214-274).                                    *)
EveryRequestAnswered ==
  /\ \A r \in Request :
       Answers(r) <= IF script[r].named THEN 1 ELSE 0
  /\ run.at = "returned" /\ ~writer.failed /\ run.why # "close" =>
       /\ \A r \in 1..run.taken : script[r].named => Answers(r) = 1
       /\ run.why = "parse" => Last(writer.written) = ParseError

Held(object) ==
  \E r \in Request :
    \/ request[r].at = "register" /\ object = r
    \/ request[r].at = "closing" /\ request[r].result = object

(* Requests to open and close the same connection race: a session that is  *)
(* registered has its connection registered, and whatever the core has     *)
(* open is registered, on its way to be registered or closed, or on a      *)
(* connection that is: a client can always close what it opened            *)
(* (driver/server.go:317-468).                                             *)
NothingUnreachable ==
  /\ \A n \in DOMAIN sessions : sessions[n].connection \in DOMAIN connections
  /\ \A c \in core.connections : Held(c) \/ \E n \in DOMAIN connections : connections[n] = c
  /\ \A s \in core.sessions :
       Held(s.core) \/ Held(s.on) \/ \E n \in DOMAIN sessions : sessions[n].core = s.core

(* A shutdown request, a broken output or the end of the input stop the    *)
(* driver, although a wait may be in progress (driver/server.go:119-197,   *)
(* 570-699).                                                               *)
RunReturns == (run.at = "close" \/ shutdown \/ writer.failed) ~> (run.at = "returned")
=============================================================================
