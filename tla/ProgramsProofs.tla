--------------------------- MODULE ProgramsProofs ----------------------------
(***************************************************************************)
(* What the driver's core and the MCP service have open stays in reach,    *)
(* every request of the driver is answered once, recordings are what was   *)
(* done, control of a session is never lost, and the SDK's client sends    *)
(* nothing to a closed channel: for any number of requests, users and      *)
(* calls.                                                                  *)
(***************************************************************************)
EXTENDS Programs, SequencesExt, Loops, FiniteSetTheorems

-----------------------------------------------------------------------------
(* Driver.                                                                 *)

Calls == [method : STRING, target : Nat, named : BOOLEAN]

(* A request that will not register anything any more.                     *)
Past(r) == r \in Driver!Request /\ request[r].at \in {"answer", "signal", "done"}

(* The types that the argument needs: the tables hold numbers that were    *)
(* given out.                                                              *)
DriverTypes ==
  /\ script \in Seq(Calls)
  /\ request = [r \in Driver!Request |-> request[r]]
  /\ run = [at |-> run.at, why |-> run.why, taken |-> run.taken] /\ run.taken \in Nat
  /\ core = [connections |-> core.connections, sessions |-> core.sessions,
             closing |-> core.closing]
  /\ numbers \in [connection : Nat, session : Nat]
  /\ DOMAIN connections \subseteq 1..numbers.connection
  /\ DOMAIN sessions \subseteq 1..numbers.session

(* What Run has not taken has not begun. *)
Unread == \A r \in Driver!Request : r > run.taken => request[r].at = "unread"

(* A connection is named by the request that opened it, and is registered  *)
(* and used only by its number.                                            *)
Connected ==
  /\ \A c \in core.connections : c \in Driver!Request /\ Driver!Method(c) = "connection.open"
  /\ \A n \in DOMAIN connections : Past(connections[n])
  /\ \A r \in Driver!Request :
       request[r].at \in {"opening", "register"} =>
         \/ Driver!Method(r) = "connection.open"
         \/ Driver!Method(r) = "session.open" /\ Past(request[r].result)

(* A session is named by the request that opened it on its connection, and *)
(* is registered with the number of that connection.                       *)
OnConnection ==
  /\ \A n \in DOMAIN sessions : Past(sessions[n].core)
  /\ \A s \in core.sessions :
       /\ s.core \in Driver!Request /\ Driver!Method(s.core) = "session.open"
       /\ request[s.core].at \notin {"unread", "begin", "opening"}
       /\ Past(s.on)
       /\ request[s.core].at = "register" => s.on = request[s.core].result
       /\ \A n \in DOMAIN sessions :
            sessions[n].core = s.core => s.on = connections[sessions[n].connection]

DriverIInv == DriverTypes /\ Unread /\ Connected /\ OnConnection /\ Driver!NothingUnreachable

-----------------------------------------------------------------------------
(* A request moves on (driver/server.go:247-315).                          *)
LEMMA Moves ==
  ASSUME DriverTypes, script' = script, NEW r \in Driver!Request, NEW a, NEW x,
         Driver!Going(r, a, x)
  PROVE  /\ Driver!Request' = Driver!Request
         /\ request' = [q \in Driver!Request |-> request'[q]]
         /\ request'[r] = [at |-> a, result |-> x]
         /\ request'[r].at = a /\ request'[r].result = x
         /\ \A q \in Driver!Request : q # r => request'[q] = request[q]
         /\ \A q : Driver!Method(q)' = Driver!Method(q)
BY DEF DriverTypes, Driver!Going, Driver!Request, Driver!Method

(* What is past stays past, unless its request starts over                 *)
(* (driver/server.go:247-315).                                             *)
LEMMA StaysPast ==
  ASSUME DriverTypes, script' = script, NEW r \in Driver!Request, NEW a, NEW x,
         Driver!Going(r, a, x),
         request[r].at \in {"answer", "signal", "done"} => a \in {"answer", "signal", "done"}
  PROVE  \A q : Past(q) => Past(q)'
BY Moves DEF Past

(* A step of a request that holds nothing, before and after it             *)
(* (driver/server.go:247-315).                                             *)
LEMMA Quiet ==
  ASSUME DriverIInv, NEW r \in Driver!Request, NEW a, NEW x, Driver!Going(r, a, x),
         UNCHANGED <<script, connections, sessions, numbers, core>>,
         DriverTypes', Unread',
         request[r].at \notin {"register", "closing"},
         a \notin {"unread", "opening", "register", "closing"},
         a = "begin" => request[r].at = "unread",
         request[r].at \in {"answer", "signal", "done"} => a \in {"answer", "signal", "done"}
  PROVE  DriverIInv'
<1>1. \A q : Past(q) => Past(q)'
  BY StaysPast DEF DriverIInv
<1>2. \A o : Driver!Held(o) => Driver!Held(o)'
  BY Moves, ZenonT(40) DEF DriverIInv, Driver!Held
<1>3. /\ DriverTypes /\ Connected /\ OnConnection /\ Driver!Request' = Driver!Request
      /\ request'[r].at = a /\ \A q \in Driver!Request : q # r => request'[q] = request[q]
      /\ \A q : Driver!Method(q)' = Driver!Method(q)
  BY Moves DEF DriverIInv
<1>4. Connected'
  <2>1. \A c \in core'.connections : c \in Driver!Request' /\ Driver!Method(c)' = "connection.open"
    BY <1>3 DEF Connected
  <2>2. \A n \in DOMAIN connections' : Past(connections[n])'
    BY <1>1, <1>3 DEF Connected
  <2>3. \A q \in Driver!Request' :
          request'[q].at \in {"opening", "register"} =>
            \/ Driver!Method(q)' = "connection.open"
            \/ Driver!Method(q)' = "session.open" /\ Past(request[q].result)'
    BY <1>1, <1>3 DEF Connected
  <2> QED
    BY <2>1, <2>2, <2>3 DEF Connected
<1>5. OnConnection'
  <2>1. \A n \in DOMAIN sessions' : Past(sessions[n].core)'
    BY <1>1, <1>3 DEF OnConnection
  <2>2. ASSUME NEW s \in core'.sessions
        PROVE  /\ s.core \in Driver!Request' /\ Driver!Method(s.core)' = "session.open"
               /\ request'[s.core].at \notin {"unread", "begin", "opening"}
               /\ Past(s.on)'
               /\ request'[s.core].at = "register" => s.on = request'[s.core].result
               /\ \A n \in DOMAIN sessions' :
                    sessions'[n].core = s.core => s.on = connections'[sessions'[n].connection]
    BY <1>1, <1>3 DEF OnConnection
  <2> QED
    BY <2>1, <2>2 DEF OnConnection
<1>6. Driver!NothingUnreachable'
  BY <1>2 DEF DriverIInv, Driver!NothingUnreachable
<1> QED
  BY <1>4, <1>5, <1>6 DEF DriverIInv

(* A step of a request leaves what Run has not taken                       *)
(* (driver/server.go:119-175).                                             *)
LEMMA StaysUnread ==
  ASSUME DriverTypes, Unread, UNCHANGED <<script, run>>, NEW r \in Driver!Request, NEW a, NEW x,
         Driver!Going(r, a, x),
         request[r].at # "unread"
  PROVE  Unread'
<1>1. /\ Driver!Request' = Driver!Request /\ run'.taken = run.taken
      /\ \A q \in Driver!Request : q # r => request'[q] = request[q]
  BY Moves
<1>2. ~(r > run.taken)
  BY DEF Unread
<1> QED
  BY <1>1, <1>2 DEF Unread

LEMMA QuietStep ==
  ASSUME DriverIInv, NEW r \in Driver!Request, NEW a, NEW x, Driver!Going(r, a, x),
         UNCHANGED <<script, run, connections, sessions, numbers, core>>,
         request[r].at \notin {"unread", "register", "closing"},
         a \notin {"unread", "begin", "opening", "register", "closing"},
         request[r].at \in {"answer", "signal", "done"} => a \in {"answer", "signal", "done"}
  PROVE  DriverIInv'
<1>1. DriverTypes'
  BY Moves DEF DriverIInv, DriverTypes
<1>2. Unread'
  BY StaysUnread DEF DriverIInv
<1> QED
  BY <1>1, <1>2, Quiet

(* Run takes a request that has not begun (driver/server.go:119-175).      *)
LEMMA TakeStep ==
  ASSUME DriverIInv, Driver!Take
  PROVE  DriverIInv'
<1> DEFINE r == run.taken + 1
<1>1. /\ r \in Driver!Request /\ run.taken \in Nat /\ request[r].at = "unread"
  BY DEF DriverIInv, DriverTypes, Unread, Driver!Take, Driver!Request
<1>2. /\ Driver!Going(r, "begin", "none")
      /\ run' = [at |-> run'.at, why |-> run'.why, taken |-> run'.taken]
      /\ run'.taken = r /\ r \in Nat
      /\ UNCHANGED <<script, connections, sessions, numbers, core>>
  BY <1>1 DEF DriverIInv, DriverTypes, Driver!Take
<1>3. DriverTypes'
  <2>1. DriverTypes /\ Driver!Request' = Driver!Request
        /\ request' = [q \in Driver!Request |-> request'[q]]
    BY <1>1, <1>2, Moves DEF DriverIInv
  <2> HIDE DEF r
  <2> QED
    BY <1>2, <2>1 DEF DriverTypes
<1>4. Unread'
  <2>1. \A q \in Driver!Request : q \in Nat
    BY DEF DriverIInv, DriverTypes, Driver!Request
  <2>2. \A q \in Driver!Request : q > r => q # r /\ q > run.taken
    BY <1>1, <2>1
  <2>3. Driver!Request' = Driver!Request /\ \A q \in Driver!Request : q # r =>
        request'[q] = request[q]
    BY <1>1, <1>2, Moves DEF DriverIInv
  <2> QED
    BY <1>2, <2>2, <2>3 DEF DriverIInv, Unread
<1> HIDE DEF r
<1> QED
  BY <1>1, <1>2, <1>3, <1>4, Quiet

(* A session may be opened on a connection that is registered              *)
(* (driver/server.go:317-327, 390-422).                                    *)
LEMMA BeginOpenStep ==
  ASSUME DriverIInv, NEW r \in Driver!Request, request[r].at = "begin", Driver!BeginOpen(r),
         UNCHANGED <<script, run, numbers, core>>
  PROVE  DriverIInv'
<1>0. /\ DriverTypes /\ Unread /\ Connected /\ OnConnection /\ Driver!NothingUnreachable
      /\ UNCHANGED <<connections, sessions>>
  BY DEF DriverIInv, Driver!BeginOpen
<1>1. CASE Driver!Going(r, "answer", "error")
  BY <1>0, <1>1, QuietStep
<1>2. ASSUME NEW x, Driver!Going(r, "opening", x),
             Driver!Method(r) = "connection.open" \/ (Driver!Method(r) = "session.open" /\ Past(x))
      PROVE  DriverIInv'
  <2>1. /\ Driver!Request' = Driver!Request /\ request'[r].at = "opening" /\ request'[r].result = x
        /\ \A q \in Driver!Request : q # r => request'[q] = request[q]
        /\ \A q : Driver!Method(q)' = Driver!Method(q)
    BY <1>0, <1>2, Moves
  <2>2. \A q : Past(q) => Past(q)'
    BY <1>0, <1>2, StaysPast
  <2>3. \A o : Driver!Held(o) => Driver!Held(o)'
    BY <2>1 DEF Driver!Held
  <2>4. DriverTypes'
    BY <1>0, <1>2, Moves DEF DriverTypes
  <2>5. Unread'
    BY <1>0, <1>2, StaysUnread
  <2>6. Connected'
    <3>1. \A q \in Driver!Request' :
            request'[q].at \in {"opening", "register"} =>
              \/ Driver!Method(q)' = "connection.open"
              \/ Driver!Method(q)' = "session.open" /\ Past(request[q].result)'
      BY <1>0, <1>2, <2>1, <2>2 DEF Connected
    <3> QED
      BY <1>0, <2>1, <2>2, <3>1 DEF Connected
  <2>7. OnConnection'
    <3>1. ASSUME NEW s \in core.sessions
          PROVE  s.core # r
      BY <1>0, <3>1 DEF OnConnection
    <3> QED
      BY <1>0, <2>1, <2>2, <3>1 DEF OnConnection
  <2>8. Driver!NothingUnreachable'
    BY <1>0, <2>3 DEF Driver!NothingUnreachable
  <2> QED
    BY <2>4, <2>5, <2>6, <2>7, <2>8 DEF DriverIInv
<1>3. CASE Driver!Method(r) = "connection.open"
  BY <1>2, <1>3 DEF Driver!BeginOpen
<1>4. CASE Driver!Method(r) = "session.open" /\ Driver!Found(r, connections)
  <2>1. Past(connections[Driver!Target(r)])
    BY <1>0, <1>4 DEF Connected, Driver!Found
  <2> QED
    BY <1>2, <1>4, <2>1 DEF Driver!BeginOpen
<1> QED
  BY <1>1, <1>3, <1>4 DEF Driver!BeginOpen

(* A number that was closed names nothing any more; what it named is held  *)
(* by the request until the core has closed it                             *)
(* (driver/server.go:361-375, 446-456).                                    *)
LEMMA BeginCloseStep ==
  ASSUME DriverIInv, NEW r \in Driver!Request, request[r].at = "begin", Driver!BeginClose(r),
         UNCHANGED <<script, run, numbers, core>>
  PROVE  DriverIInv'
<1>0. DriverTypes /\ Unread /\ Connected /\ OnConnection /\ Driver!NothingUnreachable
  BY DEF DriverIInv
<1>1. CASE Driver!Going(r, "answer", "error") /\ UNCHANGED <<connections, sessions>>
  BY <1>0, <1>1, QuietStep
<1>2. ASSUME NEW x, Driver!Going(r, "closing", x), NEW gone,
             sessions' = Driver!Without(sessions, gone),
             NEW lost,
             DOMAIN connections' = DOMAIN connections \ lost,
             \A n \in DOMAIN connections' : connections'[n] = connections[n],
             \A n \in DOMAIN sessions \ gone : sessions[n].connection \notin lost,
             \A c \in core.connections, n \in DOMAIN connections \cap lost :
               connections[n] = c => c = x,
             \A s \in core.sessions, n \in DOMAIN sessions \cap gone :
               sessions[n].core = s.core => x \in {s.core, s.on}
      PROVE  DriverIInv'
  <2>1. /\ Driver!Request' = Driver!Request /\ request'[r].at = "closing" /\ request'[r].result = x
        /\ \A q \in Driver!Request : q # r => request'[q] = request[q]
        /\ \A q : Driver!Method(q)' = Driver!Method(q)
    BY <1>0, <1>2, Moves
  <2>2. \A q : Past(q) => Past(q)'
    BY <1>0, <1>2, StaysPast
  <2>3. (\A o : Driver!Held(o) => Driver!Held(o)') /\ Driver!Held(x)'
    BY <2>1 DEF Driver!Held
  <2>4. /\ DOMAIN connections' = DOMAIN connections \ lost
        /\ DOMAIN sessions' = DOMAIN sessions \ gone
        /\ \A n \in DOMAIN connections' : connections'[n] = connections[n]
        /\ \A n \in DOMAIN sessions' : sessions'[n] = sessions[n]
    BY <1>2 DEF Driver!Without
  <2>5. DriverTypes'
    BY <1>0, <1>2, <2>4, Moves DEF DriverTypes
  <2>6. Unread'
    BY <1>0, <1>2, StaysUnread
  <2>7. Connected'
    BY <1>0, <2>1, <2>2, <2>4 DEF Connected
  <2>8. /\ \A n \in DOMAIN sessions' : sessions'[n].connection \in DOMAIN connections'
        /\ \A n \in DOMAIN sessions' :
             connections'[sessions'[n].connection] = connections[sessions[n].connection]
    BY <1>0, <1>2, <2>4 DEF Driver!NothingUnreachable
  <2>9. OnConnection'
    <3>1. \A n \in DOMAIN sessions' : Past(sessions[n].core)'
      BY <1>0, <2>2, <2>4 DEF OnConnection
    <3>2. ASSUME NEW s \in core.sessions
          PROVE  /\ s.core \in Driver!Request /\ s.core # r
                 /\ Driver!Method(s.core)' = "session.open"
                 /\ Past(s.on)'
                 /\ \A n \in DOMAIN sessions' :
                      sessions'[n].core = s.core => s.on = connections'[sessions'[n].connection]
      BY <1>0, <2>1, <2>2, <2>4, <2>8 DEF OnConnection
    <3> QED
      BY <1>0, <2>1, <3>1, <3>2 DEF OnConnection
  <2>10. Driver!NothingUnreachable'
    <3>1. \A c \in core.connections :
            Driver!Held(c)' \/ \E n \in DOMAIN connections' : connections'[n] = c
      BY <1>0, <1>2, <2>3, <2>4 DEF Driver!NothingUnreachable
    <3>2. \A s \in core.sessions :
            Driver!Held(s.core)' \/ Driver!Held(s.on)'
            \/ \E n \in DOMAIN sessions' : sessions'[n].core = s.core
      BY <1>0, <1>2, <2>3, <2>4 DEF Driver!NothingUnreachable
    <3> QED
      BY <2>8, <3>1, <3>2 DEF Driver!NothingUnreachable
  <2> QED
    BY <2>5, <2>6, <2>7, <2>9, <2>10 DEF DriverIInv
<1>3. CASE Driver!Method(r) = "connection.close" /\ Driver!Found(r, connections)
  <2> DEFINE x == connections[Driver!Target(r)]
             gone == Driver!SessionsOf(Driver!Target(r))
             lost == {Driver!Target(r)}
  <2>1. \A n \in DOMAIN sessions \ gone : sessions[n].connection \notin lost
    BY DEF Driver!SessionsOf
  <2>2. \A s \in core.sessions, n \in DOMAIN sessions \cap gone :
          sessions[n].core = s.core => x \in {s.core, s.on}
    BY <1>0 DEF Driver!SessionsOf, OnConnection
  <2>3. \A c \in core.connections, n \in DOMAIN connections \cap lost :
          connections[n] = c => c = x
    OBVIOUS
  <2>4. /\ Driver!Going(r, "closing", x) /\ sessions' = Driver!Without(sessions, gone)
        /\ DOMAIN connections' = DOMAIN connections \ lost
        /\ \A n \in DOMAIN connections' : connections'[n] = connections[n]
    BY <1>3 DEF Driver!BeginClose, Driver!Without
  <2> HIDE DEF x, gone, lost
  <2> QED
    BY <1>2, <2>1, <2>2, <2>3, <2>4
<1>4. CASE Driver!Method(r) = "session.close" /\ Driver!Found(r, sessions)
  <2> DEFINE x == sessions[Driver!Target(r)].core
             gone == {Driver!Target(r)}
             lost == {}
  <2>1. /\ Driver!Going(r, "closing", x) /\ sessions' = Driver!Without(sessions, gone)
        /\ connections' = connections
    BY <1>4 DEF Driver!BeginClose
  <2>2. \A s \in core.sessions, n \in DOMAIN sessions \cap gone :
          sessions[n].core = s.core => x \in {s.core, s.on}
    OBVIOUS
  <2>3. /\ \A n \in DOMAIN sessions \ gone : sessions[n].connection \notin lost
        /\ \A c \in core.connections, n \in DOMAIN connections \cap lost :
             connections[n] = c => c = x
        /\ DOMAIN connections' = DOMAIN connections \ lost
        /\ \A n \in DOMAIN connections' : connections'[n] = connections[n]
    BY <2>1
  <2> HIDE DEF x, gone, lost
  <2> QED
    BY <1>2, <2>1, <2>2, <2>3
<1> QED
  BY <1>1, <1>3, <1>4 DEF Driver!BeginClose

(* What the core opens is held by the request that registers it            *)
(* (driver/server.go:317-340, 390-421).                                    *)
LEMMA CoreOpenStep ==
  ASSUME DriverIInv, NEW r \in Driver!Request, Driver!CoreOpen(r)
  PROVE  DriverIInv'
<1>0. /\ DriverTypes /\ Unread /\ Connected /\ OnConnection /\ Driver!NothingUnreachable
      /\ request[r].at = "opening" /\ UNCHANGED <<script, run, connections, sessions, numbers>>
  BY DEF DriverIInv, Driver!CoreOpen
<1>1. CASE Driver!Going(r, "answer", "error") /\ UNCHANGED core
  BY <1>0, <1>1, QuietStep
<1>2. CASE /\ Driver!Going(r, "register", request[r].result)
           /\ core' = IF Driver!Method(r) = "connection.open"
                      THEN [core EXCEPT !.connections = @ \cup {r}]
                      ELSE [core EXCEPT !.sessions =
                              @ \cup {[core |-> r, on |-> request[r].result]}]
           /\ Driver!Method(r) \in {"connection.open", "session.open"}
  <2> DEFINE new == [core |-> r, on |-> request[r].result]
  <2>1. /\ Driver!Request' = Driver!Request /\ request'[r].at = "register"
        /\ request'[r].result = request[r].result
        /\ \A q \in Driver!Request : q # r => request'[q] = request[q]
        /\ \A q : Driver!Method(q)' = Driver!Method(q)
    BY <1>0, <1>2, Moves
  <2>2. \A q : Past(q) => Past(q)'
    BY <1>0, <1>2, StaysPast
  <2>3. (\A o : Driver!Held(o) => Driver!Held(o)') /\ Driver!Held(r)'
    BY <1>0, <2>1 DEF Driver!Held
  <2>4. /\ core'.connections \subseteq core.connections \cup {r}
        /\ r \in core'.connections \ core.connections => Driver!Method(r) = "connection.open"
        /\ core'.sessions \subseteq core.sessions \cup {new}
        /\ new \in core'.sessions \ core.sessions => Driver!Method(r) = "session.open"
        /\ core' = [connections |-> core'.connections, sessions |-> core'.sessions,
                    closing |-> core'.closing]
    BY <1>0, <1>2 DEF DriverTypes
  <2>5. DriverTypes'
    BY <1>0, <1>2, <2>4, Moves DEF DriverTypes
  <2>6. Unread'
    BY <1>0, <1>2, StaysUnread
  <2>7. Connected'
    <3>1. \A c \in core'.connections : c \in Driver!Request /\ Driver!Method(c)' = "connection.open"
      BY <1>0, <2>1, <2>4 DEF Connected
    <3>2. \A q \in Driver!Request' :
            request'[q].at \in {"opening", "register"} =>
              \/ Driver!Method(q)' = "connection.open"
              \/ Driver!Method(q)' = "session.open" /\ Past(request[q].result)'
      BY <1>0, <2>1, <2>2 DEF Connected
    <3> QED
      BY <1>0, <2>1, <2>2, <3>1, <3>2 DEF Connected
  <2>8. OnConnection'
    <3>1. \A n \in DOMAIN sessions' : Past(sessions[n].core)' /\ sessions[n].core # r
      BY <1>0, <2>1, <2>2 DEF OnConnection, Past
    <3>2. ASSUME NEW s \in core'.sessions
          PROVE  /\ s.core \in Driver!Request' /\ Driver!Method(s.core)' = "session.open"
                 /\ request'[s.core].at \notin {"unread", "begin", "opening"}
                 /\ Past(s.on)'
                 /\ request'[s.core].at = "register" => s.on = request'[s.core].result
                 /\ \A n \in DOMAIN sessions' :
                      sessions'[n].core = s.core => s.on = connections'[sessions'[n].connection]
      <4>1. CASE s \in core.sessions
        <5>1. s.core # r
          BY <1>0, <4>1 DEF OnConnection
        <5> QED
          BY <1>0, <2>1, <2>2, <4>1, <5>1 DEF OnConnection
      <4>2. CASE s \notin core.sessions
        <5>1. s = new /\ s.core = r /\ s.on = request[r].result /\ Driver!Method(r) = "session.open"
          BY <2>4, <4>2
        <5>2. Past(s.on)
          BY <1>0, <5>1 DEF Connected
        <5> QED
          BY <1>0, <2>1, <2>2, <3>1, <5>1, <5>2
      <4> QED
        BY <4>1, <4>2
    <3> QED
      BY <3>1, <3>2 DEF OnConnection
  <2>9. Driver!NothingUnreachable'
    <3>1. \A s \in core'.sessions : s \in core.sessions \/ s.core = r
      BY <2>4
    <3> QED
      BY <1>0, <2>3, <2>4, <3>1 DEF Driver!NothingUnreachable
  <2> QED
    BY <2>5, <2>6, <2>7, <2>8, <2>9 DEF DriverIInv
<1>3. Driver!Method(r) \in {"connection.open", "session.open"}
  BY <1>0 DEF Connected
<1> QED
  BY <1>1, <1>2, <1>3 DEF Driver!CoreOpen

(* What is closed is out of the core with all that depends on it           *)
(* (driver/server.go:341-347, 372-388, 427-433, 456-468): afterwards       *)
(* nothing needs the request that held it.                                 *)
LEMMA ClosedStep ==
  ASSUME DriverIInv, NEW r \in Driver!Request, NEW object, NEW x, Driver!Going(r, "answer", x),
         core' = Driver!Closing(core, object),
         UNCHANGED <<script, run, connections, sessions, numbers>>,
         \/ request[r].at = "closing" /\ request[r].result = object
         \/ request[r].at = "register" /\ r = object
  PROVE  DriverIInv'
<1>0. /\ DriverTypes /\ Unread /\ Connected /\ OnConnection /\ Driver!NothingUnreachable
      /\ request[r].at \in {"closing", "register"}
  BY DEF DriverIInv
<1>1. /\ Driver!Request' = Driver!Request /\ request'[r].at = "answer"
      /\ \A q \in Driver!Request : q # r => request'[q] = request[q]
      /\ \A q : Driver!Method(q)' = Driver!Method(q)
  BY <1>0, Moves
<1>2. \A q : Past(q) => Past(q)'
  BY <1>0, StaysPast
<1>3. \A o : Driver!Held(o) => Driver!Held(o)' \/ o = object
  BY <1>0, <1>1 DEF Driver!Held
<1>4. /\ core'.connections = core.connections \ {object}
      /\ core'.sessions = {s \in core.sessions : s.core # object /\ s.on # object}
      /\ core' = [connections |-> core'.connections, sessions |-> core'.sessions,
                  closing |-> core'.closing]
  BY <1>0 DEF DriverTypes, Driver!Closing
<1>5. DriverTypes'
  BY <1>0, <1>4, Moves DEF DriverTypes
<1>6. Unread'
  BY <1>0, StaysUnread
<1>7. Connected'
  <2>1. \A c \in core'.connections : c \in Driver!Request /\ Driver!Method(c)' = "connection.open"
    BY <1>0, <1>1, <1>4 DEF Connected
  <2> QED
    BY <1>0, <1>1, <1>2, <2>1 DEF Connected
<1>8. OnConnection'
  <2>1. \A n \in DOMAIN sessions' : Past(sessions[n].core)'
    BY <1>0, <1>2 DEF OnConnection
  <2>2. ASSUME NEW s \in core'.sessions
        PROVE  /\ s.core \in Driver!Request' /\ Driver!Method(s.core)' = "session.open"
               /\ request'[s.core].at \notin {"unread", "begin", "opening"}
               /\ Past(s.on)'
               /\ request'[s.core].at = "register" => s.on = request'[s.core].result
               /\ \A n \in DOMAIN sessions' :
                    sessions'[n].core = s.core => s.on = connections'[sessions'[n].connection]
    BY <1>0, <1>1, <1>2, <1>4 DEF OnConnection
  <2> QED
    BY <2>1, <2>2 DEF OnConnection
<1>9. Driver!NothingUnreachable'
  BY <1>0, <1>3, <1>4 DEF Driver!NothingUnreachable
<1> QED
  BY <1>5, <1>6, <1>7, <1>8, <1>9 DEF DriverIInv

(* The end of connection.open (driver/server.go:341-359).                  *)
LEMMA RegisterConnectionStep ==
  ASSUME DriverIInv, NEW r \in Driver!Request, Driver!RegisterConnection(r)
  PROVE  DriverIInv'
<1>0. /\ DriverTypes /\ Unread /\ Connected /\ OnConnection /\ Driver!NothingUnreachable
      /\ request[r].at = "register" /\ Driver!Method(r) = "connection.open"
      /\ UNCHANGED <<script, run, sessions>>
  BY DEF DriverIInv, Driver!RegisterConnection
<1>1. CASE closed
  BY <1>0, <1>1, ClosedStep DEF Driver!RegisterConnection
<1>2. CASE ~closed
  <2> DEFINE n == numbers.connection + 1
  <2>0. /\ numbers' = [numbers EXCEPT !.connection = @ + 1]
        /\ connections' = Driver!With(connections, numbers'.connection, r)
        /\ Driver!Going(r, "answer", "ok") /\ UNCHANGED core
    BY <1>2 DEF Driver!RegisterConnection
  <2>1. /\ Driver!Request' = Driver!Request /\ request'[r].at = "answer"
        /\ \A q \in Driver!Request : q # r => request'[q] = request[q]
        /\ \A q : Driver!Method(q)' = Driver!Method(q)
    BY <1>0, <2>0, Moves
  <2>2. \A q : Past(q) => Past(q)'
    BY <1>0, <2>0, StaysPast
  <2>3. (\A o : Driver!Held(o) => Driver!Held(o)' \/ o = r) /\ Past(r)'
    BY <1>0, <2>1 DEF Driver!Held, Past
  <2>4. /\ numbers' \in [connection : Nat, session : Nat]
        /\ numbers'.connection = n /\ numbers'.session = numbers.session
        /\ connections' = Driver!With(connections, n, r)
    BY <1>0, <2>0 DEF DriverTypes
  <2>5. /\ DOMAIN connections' = DOMAIN connections \cup {n}
        /\ DOMAIN connections' \subseteq 1..n
        /\ connections'[n] = r
        /\ \A m \in DOMAIN connections : m # n /\ connections'[m] = connections[m]
    <3>1. numbers.connection \in Nat /\ DOMAIN connections \subseteq 1..numbers.connection
      BY <1>0 DEF DriverTypes
    <3> QED
      BY <2>4, <3>1 DEF Driver!With
  <2> HIDE DEF n
  <2>6. DriverTypes'
    BY <1>0, <2>0, <2>4, <2>5, Moves DEF DriverTypes
  <2>7. Unread'
    BY <1>0, <2>0, StaysUnread
  <2>8. Connected'
    <3>1. \A m \in DOMAIN connections' : Past(connections[m])'
      BY <1>0, <2>2, <2>3, <2>5 DEF Connected
    <3> QED
      BY <1>0, <2>0, <2>1, <2>2, <3>1 DEF Connected
  <2>9. OnConnection'
    <3>1. \A m \in DOMAIN sessions :
            connections'[sessions[m].connection] = connections[sessions[m].connection]
      BY <1>0, <2>5 DEF Driver!NothingUnreachable
    <3>2. ASSUME NEW s \in core.sessions
          PROVE  s.core # r
      BY <1>0 DEF OnConnection
    <3> QED
      BY <1>0, <2>0, <2>1, <2>2, <3>1, <3>2 DEF OnConnection
  <2>10. Driver!NothingUnreachable'
    <3>1. \A s \in core.sessions : s.core # r /\ s.on # r
      BY <1>0 DEF OnConnection, Past
    <3> QED
      BY <1>0, <2>0, <2>3, <2>5, <3>1 DEF Driver!NothingUnreachable
  <2> QED
    BY <2>6, <2>7, <2>8, <2>9, <2>10 DEF DriverIInv
<1> QED
  BY <1>1, <1>2

(* The end of session.open: its connection may be gone, and then the       *)
(* request closes what it opened (driver/server.go:422-444).               *)
LEMMA RegisterSessionStep ==
  ASSUME DriverIInv, NEW r \in Driver!Request, Driver!RegisterSession(r)
  PROVE  DriverIInv'
<1>0. /\ DriverTypes /\ Unread /\ Connected /\ OnConnection /\ Driver!NothingUnreachable
      /\ request[r].at = "register" /\ Driver!Method(r) = "session.open"
      /\ UNCHANGED <<script, run, connections, core>>
  BY DEF DriverIInv, Driver!RegisterSession
<1>1. CASE ~Driver!StillOpen(r)
  <2>0. Driver!Going(r, "closing", r) /\ UNCHANGED <<numbers, sessions>>
    BY <1>1 DEF Driver!RegisterSession
  <2>1. /\ Driver!Request' = Driver!Request /\ request'[r].at = "closing" /\ request'[r].result = r
        /\ \A q \in Driver!Request : q # r => request'[q] = request[q]
        /\ \A q : Driver!Method(q)' = Driver!Method(q)
    BY <1>0, <2>0, Moves
  <2>2. \A q : Past(q) => Past(q)'
    BY <1>0, <2>0, StaysPast
  <2>3. \A o : Driver!Held(o) => Driver!Held(o)'
    BY <1>0, <2>1 DEF Driver!Held
  <2>4. DriverTypes'
    BY <1>0, <2>0, Moves DEF DriverTypes
  <2>5. Unread'
    BY <1>0, <2>0, StaysUnread
  <2>6. Connected'
    BY <1>0, <2>0, <2>1, <2>2 DEF Connected
  <2>7. OnConnection'
    BY <1>0, <2>0, <2>1, <2>2 DEF OnConnection
  <2>8. Driver!NothingUnreachable'
    BY <1>0, <2>0, <2>3 DEF Driver!NothingUnreachable
  <2> QED
    BY <2>4, <2>5, <2>6, <2>7, <2>8 DEF DriverIInv
<1>2. CASE Driver!StillOpen(r)
  <2> DEFINE n == numbers.session + 1
             item == [connection |-> Driver!Target(r), core |-> r]
  <2>0. /\ numbers' = [numbers EXCEPT !.session = @ + 1]
        /\ sessions' = Driver!With(sessions, numbers'.session, item)
        /\ Driver!Going(r, "answer", "ok")
        /\ Driver!Target(r) \in DOMAIN connections
           /\ connections[Driver!Target(r)] = request[r].result
    BY <1>2 DEF Driver!RegisterSession, Driver!StillOpen, Driver!Found
  <2>1. /\ Driver!Request' = Driver!Request /\ request'[r].at = "answer"
        /\ \A q \in Driver!Request : q # r => request'[q] = request[q]
        /\ \A q : Driver!Method(q)' = Driver!Method(q)
    BY <1>0, <2>0, Moves
  <2>2. \A q : Past(q) => Past(q)'
    BY <1>0, <2>0, StaysPast
  <2>3. (\A o : Driver!Held(o) => Driver!Held(o)' \/ o = r) /\ Past(r)'
    BY <1>0, <2>1 DEF Driver!Held, Past
  <2>4. /\ numbers' \in [connection : Nat, session : Nat]
        /\ numbers'.session = n /\ numbers'.connection = numbers.connection
        /\ sessions' = Driver!With(sessions, n, item)
    BY <1>0, <2>0 DEF DriverTypes
  <2>5. /\ DOMAIN sessions' = DOMAIN sessions \cup {n}
        /\ DOMAIN sessions' \subseteq 1..n
        /\ sessions'[n] = item
        /\ \A m \in DOMAIN sessions : m # n /\ sessions'[m] = sessions[m]
    <3>1. numbers.session \in Nat /\ DOMAIN sessions \subseteq 1..numbers.session
      BY <1>0 DEF DriverTypes
    <3> HIDE DEF item
    <3> QED
      BY <2>4, <3>1 DEF Driver!With
  <2>6. sessions'[n].core = r /\ sessions'[n].connection = Driver!Target(r)
    BY <2>5
  <2> HIDE DEF n, item
  <2>7. DriverTypes'
    BY <1>0, <2>0, <2>4, <2>5, Moves DEF DriverTypes
  <2>8. Unread'
    BY <1>0, <2>0, StaysUnread
  <2>9. Connected'
    BY <1>0, <2>0, <2>1, <2>2 DEF Connected
  <2>10. OnConnection'
    <3>1. \A m \in DOMAIN sessions' : Past(sessions[m].core)'
      BY <1>0, <2>2, <2>3, <2>5, <2>6 DEF OnConnection
    <3>2. ASSUME NEW s \in core'.sessions
          PROVE  /\ s.core \in Driver!Request' /\ Driver!Method(s.core)' = "session.open"
                 /\ request'[s.core].at \notin {"unread", "begin", "opening"}
                 /\ Past(s.on)'
                 /\ request'[s.core].at = "register" => s.on = request'[s.core].result
      BY <1>0, <2>0, <2>1, <2>2 DEF OnConnection
    <3>3. ASSUME NEW s \in core'.sessions, NEW m \in DOMAIN sessions', sessions'[m].core = s.core
          PROVE  s.on = connections'[sessions'[m].connection]
      <4>1. CASE m = n
        BY <1>0, <2>0, <2>6, <3>3, <4>1 DEF OnConnection
      <4>2. CASE m # n
        BY <1>0, <2>0, <2>5, <3>3, <4>2 DEF OnConnection
      <4> QED
        BY <4>1, <4>2
    <3> QED
      BY <3>1, <3>2, <3>3 DEF OnConnection
  <2>11. Driver!NothingUnreachable'
    <3>1. \A m \in DOMAIN sessions' : sessions'[m].connection \in DOMAIN connections'
      BY <1>0, <2>0, <2>5, <2>6 DEF Driver!NothingUnreachable
    <3>2. \A c \in core.connections : c # r
      BY <1>0 DEF Connected
    <3>3. \A s \in core.sessions : s.on # r
      BY <1>0 DEF OnConnection, Past
    <3>4. \A c \in core'.connections :
            Driver!Held(c)' \/ \E m \in DOMAIN connections' : connections'[m] = c
      BY <1>0, <2>3, <3>2 DEF Driver!NothingUnreachable
    <3>5. ASSUME NEW s \in core'.sessions
          PROVE  \/ Driver!Held(s.core)' \/ Driver!Held(s.on)'
                 \/ \E m \in DOMAIN sessions' : sessions'[m].core = s.core
      BY <1>0, <2>3, <2>5, <2>6, <3>3 DEF Driver!NothingUnreachable
    <3> QED
      BY <3>1, <3>4, <3>5 DEF Driver!NothingUnreachable
  <2> QED
    BY <2>7, <2>8, <2>9, <2>10, <2>11 DEF DriverIInv
<1> QED
  BY <1>1, <1>2

(* The first step of a method (driver/server.go:276-315).                  *)
LEMMA ServeStep ==
  ASSUME DriverIInv, NEW r \in Driver!Request, Driver!Serve(r)
  PROVE  DriverIInv'
<1>0. request[r].at = "begin" /\ UNCHANGED <<script, run, numbers, core>>
  BY DEF Driver!Serve
<1>1. CASE Driver!Simple(r)
  BY <1>0, <1>1, QuietStep DEF Driver!Simple
<1>2. CASE Driver!BeginOpen(r)
  BY <1>0, <1>2, BeginOpenStep
<1>3. CASE Driver!BeginClose(r)
  BY <1>0, <1>3, BeginCloseStep
<1>4. CASE Driver!BeginWait(r)
  BY <1>0, <1>4, QuietStep DEF Driver!BeginWait
<1> QED
  BY <1>1, <1>2, <1>3, <1>4 DEF Driver!Serve

(* A step of a request (driver/server.go:247-315).                         *)
LEMMA OneRequestStep ==
  ASSUME DriverIInv, NEW r \in Driver!Request, Driver!RequestStep(r) \/ Driver!WaitReturns(r)
  PROVE  DriverIInv'
<1>1. CASE Driver!CoreClose(r)
  BY <1>1, ClosedStep DEF Driver!CoreClose
<1>2. CASE Driver!WaitEnds(r)
  BY <1>2, QuietStep DEF Driver!WaitEnds
<1>3. CASE Driver!WaitReturns(r)
  BY <1>3, QuietStep DEF Driver!WaitReturns
<1>4. CASE Driver!Answer(r)
  BY <1>4, QuietStep DEF Driver!Answer
<1>5. CASE Driver!Signal(r)
  BY <1>5, QuietStep DEF Driver!Signal
<1> QED
  BY <1>1, <1>2, <1>3, <1>4, <1>5, ServeStep, CoreOpenStep, RegisterConnectionStep,
     RegisterSessionStep DEF Driver!RequestStep

(* A step of Run leaves the requests and the tables alone, and closing the *)
(* core leaves nothing open in it (driver/server.go:119-197).              *)
LEMMA OneRunStep ==
  ASSUME DriverIInv, UNCHANGED <<script, connections, sessions, numbers, request>>,
         run' = [at |-> run'.at, why |-> run'.why, taken |-> run'.taken], run'.taken = run.taken,
         \/ core'.connections = core.connections /\ core'.sessions = core.sessions
         \/ core'.connections = {} /\ core'.sessions = {},
         core' = [connections |-> core'.connections, sessions |-> core'.sessions,
                  closing |-> core'.closing]
  PROVE  DriverIInv'
<1>0. DriverTypes /\ Unread /\ Connected /\ OnConnection /\ Driver!NothingUnreachable
  BY DEF DriverIInv
<1>1. Driver!Request' = Driver!Request /\ \A q : Driver!Method(q)' = Driver!Method(q)
  BY DEF Driver!Request, Driver!Method
<1>2. \A o : Past(o)' = Past(o) /\ Driver!Held(o)' = Driver!Held(o)
  BY <1>1 DEF Past, Driver!Held
<1>3. DriverTypes'
  BY <1>0, <1>1 DEF DriverTypes
<1>4. Unread'
  BY <1>0, <1>1 DEF Unread
<1>5. Connected'
  BY <1>0, <1>1, <1>2 DEF Connected
<1>6. OnConnection'
  BY <1>0, <1>1, <1>2 DEF OnConnection
<1>7. Driver!NothingUnreachable'
  BY <1>0, <1>2 DEF Driver!NothingUnreachable
<1> QED
  BY <1>3, <1>4, <1>5, <1>6, <1>7 DEF DriverIInv

(* The steps of Run itself (driver/server.go:119-197).                     *)
LEMMA RunSteps ==
  ASSUME DriverIInv, Driver!RunStep
         \/ \E why \in {"end", "parse", "shutdown", "output"} : Driver!Stop(why)
  PROVE  DriverIInv'
<1>0. /\ run = [at |-> run.at, why |-> run.why, taken |-> run.taken]
      /\ core = [connections |-> core.connections, sessions |-> core.sessions,
                 closing |-> core.closing]
  BY DEF DriverIInv, DriverTypes
<1>1. CASE Driver!CloseBegin
  BY <1>0, <1>1, OneRunStep DEF Driver!CloseBegin
<1>2. CASE Driver!CloseEnd
  BY <1>0, <1>2, OneRunStep DEF Driver!CloseEnd
<1>6. CASE Driver!CoreCloseBegin
  BY <1>0, <1>6, OneRunStep DEF Driver!CoreCloseBegin
<1>3. CASE Driver!CloseFails
  BY <1>0, <1>3, OneRunStep DEF Driver!CloseFails
<1>4. CASE Driver!Return
  BY <1>0, <1>4, OneRunStep DEF Driver!Return
<1>5. ASSUME NEW why \in {"end", "parse", "shutdown", "output"}, Driver!Stop(why)
      PROVE  DriverIInv'
  BY <1>0, <1>5, OneRunStep DEF Driver!Stop
<1> QED
  BY <1>1, <1>2, <1>3, <1>4, <1>5, <1>6 DEF Driver!RunStep

(* The invariant holds at first, when nothing was taken                    *)
(* (driver/server.go:77-115).                                              *)
LEMMA DriverIInvInit ==
  ASSUME Driver!Init
  PROVE  DriverIInv
<1>1. DriverTypes
  BY ScriptAssumption DEF Calls, Driver!Init, DriverTypes
<1>2. Unread /\ Connected /\ OnConnection /\ Driver!NothingUnreachable
  BY DEF Driver!Init, Unread, Connected, OnConnection, Driver!NothingUnreachable
<1> QED
  BY <1>1, <1>2 DEF DriverIInv

(* Every step keeps the invariant (driver/server.go:119-468).              *)
LEMMA DriverIInvNext ==
  ASSUME DriverIInv, [Driver!Next]_(Driver!driverVars)
  PROVE  DriverIInv'
<1>1. CASE UNCHANGED Driver!driverVars
  BY <1>1, OneRunStep DEF Driver!driverVars, DriverIInv, DriverTypes
<1>2. CASE Driver!Next
  BY <1>2, TakeStep, RunSteps, OneRequestStep DEF Driver!Next
<1> QED
  BY <1>1, <1>2

(* In every state that the driver reaches, whatever a client sends, what   *)
(* the core has open can be closed by the client or is on its way to be    *)
(* registered or closed, although requests to open and to close a          *)
(* connection and its sessions race (driver/server.go:317-468).            *)
THEOREM NothingIsUnreachable == Driver!Spec => []Driver!NothingUnreachable
<1>1. Driver!Init => DriverIInv
  BY DriverIInvInit
<1>2. DriverIInv /\ [Driver!Next]_(Driver!driverVars) => DriverIInv'
  BY DriverIInvNext
<1>3. DriverIInv => Driver!NothingUnreachable
  BY DEF DriverIInv
<1> QED
  BY <1>1, <1>2, <1>3, PTL DEF Driver!Spec

-----------------------------------------------------------------------------
(* The driver counts like everybody else (driver/server.go:247-274).       *)
LEMMA Counted == \A S : Driver!Cardinality(S) = Cardinality(S)
BY DEF Driver!Cardinality, Cardinality

(* The places of a response in what was written.                           *)
WrittenAt(written, r) == {i \in DOMAIN written : written[i] = r}

(* What is written goes with where the requests are: a request is answered *)
(* on its way from "answer", and when Run has returned none is on its way. *)
Tally ==
  /\ writer = [written |-> writer.written, failed |-> writer.failed]
  /\ writer.written \in Seq(Nat)
  /\ run.taken <= Len(script)
  /\ \A r \in Driver!Request : r <= run.taken => request[r].at # "unread"
  /\ \A r \in Driver!Request :
       /\ Driver!Answers(r) \in {0, 1}
       /\ request[r].at \notin {"signal", "done"} => Driver!Answers(r) = 0
       /\ script[r].named => (request[r].at \in {"signal", "done"} /\ ~writer.failed =>
                                Driver!Answers(r) = 1)
       /\ ~script[r].named => Driver!Answers(r) = 0
  /\ run.at = "returned" /\ run.why # "close" =>
       /\ \A r \in Driver!Request : request[r].at \in {"unread", "done"}
       /\ run.why = "parse" /\ ~writer.failed => Driver!Last(writer.written) = Driver!ParseError

(* One more response is counted for its request, and for no other          *)
(* (driver/server.go:247-274).                                             *)
LEMMA OneMore ==
  ASSUME NEW written \in Seq(Nat), NEW new \in Nat, NEW r
  PROVE  /\ Append(written, new) \in Seq(Nat)
         /\ Driver!Last(Append(written, new)) = new
         /\ Cardinality(WrittenAt(written, r)) \in Nat
         /\ Cardinality(WrittenAt(Append(written, new), r)) =
              IF r = new THEN Cardinality(WrittenAt(written, r)) + 1
              ELSE Cardinality(WrittenAt(written, r))
<1> DEFINE all == Append(written, new)
           n == Len(written)
           before == WrittenAt(written, r)
           after == WrittenAt(all, r)
<1>1. /\ all \in Seq(Nat) /\ Len(all) = n + 1 /\ n \in Nat
      /\ DOMAIN written = 1..n /\ DOMAIN all = 1..(n + 1)
      /\ \A i \in 1..n : all[i] = written[i]
      /\ all[n + 1] = new
  BY AppendProperties, LenProperties
<1>2. Driver!Last(all) = new
  BY <1>1 DEF Driver!Last
<1> HIDE DEF all, n
<1>3. IsFiniteSet(before) /\ Cardinality(before) \in Nat
  <2>1. before \in SUBSET (1..n) /\ 1 \in Int /\ n \in Int
    BY <1>1 DEF WrittenAt
  <2>2. IsFiniteSet(1..n)
    BY <2>1, FS_Interval
  <2> QED
    BY <2>1, <2>2, FS_Subset, FS_CardinalityType
<1>4. n + 1 \notin before
  BY <1>1 DEF WrittenAt
<1>5. \A i : i \in 1..(n + 1) <=> i \in 1..n \/ i = n + 1
  BY <1>1
<1>6. after = IF r = new THEN before \cup {n + 1} ELSE before
  BY <1>1, <1>5 DEF WrittenAt
<1>7. Cardinality(before \cup {n + 1}) = Cardinality(before) + 1
  BY <1>3, <1>4, FS_AddElement
<1> HIDE DEF before, after
<1>8. Cardinality(after) = IF r = new THEN Cardinality(before) + 1 ELSE Cardinality(before)
  BY <1>6, <1>7
<1> QED
  BY <1>1, <1>2, <1>3, <1>8 DEF all, before, after

(* A request goes on without a response (driver/server.go:247-315).        *)
LEMMA NoAnswerYet ==
  ASSUME DriverTypes, Tally, UNCHANGED <<script, run, writer>>, NEW r \in Driver!Request, NEW a,
         NEW x,
         Driver!Going(r, a, x),
         \/ /\ request[r].at \notin {"unread", "signal", "done"}
            /\ a \notin {"unread", "signal", "done"}
         \/ request[r].at = "signal" /\ a = "done"
  PROVE  Tally'
<1>1. /\ Driver!Request' = Driver!Request /\ request'[r].at = a
      /\ \A q \in Driver!Request : q # r => request'[q] = request[q]
  BY Moves
<1>2. ~(run.at = "returned" /\ run.why # "close")
  BY DEF Tally
<1>3. \A q : Driver!Answers(q)' = Driver!Answers(q)
  BY DEF Driver!Answers
<1>4. \A q \in Driver!Request' : q <= run'.taken => request'[q].at # "unread"
  BY <1>1 DEF Tally
<1>5. ASSUME NEW q \in Driver!Request'
      PROVE  /\ Driver!Answers(q)' \in {0, 1}
             /\ request'[q].at \notin {"signal", "done"} => Driver!Answers(q)' = 0
             /\ script'[q].named => (request'[q].at \in {"signal", "done"} /\ ~writer'.failed =>
                                      Driver!Answers(q)' = 1)
             /\ ~script'[q].named => Driver!Answers(q)' = 0
  BY <1>1, <1>3, <1>5 DEF Tally
<1> QED
  BY <1>2, <1>4, <1>5 DEF Tally

(* Run takes a request (driver/server.go:119-175).                         *)
LEMMA TakeTallies ==
  ASSUME DriverTypes, Unread, Tally, Driver!Take
  PROVE  Tally'
<1> DEFINE r == run.taken + 1
<1>1. /\ r \in Driver!Request /\ run.taken \in Nat /\ request[r].at = "unread" /\ run.at = "select"
      /\ Driver!Going(r, "begin", "none") /\ UNCHANGED <<script, writer>>
      /\ run'.taken = r /\ run'.at = "select" /\ r \in Nat /\ r <= Len(script)
  BY DEF DriverTypes, Unread, Driver!Take, Driver!Request
<1>2. \A q \in Driver!Request : q \in Nat /\ (q <= r => q = r \/ q <= run.taken)
  BY <1>1 DEF DriverTypes, Driver!Request
<1> HIDE DEF r
<1>3. /\ Driver!Request' = Driver!Request /\ request'[r].at = "begin"
      /\ \A q \in Driver!Request : q # r => request'[q] = request[q]
  BY <1>1, Moves
<1>4. \A q : Driver!Answers(q)' = Driver!Answers(q)
  BY <1>1 DEF Driver!Answers
<1>5. \A q \in Driver!Request' : q <= run'.taken => request'[q].at # "unread"
  BY <1>1, <1>2, <1>3 DEF Tally
<1>6. ASSUME NEW q \in Driver!Request'
      PROVE  /\ Driver!Answers(q)' \in {0, 1}
             /\ request'[q].at \notin {"signal", "done"} => Driver!Answers(q)' = 0
             /\ script'[q].named => (request'[q].at \in {"signal", "done"} /\ ~writer'.failed =>
                                      Driver!Answers(q)' = 1)
             /\ ~script'[q].named => Driver!Answers(q)' = 0
  BY <1>1, <1>3, <1>4, <1>6 DEF Tally
<1>7. run'.taken <= Len(script')
  BY <1>1
<1> QED
  BY <1>1, <1>5, <1>6, <1>7 DEF Tally

(* A response is written, fails, or was not asked for                      *)
(* (driver/server.go:247-274).                                             *)
LEMMA AnswerTallies ==
  ASSUME DriverTypes, Tally, NEW r \in Driver!Request, Driver!Answer(r)
  PROVE  Tally'
<1>0. /\ request[r].at = "answer" /\ UNCHANGED <<script, run>>
      /\ Driver!Request \subseteq Nat /\ Driver!Answers(r) = 0
      /\ writer = [written |-> writer.written, failed |-> writer.failed]
      /\ writer.written \in Seq(Nat)
  BY DEF Driver!Answer, DriverTypes, Tally, Driver!Request
<1>a. PICK a \in {"signal", "done"} : \E x : Driver!Going(r, a, x)
  <2>1. CASE Driver!Method(r) = "driver.shutdown" /\ ~writer'.failed
    BY <2>1 DEF Driver!Answer
  <2>2. CASE ~(Driver!Method(r) = "driver.shutdown" /\ ~writer'.failed)
    BY <2>2 DEF Driver!Answer
  <2> QED
    BY <2>1, <2>2
<1>1. PICK x : Driver!Going(r, a, x)
  BY <1>a
<1>2. /\ Driver!Request' = Driver!Request /\ request'[r].at = a
      /\ \A q \in Driver!Request : q # r => request'[q] = request[q]
  BY <1>0, <1>1, Moves
<1>3. ~(run.at = "returned" /\ run.why # "close")
  BY <1>0 DEF Tally
<1>4. \/ ~script[r].named /\ writer' = writer
      \/ /\ script[r].named /\ ~writer.failed /\ writer'.written = Append(writer.written, r)
         /\ writer' = [written |-> writer'.written, failed |-> writer.failed]
      \/ /\ script[r].named /\ writer'.written = writer.written
         /\ writer' = [written |-> writer.written, failed |-> TRUE]
  BY <1>0 DEF Driver!Answer
<1>5. /\ writer' = [written |-> writer'.written, failed |-> writer'.failed]
      /\ writer'.written \in Seq(Nat)
      /\ writer.failed => writer'.failed
      /\ \A q \in Driver!Request : q # r => Driver!Answers(q)' = Driver!Answers(q)
      /\ Driver!Answers(r)' \in {0, 1}
      /\ script[r].named /\ ~writer'.failed => Driver!Answers(r)' = 1
      /\ ~script[r].named => Driver!Answers(r)' = 0
  <2>1. CASE writer'.written = writer.written
    <3>1. \A q \in Driver!Request : Driver!Answers(q)' = Driver!Answers(q)
      BY <2>1 DEF Driver!Answers
    <3>2. /\ writer' = [written |-> writer'.written, failed |-> writer'.failed]
          /\ writer.failed => writer'.failed
      BY <1>0, <1>4
    <3>3. ~(script[r].named /\ ~writer'.failed)
      <4> SUFFICES ASSUME script[r].named, ~writer'.failed PROVE FALSE
        OBVIOUS
      <4>1. Append(writer.written, r) # writer.written
        BY <1>0, AppendProperties, LenProperties
      <4> QED
        BY <1>4, <2>1, <4>1
    <3> QED
      BY <1>0, <2>1, <3>1, <3>2, <3>3
  <2>2. CASE writer'.written # writer.written
    <3>1. /\ script[r].named /\ writer'.written = Append(writer.written, r)
          /\ writer' = [written |-> writer'.written, failed |-> writer.failed]
      BY <1>4, <2>2
    <3>2. \A q : Driver!Answers(q) = Cardinality(WrittenAt(writer.written, q))
      BY Counted DEF Driver!Answers, WrittenAt
    <3>3. \A q : Driver!Answers(q)' = Cardinality(WrittenAt(writer'.written, q))
      BY Counted DEF Driver!Answers, WrittenAt
    <3>4. r \in Nat
      BY <1>0
    <3>5. writer'.written \in Seq(Nat) /\ Driver!Answers(r)' = 1
      BY <1>0, <3>1, <3>2, <3>3, <3>4, OneMore
    <3>6. \A q \in Driver!Request : q # r => Driver!Answers(q)' = Driver!Answers(q)
      BY <1>0, <3>1, <3>2, <3>3, <3>4, OneMore
    <3>7. /\ writer' = [written |-> writer'.written, failed |-> writer'.failed]
          /\ writer.failed => writer'.failed
      BY <3>1
    <3> QED
      BY <3>1, <3>5, <3>6, <3>7
  <2> QED
    BY <2>1, <2>2
<1>6. \A q \in Driver!Request' : q <= run'.taken => request'[q].at # "unread"
  BY <1>0, <1>1, <1>2 DEF Tally
<1>7. ASSUME NEW q \in Driver!Request'
      PROVE  /\ Driver!Answers(q)' \in {0, 1}
             /\ request'[q].at \notin {"signal", "done"} => Driver!Answers(q)' = 0
             /\ script'[q].named => (request'[q].at \in {"signal", "done"} /\ ~writer'.failed =>
                                      Driver!Answers(q)' = 1)
             /\ ~script'[q].named => Driver!Answers(q)' = 0
  BY <1>0, <1>1, <1>2, <1>5, <1>7 DEF Tally
<1>8. run'.taken <= Len(script')
  BY <1>0 DEF Tally
<1> QED
  BY <1>0, <1>3, <1>5, <1>6, <1>7, <1>8 DEF Tally

(* The steps of a request that write no response leave it unanswered, or   *)
(* answered (driver/server.go:247-315).                                    *)
LEMMA RequestTallies ==
  ASSUME DriverTypes, Tally, NEW r \in Driver!Request, Driver!RequestStep(r)
         \/ Driver!WaitReturns(r)
  PROVE  Tally'
<1>1. CASE Driver!Answer(r)
  BY <1>1, AnswerTallies
<1>2. CASE Driver!Signal(r)
  BY <1>2, NoAnswerYet DEF Driver!Signal
<1>3. CASE Driver!Serve(r)
  <2>1. /\ request[r].at = "begin" /\ UNCHANGED <<script, run, writer>>
    BY <1>3 DEF Driver!Serve
  <2>2. CASE Driver!Simple(r)
    BY <2>1, <2>2, NoAnswerYet DEF Driver!Simple
  <2>3. CASE Driver!BeginOpen(r)
    BY <2>1, <2>3, NoAnswerYet DEF Driver!BeginOpen
  <2>4. CASE Driver!BeginClose(r)
    BY <2>1, <2>4, NoAnswerYet DEF Driver!BeginClose
  <2>5. CASE Driver!BeginWait(r)
    BY <2>1, <2>5, NoAnswerYet DEF Driver!BeginWait
  <2> QED
    BY <1>3, <2>2, <2>3, <2>4, <2>5 DEF Driver!Serve
<1>4. CASE Driver!CoreOpen(r)
  BY <1>4, NoAnswerYet DEF Driver!CoreOpen
<1>5. CASE Driver!RegisterConnection(r)
  BY <1>5, NoAnswerYet DEF Driver!RegisterConnection
<1>6. CASE Driver!RegisterSession(r)
  BY <1>6, NoAnswerYet DEF Driver!RegisterSession
<1>7. CASE Driver!CoreClose(r)
  BY <1>7, NoAnswerYet DEF Driver!CoreClose
<1>8. CASE Driver!WaitEnds(r)
  BY <1>8, NoAnswerYet DEF Driver!WaitEnds
<1>9. CASE Driver!WaitReturns(r)
  BY <1>9, NoAnswerYet DEF Driver!WaitReturns
<1> QED
  BY <1>1, <1>2, <1>3, <1>4, <1>5, <1>6, <1>7, <1>8, <1>9 DEF Driver!RequestStep

(* The steps of Run: the last of them writes what the parse error is       *)
(* answered with (driver/server.go:119-197).                               *)
LEMMA RunTallies ==
  ASSUME DriverTypes, Tally, Driver!RunStep
         \/ \E why \in {"end", "parse", "shutdown", "output"} : Driver!Stop(why)
  PROVE  Tally'
<1>a. UNCHANGED <<script, request>>
  BY DEF Driver!RunStep, Driver!Stop, Driver!CloseBegin, Driver!CoreCloseBegin, Driver!CloseEnd,
     Driver!CloseFails, Driver!Return
<1>b. /\ run = [at |-> run.at, why |-> run.why, taken |-> run.taken]
      /\ writer = [written |-> writer.written, failed |-> writer.failed]
      /\ writer.written \in Seq(Nat) /\ Driver!Request \subseteq Nat \ {0}
  BY DEF DriverTypes, Tally, Driver!Request
<1>0. /\ run = [at |-> run.at, why |-> run.why, taken |-> run.taken]
      /\ UNCHANGED <<script, request>> /\ Driver!Request' = Driver!Request
      /\ writer = [written |-> writer.written, failed |-> writer.failed]
      /\ writer.written \in Seq(Nat) /\ Driver!Request \subseteq Nat \ {0}
  BY <1>a, <1>b DEF Driver!Request
<1>1. CASE ~Driver!Return
  <2>1. /\ run'.taken = run.taken /\ UNCHANGED writer
        /\ ~(run'.at = "returned" /\ run'.why # "close")
    BY <1>0, <1>1 DEF Driver!RunStep, Driver!Stop, Driver!CloseBegin, Driver!CoreCloseBegin,
       Driver!CloseEnd, Driver!CloseFails
  <2>2. \A q : Driver!Answers(q)' = Driver!Answers(q)
    BY <2>1 DEF Driver!Answers
  <2> QED
    BY <1>0, <2>1, <2>2 DEF Tally
<1>2. CASE Driver!Return
  <2>1. /\ run.at = "active" /\ run'.taken = run.taken /\ run'.why = run.why
        /\ \A r \in Driver!Request : request[r].at \in {"unread", "done"}
    BY <1>0, <1>2 DEF Driver!Return, Driver!AllServed
  <2>2. /\ writer' = [written |-> writer'.written, failed |-> writer'.failed]
        /\ writer'.written \in Seq(Nat)
        /\ writer.failed => writer'.failed
        /\ \A q \in Driver!Request : Driver!Answers(q)' = Driver!Answers(q)
        /\ run.why = "parse" /\ ~writer'.failed => Driver!Last(writer'.written) = Driver!ParseError
    <3>1. CASE /\ run.why = "parse" /\ ~writer.failed
               /\ writer' = [writer EXCEPT !.written = Append(@, Driver!ParseError)]
      <4>1. writer'.written = Append(writer.written, 0) /\ writer'.failed = writer.failed
            /\ writer' = [written |-> writer'.written, failed |-> writer'.failed]
        BY <1>0, <3>1 DEF Driver!ParseError
      <4>2. \A q : Driver!Answers(q) = Cardinality(WrittenAt(writer.written, q))
        BY Counted DEF Driver!Answers, WrittenAt
      <4>3. \A q : Driver!Answers(q)' = Cardinality(WrittenAt(writer'.written, q))
        BY Counted DEF Driver!Answers, WrittenAt
      <4>4. /\ writer'.written \in Seq(Nat) /\ Driver!Last(writer'.written) = 0
            /\ \A q \in Driver!Request : Driver!Answers(q)' = Driver!Answers(q)
        BY <1>0, <4>1, <4>2, <4>3, OneMore
      <4> QED
        BY <4>1, <4>4 DEF Driver!ParseError
    <3>2. CASE \/ writer' = writer /\ ~(run.why = "parse" /\ ~writer.failed)
               \/ writer' = [writer EXCEPT !.failed = TRUE]
      <4>1. writer'.written = writer.written
            /\ writer' = [written |-> writer'.written, failed |-> writer'.failed]
            /\ (writer.failed => writer'.failed)
            /\ ~(run.why = "parse" /\ ~writer'.failed)
        BY <1>0, <3>2
      <4>2. \A q : Driver!Answers(q)' = Driver!Answers(q)
        BY <4>1 DEF Driver!Answers
      <4> QED
        BY <1>0, <4>1, <4>2
    <3> QED
      BY <1>2, <3>1, <3>2 DEF Driver!Return
  <2> QED
    BY <1>0, <2>1, <2>2 DEF Tally
<1> QED
  BY <1>1, <1>2

(* At first nothing was answered (driver/server.go:77-115).                *)
LEMMA TallyInit ==
  ASSUME Driver!Init
  PROVE  Tally
<1>1. DriverIInv
  BY DriverIInvInit
<1>2. \A r : Driver!Answers(r) = 0
  <2>1. \A r : Driver!Answers(r) = Cardinality({})
    BY Counted DEF Driver!Init, Driver!Answers
  <2> QED
    BY <2>1, FS_EmptySet
<1>3. writer.written = <<>> /\ writer.written \in Seq(Nat) /\ Len(script) \in Nat
  BY <1>1, LenProperties DEF Driver!Init, DriverIInv, DriverTypes
<1>4. Tally
  BY <1>2, <1>3 DEF Driver!Init, Tally, Driver!Request
<1> QED
  BY <1>4

(* Every step keeps what was answered (driver/server.go:119-274).          *)
LEMMA TallyNext ==
  ASSUME DriverIInv, Tally, [Driver!Next]_(Driver!driverVars)
  PROVE  Tally'
<1>0. DriverTypes /\ Unread /\ Tally /\ DriverIInv
  BY DEF DriverIInv
<1>1. DriverIInv'
  BY DriverIInvNext
<1>2. CASE UNCHANGED Driver!driverVars
  BY <1>0, <1>1, <1>2 DEF Driver!driverVars, Tally, Driver!Answers, Driver!Request
<1>3. CASE Driver!Take
  BY <1>0, <1>1, <1>3, TakeTallies
<1>4. CASE Driver!RunStep \/ \E why \in {"end", "parse", "shutdown", "output"} : Driver!Stop(why)
  BY <1>0, <1>1, <1>4, RunTallies
<1>5. ASSUME NEW r \in Driver!Request, Driver!RequestStep(r) \/ Driver!WaitReturns(r)
      PROVE  Tally'
  BY <1>0, <1>5, RequestTallies
<1> QED
  BY <1>1, <1>2, <1>3, <1>4, <1>5 DEF Driver!Next

(* What was answered, when Run has returned (driver/server.go:119-175).    *)
LEMMA TallyAnswers ==
  ASSUME DriverIInv, Tally
  PROVE  Driver!EveryRequestAnswered
<1>1. \A r \in Driver!Request : Driver!Answers(r) <= IF script[r].named THEN 1 ELSE 0
  BY DEF Tally
<1>2. \A r \in 1..run.taken : r \in Driver!Request /\ r <= run.taken
  BY DEF DriverIInv, DriverTypes, Tally, Driver!Request
<1> QED
  BY <1>1, <1>2 DEF Driver!EveryRequestAnswered, Tally

(* In every state that the driver reaches, whatever a client sends and     *)
(* whatever fails, no request is answered twice and no notification is     *)
(* answered; and when Run has returned in order, what it took is answered  *)
(* (driver/server.go:119-175, 214-274).                                    *)
THEOREM EveryRequestIsAnswered == Driver!Spec => []Driver!EveryRequestAnswered
<1>1. Driver!Init => DriverIInv /\ Tally
  BY DriverIInvInit, TallyInit
<1>2. DriverIInv /\ Tally /\ [Driver!Next]_(Driver!driverVars) => DriverIInv' /\ Tally'
  BY DriverIInvNext, TallyNext
<1>3. DriverIInv /\ Tally => Driver!EveryRequestAnswered
  BY TallyAnswers
<1> QED
  BY <1>1, <1>2, <1>3, PTL DEF Driver!Spec

-----------------------------------------------------------------------------
(* McpService.                                                             *)

Points == {"idle", "look", "work", "register", "shut", "record", "remember", "core", "core closing"}
CallType == [at : Points, method : Mcp!Methods \cup {"none"}, about : Nat, own : Nat]

McpTypes ==
  /\ service = [closed |-> service.closed, connections |-> service.connections,
                sessions |-> service.sessions, recordings |-> service.recordings,
                failures |-> service.failures]
  /\ service.closed \in BOOLEAN
  /\ mcpCore = [connections |-> mcpCore.connections, sessions |-> mcpCore.sessions,
             closing |-> mcpCore.closing]
  /\ mcpCore.closing \in BOOLEAN
  /\ mcpCall \in [Callers -> CallType]
  /\ made \in Nat

(* A call whose own number is new: it may become the number of an object   *)
(* or of a recorded step.                                                  *)
Named(c) == mcpCall[c].at # "idle" /\ mcpCall[c].method \in Mcp!Looked

(* The calls that use a connection they found.                             *)
Uses(c) == mcpCall[c].method = "open session" /\ mcpCall[c].at \in {"work", "register", "shut"}

(* No number was given out twice.                                          *)
Numbers ==
  /\ \A c \in Callers : mcpCall[c].about <= made /\ mcpCall[c].own <= made
  /\ \A c, d \in Callers : Named(c) /\ Named(d) /\ mcpCall[c].own = mcpCall[d].own => c = d
  /\ \A id \in service.connections \cup Mcp!Sessions \cup mcpCore.connections : id \in Nat
     /\ id <= made
  /\ \A s \in mcpCore.sessions : s.id \in Nat /\ s.id <= made /\ s.on \in Nat /\ s.on <= made

(* An object that is not registered yet is known to nobody but the call    *)
(* that opens it.                                                          *)
Unknown ==
  \A c \in Callers :
    LET k == mcpCall[c] IN
    Named(c) =>
      /\ k.own \notin service.connections /\ k.own \notin Mcp!Sessions
      /\ k.own \in mcpCore.connections => k.method = "connect" /\ k.at \in {"register", "shut"}
      /\ \A s \in mcpCore.sessions :
           /\ s.on # k.own
           /\ s.id = k.own => k.method = "open session" /\ k.about = s.on
      /\ \A d \in Callers : Uses(d) => mcpCall[d].about # k.own

(* A session is registered with its connection, and when the service has   *)
(* closed the core takes nothing more.                                     *)
Agree ==
  /\ \A s \in mcpCore.sessions : s.id \in Mcp!Sessions => service.sessions[s.id] = s.on
  /\ \A c \in Callers :
       /\ mcpCall[c].at = "core closing" => mcpCore.closing
       /\ mcpCall[c].at = "register" => mcpCall[c].method \in {"connect", "open session"}
  /\ service.closed /\ ~Mcp!Closing => mcpCore.closing

Owns == McpTypes /\ Numbers /\ Unknown /\ Agree /\ Mcp!ServiceOwnsAll

(* What the recordings hold goes with what the calls still have to record. *)
McpSteps ==
  /\ done \in Seq([on : Nat, step : Nat])
  /\ \A s \in DOMAIN service.recordings :
       LET steps == service.recordings[s] IN
       /\ steps \in Seq(Nat)
       /\ \A i \in DOMAIN steps :
            steps[i] <= made /\ \A c \in Callers : Named(c) => mcpCall[c].own # steps[i]
  /\ \A c \in Callers :
       mcpCall[c].at = "record" =>
         /\ Named(c)
         /\ \E d \in DOMAIN done : done[d] = [on |-> mcpCall[c].about, step |-> mcpCall[c].own]

McpIInv == Owns /\ McpSteps /\ Mcp!RecordingsAreTrue

-----------------------------------------------------------------------------
(* A call goes on (mcpserver/service.go:244-663).                          *)
LEMMA GoesOn ==
  ASSUME McpTypes, NEW c \in Callers, NEW f \in CallType, Mcp!Goes(c, f)
  PROVE  /\ mcpCall' \in [Callers -> CallType] /\ mcpCall'[c] = f
         /\ \A d \in Callers : d # c => mcpCall'[d] = mcpCall[d]
         /\ \A d \in Callers : d # c => Named(d)' = Named(d) /\ Uses(d)' = Uses(d)
BY DEF McpTypes, Mcp!Goes, Named, Uses

(* A session is registered (mcpserver/service.go:303).                     *)
LEMMA WithSession ==
  ASSUME NEW own, NEW about, own \notin Mcp!Sessions,
         service'.sessions = Mcp!With(service.sessions, own, about)
  PROVE  /\ Mcp!Sessions' = Mcp!Sessions \cup {own} /\ service'.sessions[own] = about
         /\ \A s \in Mcp!Sessions : service'.sessions[s] = service.sessions[s]
BY DEF Mcp!With, Mcp!Sessions

(* The bound on what a call is about holds for an idle one                 *)
(* (mcpserver/service.go:244-663).                                         *)
LEMMA Counts ==
  ASSUME McpTypes
  PROVE  0 <= made /\ made <= made + 1 /\ made + 1 \in Nat /\ ~(made + 1 <= made)
BY DEF McpTypes

(* When nothing is opened or registered, the numbers keep apart            *)
(* (mcpserver/service.go:244-663).                                         *)
LEMMA Shrinks ==
  ASSUME Numbers, Unknown, made' = made,
         \A d \in Callers : mcpCall'[d].about <= made /\ mcpCall'[d].own <= made,
         \A d \in Callers :
           Named(d)' => /\ Named(d) /\ mcpCall'[d].own = mcpCall[d].own
                        /\ mcpCall'[d].method = mcpCall[d].method
                           /\ mcpCall'[d].about = mcpCall[d].about
                        /\ mcpCall[d].at \in {"register", "shut"} =>
                             mcpCall'[d].at \in {"register", "shut"},
         \A d \in Callers : Uses(d)' => /\ mcpCall'[d].about = mcpCall[d].about
                                        /\ Uses(d) \/ mcpCall[d].about \in service.connections,
         service'.connections \subseteq service.connections, Mcp!Sessions' \subseteq Mcp!Sessions,
         mcpCore'.connections \subseteq mcpCore.connections,
         mcpCore'.sessions \subseteq mcpCore.sessions
  PROVE  Numbers' /\ Unknown'
<1>1. \A d, e \in Callers : Named(d)' /\ Named(e)' /\ mcpCall'[d].own = mcpCall'[e].own => d = e
  BY DEF Numbers
<1>2. Numbers'
  BY <1>1 DEF Numbers
<1>3. ASSUME NEW e \in Callers, Named(e)'
      PROVE  LET k == mcpCall'[e] IN
             /\ k.own \notin service'.connections /\ k.own \notin Mcp!Sessions'
             /\ k.own \in mcpCore'.connections =>
                  k.method = "connect" /\ k.at \in {"register", "shut"}
             /\ \A s \in mcpCore'.sessions :
                  /\ s.on # k.own
                  /\ s.id = k.own => k.method = "open session" /\ k.about = s.on
             /\ \A d \in Callers : Uses(d)' => mcpCall'[d].about # k.own
  <2>1. Named(e) /\ mcpCall'[e].own = mcpCall[e].own
    BY <1>3
  <2>2. /\ mcpCall[e].own \notin service.connections /\ mcpCall[e].own \notin Mcp!Sessions
        /\ mcpCall[e].own \in mcpCore.connections =>
             mcpCall[e].method = "connect" /\ mcpCall[e].at \in {"register", "shut"}
        /\ \A s \in mcpCore.sessions :
             /\ s.on # mcpCall[e].own
             /\ s.id = mcpCall[e].own => mcpCall[e].method = "open session"
                /\ mcpCall[e].about = s.on
    BY <2>1 DEF Unknown
  <2>3. \A d \in Callers : Uses(d)' => mcpCall'[d].about # mcpCall[e].own
    BY <2>1, <2>2 DEF Unknown
  <2> QED
    BY <1>3, <2>1, <2>2, <2>3
<1> QED
  BY <1>2, <1>3 DEF Unknown

(* A step of a call that holds nothing of the core, before or after it     *)
(* (mcpserver/service.go:308-606).                                         *)
LEMMA Aside ==
  ASSUME Owns, NEW c \in Callers, NEW f \in CallType, Mcp!Goes(c, f), UNCHANGED <<mcpCore, made>>,
         service' = [closed |-> service'.closed, connections |-> service'.connections,
                     sessions |-> service'.sessions, recordings |-> service'.recordings,
                     failures |-> service'.failures],
         service'.closed = service.closed, service'.connections = service.connections,
         service'.sessions = service.sessions,
         mcpCall[c].at \notin {"register", "shut", "core", "core closing"},
         f.at \notin {"register", "shut", "core", "core closing"},
         \/ f = Mcp!Idle
         \/ /\ f.method = mcpCall[c].method /\ f.about = mcpCall[c].about /\ f.own = mcpCall[c].own
            /\ mcpCall[c].at # "idle"
            /\ f.at = "work" /\ f.method = "open session" => f.about \in service.connections
  PROVE  Owns'
<1>0. /\ McpTypes /\ Numbers /\ Unknown /\ Agree /\ Mcp!ServiceOwnsAll
      /\ mcpCall' \in [Callers -> CallType] /\ mcpCall'[c] = f
      /\ \A d \in Callers : d # c => mcpCall'[d] = mcpCall[d]
      /\ Mcp!Sessions' = Mcp!Sessions /\ UNCHANGED <<mcpCore, made>>
  BY GoesOn DEF Owns, Mcp!Sessions
<1>a. Mcp!Idle.at = "idle" /\ Mcp!Idle.about = 0 /\ Mcp!Idle.own = 0
  BY DEF Mcp!Idle
<1>1. McpTypes'
  BY <1>0 DEF McpTypes
<1>2. \A d \in Callers : mcpCall'[d].about <= made /\ mcpCall'[d].own <= made
  <2>1. 0 <= made
    BY <1>0, Counts
  <2> QED
    BY <1>0, <1>a, <2>1 DEF Numbers
<1>3. \A d \in Callers :
        Named(d)' => /\ Named(d) /\ mcpCall'[d].own = mcpCall[d].own
                     /\ mcpCall'[d].method = mcpCall[d].method
                        /\ mcpCall'[d].about = mcpCall[d].about
                     /\ mcpCall[d].at \in {"register", "shut"} =>
                          mcpCall'[d].at \in {"register", "shut"}
  BY <1>0, <1>a DEF Named
<1>4. \A d \in Callers : Uses(d)' => /\ mcpCall'[d].about = mcpCall[d].about
                                     /\ Uses(d) \/ mcpCall[d].about \in service.connections
  BY <1>0, <1>a DEF Uses
<1>5. Numbers' /\ Unknown'
  BY <1>0, <1>2, <1>3, <1>4, Shrinks
<1>6. \A id : Mcp!HeldBy(id) => Mcp!HeldBy(id)'
  BY <1>0, <1>a DEF Mcp!HeldBy
<1>7. Mcp!Closing' = Mcp!Closing
  BY <1>0, <1>a DEF Mcp!Closing
<1>8. Agree'
  <2>1. \A s \in mcpCore'.sessions : s.id \in Mcp!Sessions' => service'.sessions[s.id] = s.on
    BY <1>0 DEF Agree
  <2>2. \A d \in Callers :
          /\ mcpCall'[d].at = "core closing" => mcpCore'.closing
          /\ mcpCall'[d].at = "register" => mcpCall'[d].method \in {"connect", "open session"}
    BY <1>0, <1>a DEF Agree
  <2> QED
    BY <1>0, <1>7, <2>1, <2>2 DEF Agree
<1>9. Mcp!ServiceOwnsAll'
  BY <1>0, <1>6, <1>7 DEF Mcp!ServiceOwnsAll
<1> QED
  BY <1>1, <1>5, <1>8, <1>9 DEF Owns

(* A call is made: its number is new (mcpserver/service.go:243-308).       *)
LEMMA McpBeginStep ==
  ASSUME Owns, NEW c \in Callers, Mcp!Begin(c)
  PROVE  Owns'
<1>0. /\ McpTypes /\ Numbers /\ Unknown /\ Agree /\ Mcp!ServiceOwnsAll
      /\ mcpCall[c] = Mcp!Idle /\ made' = made + 1 /\ UNCHANGED <<service, mcpCore>>
  BY DEF Owns, Mcp!Begin
<1>1. PICK method \in Mcp!Methods, about \in 0..made :
        Mcp!Goes(c, [at |-> "look", method |-> method, about |-> about, own |-> made + 1])
  BY DEF Mcp!Begin
<1> DEFINE f == [at |-> "look", method |-> method, about |-> about, own |-> made + 1]
<1>2. /\ 0 <= made /\ made <= made + 1 /\ made + 1 \in Nat /\ ~(made + 1 <= made)
      /\ made \in Nat /\ about \in Nat /\ about <= made + 1
  BY <1>0, Counts DEF McpTypes
<1>3. f \in CallType /\ f.at = "look" /\ f.own = made + 1 /\ f.about = about
  <2>1. method \in Mcp!Methods \cup {"none"} /\ about \in Nat /\ made + 1 \in Nat
    BY <1>2
  <2>2. f \in CallType
    BY <2>1 DEF CallType, Points
  <2>3. f.at = "look" /\ f.own = made + 1 /\ f.about = about
    OBVIOUS
  <2> QED
    BY <2>2, <2>3
<1>a. Mcp!Idle.at = "idle"
  BY DEF Mcp!Idle
<1> HIDE DEF f
<1>4. /\ mcpCall' \in [Callers -> CallType] /\ mcpCall'[c] = f
      /\ \A d \in Callers : d # c => mcpCall'[d] = mcpCall[d]
      /\ \A d \in Callers : d # c => Named(d)' = Named(d) /\ Uses(d)' = Uses(d)
  BY <1>0, <1>1, <1>3, GoesOn DEF f
<1>5. McpTypes'
  BY <1>0, <1>2, <1>4 DEF McpTypes
<1>6. \A n : n \in Nat /\ n <= made => n <= made + 1 /\ n # made + 1
  BY <1>2
<1>7. \A d \in Callers : mcpCall[d].about \in Nat /\ mcpCall[d].own \in Nat
  BY <1>0 DEF McpTypes, CallType
<1>8. Mcp!Sessions' = Mcp!Sessions
  BY <1>0 DEF Mcp!Sessions
<1>9. Numbers'
  <2>1. \A d \in Callers : mcpCall'[d].about <= made' /\ mcpCall'[d].own <= made'
    BY <1>0, <1>2, <1>3, <1>4, <1>6, <1>7 DEF Numbers
  <2>2. \A d, e \in Callers :
          Named(d)' /\ Named(e)' /\ mcpCall'[d].own = mcpCall'[e].own => d = e
    BY <1>0, <1>3, <1>4, <1>6, <1>7 DEF Numbers
  <2>3. \A id \in service'.connections \cup Mcp!Sessions' \cup mcpCore'.connections :
          id \in Nat /\ id <= made'
    BY <1>0, <1>6, <1>8 DEF Numbers
  <2>4. \A s \in mcpCore'.sessions : s.id \in Nat /\ s.id <= made' /\ s.on \in Nat /\ s.on <= made'
    BY <1>0, <1>6 DEF Numbers
  <2> QED
    BY <2>1, <2>2, <2>3, <2>4 DEF Numbers
<1>10. \A d \in Callers : Uses(d)' => mcpCall'[d].about = mcpCall[d].about /\ Uses(d)
  BY <1>3, <1>4 DEF Uses
<1>11. Unknown'
  <2> SUFFICES ASSUME NEW e \in Callers, Named(e)'
               PROVE  LET k == mcpCall'[e] IN
                      /\ k.own \notin service'.connections /\ k.own \notin Mcp!Sessions'
                      /\ k.own \in mcpCore'.connections =>
                           k.method = "connect" /\ k.at \in {"register", "shut"}
                      /\ \A s \in mcpCore'.sessions :
                           /\ s.on # k.own
                           /\ s.id = k.own => k.method = "open session" /\ k.about = s.on
                      /\ \A d \in Callers : Uses(d)' => mcpCall'[d].about # k.own
    BY DEF Unknown
  <2>1. CASE e = c
    <3>1. mcpCall'[e].own = made + 1
      BY <1>3, <1>4, <2>1
    <3>2. /\ made + 1 \notin service.connections /\ made + 1 \notin Mcp!Sessions
          /\ made + 1 \notin mcpCore.connections
          /\ \A s \in mcpCore.sessions : s.on # made + 1 /\ s.id # made + 1
      BY <1>0, <1>6 DEF Numbers
    <3>3. \A d \in Callers : Uses(d)' => mcpCall'[d].about # made + 1
      BY <1>0, <1>6, <1>7, <1>10 DEF Numbers
    <3> QED
      BY <1>0, <1>8, <3>1, <3>2, <3>3
  <2>2. CASE e # c
    <3>1. Named(e) /\ mcpCall'[e] = mcpCall[e]
      BY <1>4, <2>2
    <3>2. /\ mcpCall[e].own \notin service.connections /\ mcpCall[e].own \notin Mcp!Sessions
          /\ mcpCall[e].own \in mcpCore.connections =>
               mcpCall[e].method = "connect" /\ mcpCall[e].at \in {"register", "shut"}
          /\ \A s \in mcpCore.sessions :
               /\ s.on # mcpCall[e].own
               /\ s.id = mcpCall[e].own => mcpCall[e].method = "open session"
                  /\ mcpCall[e].about = s.on
          /\ \A d \in Callers : Uses(d)' => mcpCall'[d].about # mcpCall[e].own
      BY <1>0, <1>10, <3>1 DEF Unknown
    <3> QED
      BY <1>0, <1>8, <3>1, <3>2
  <2> QED
    BY <2>1, <2>2
<1>12. \A id : Mcp!HeldBy(id) => Mcp!HeldBy(id)'
  BY <1>0, <1>4, <1>a DEF Mcp!HeldBy
<1>13. Mcp!Closing' = Mcp!Closing
  BY <1>0, <1>3, <1>4, <1>a DEF Mcp!Closing
<1>14. Agree'
  BY <1>0, <1>3, <1>4, <1>8, <1>13 DEF Agree
<1>15. Mcp!ServiceOwnsAll'
  BY <1>0, <1>8, <1>12, <1>13 DEF Mcp!ServiceOwnsAll
<1> QED
  BY <1>5, <1>9, <1>11, <1>14, <1>15 DEF Owns

(* The core opens an object; its call holds it (mcpserver/service.go:244-306). *)
LEMMA McpOpenStep ==
  ASSUME Owns, NEW c \in Callers, mcpCall[c].at = "work",
         mcpCall[c].method \in {"connect", "open session"},
         IF mcpCall[c].method = "connect" THEN ~mcpCore.closing
         ELSE mcpCall[c].about \in mcpCore.connections,
         mcpCore' = Mcp!CoreOpens(mcpCall[c]), Mcp!To(c, "register"), UNCHANGED <<service, made>>
  PROVE  Owns'
<1> DEFINE k == mcpCall[c]
           f == [k EXCEPT !.at = "register"]
<1>0. /\ McpTypes /\ Numbers /\ Unknown /\ Agree /\ Mcp!ServiceOwnsAll
      /\ k \in CallType /\ k.at = "work" /\ k.method \in {"connect", "open session"}
      /\ Mcp!Sessions' = Mcp!Sessions
  BY DEF Owns, McpTypes, Mcp!Sessions
<1>1. /\ f \in CallType /\ f.at = "register" /\ f.own = k.own /\ f.about = k.about
      /\ f.method = k.method /\ Mcp!Goes(c, f)
  BY <1>0 DEF CallType, Points, Mcp!To
<1>2. /\ Named(c) /\ Named(c)' = Named(c) /\ k.own \in Nat /\ k.about \in Nat
  <2>1. mcpCall' = [mcpCall EXCEPT ![c] = f] /\ c \in DOMAIN mcpCall
    BY <1>0, <1>1 DEF Mcp!Goes, McpTypes
  <2> QED
    BY <1>0, <1>1, <2>1 DEF Named, Mcp!Looked, CallType
<1> HIDE DEF f
<1>3. /\ mcpCall' \in [Callers -> CallType] /\ mcpCall'[c] = f
      /\ \A d \in Callers : d # c => mcpCall'[d] = mcpCall[d]
      /\ \A d \in Callers : Named(d)' = Named(d) /\ mcpCall'[d].own = mcpCall[d].own
                            /\ mcpCall'[d].about = mcpCall[d].about
                               /\ mcpCall'[d].method = mcpCall[d].method
  <2>1. /\ mcpCall' \in [Callers -> CallType] /\ mcpCall'[c] = f
        /\ \A d \in Callers : d # c => mcpCall'[d] = mcpCall[d]
        /\ \A d \in Callers : d # c => Named(d)' = Named(d)
    BY <1>0, <1>1, GoesOn
  <2> QED
    BY <1>1, <1>2, <2>1
<1>4. \A d \in Callers : Uses(d)' = Uses(d)
  BY <1>0, <1>1, <1>3 DEF Uses
<1>5. mcpCore' = [connections |-> mcpCore'.connections, sessions |-> mcpCore'.sessions,
               closing |-> mcpCore'.closing]
      /\ mcpCore'.closing = mcpCore.closing
      /\ \/ /\ k.method = "connect" /\ ~mcpCore.closing
            /\ mcpCore'.connections = mcpCore.connections \cup {k.own}
            /\ mcpCore'.sessions = mcpCore.sessions
         \/ /\ k.method = "open session" /\ k.about \in mcpCore.connections
            /\ mcpCore'.connections = mcpCore.connections
            /\ mcpCore'.sessions = mcpCore.sessions \cup {[id |-> k.own, on |-> k.about]}
  <2>1. mcpCore = [connections |-> mcpCore.connections, sessions |-> mcpCore.sessions,
                closing |-> mcpCore.closing]
    BY <1>0 DEF McpTypes
  <2> QED
    BY <1>0, <2>1 DEF Mcp!CoreOpens
<1>s. /\ \A s \in mcpCore'.sessions :
           \/ s \in mcpCore.sessions
           \/ k.method = "open session" /\ s.id = k.own /\ s.on = k.about
      /\ \A id \in mcpCore'.connections :
           id \in mcpCore.connections \/ (k.method = "connect" /\ id = k.own)
  <2> DEFINE new == [id |-> k.own, on |-> k.about]
  <2>1. new.id = k.own /\ new.on = k.about
    OBVIOUS
  <2>2. /\ \A s \in mcpCore'.sessions :
             s \in mcpCore.sessions \/ (k.method = "open session" /\ s = new)
        /\ \A id \in mcpCore'.connections :
             id \in mcpCore.connections \/ (k.method = "connect" /\ id = k.own)
    <3>1. CASE k.method = "connect"
      BY <1>5, <3>1
    <3>2. CASE k.method = "open session"
      <4>1. mcpCore'.sessions = mcpCore.sessions \cup {new}
            /\ mcpCore'.connections = mcpCore.connections
        BY <1>5, <3>2
      <4> HIDE DEF new
      <4> QED
        BY <3>2, <4>1
    <3> QED
      BY <1>0, <3>1, <3>2
  <2> HIDE DEF new
  <2> QED
    BY <2>1, <2>2
<1>6. McpTypes'
  BY <1>0, <1>3, <1>5 DEF McpTypes
<1>7. k.own <= made /\ k.about <= made
  BY <1>0 DEF Numbers
<1>8. Numbers'
  <2>1. \A d \in Callers : mcpCall'[d].about <= made' /\ mcpCall'[d].own <= made'
    BY <1>0, <1>3 DEF Numbers
  <2>2. \A d, e \in Callers : Named(d)' /\ Named(e)' /\ mcpCall'[d].own = mcpCall'[e].own => d = e
    <3> SUFFICES ASSUME NEW d \in Callers, NEW e \in Callers, Named(d)', Named(e)',
                        mcpCall'[d].own = mcpCall'[e].own
                 PROVE  d = e
      OBVIOUS
    <3>1. Named(d) /\ Named(e) /\ mcpCall[d].own = mcpCall[e].own
      BY <1>3
    <3> QED
      BY <1>0, <3>1 DEF Numbers
  <2>3. \A id \in service'.connections \cup Mcp!Sessions' \cup mcpCore'.connections :
          id \in Nat /\ id <= made'
    BY <1>0, <1>2, <1>5, <1>7 DEF Numbers
  <2>4. \A s \in mcpCore'.sessions : s.id \in Nat /\ s.id <= made' /\ s.on \in Nat /\ s.on <= made'
    BY <1>0, <1>2, <1>s, <1>7 DEF Numbers
  <2> QED
    BY <2>1, <2>2, <2>3, <2>4 DEF Numbers
<1>9. Unknown'
  <2> SUFFICES ASSUME NEW e \in Callers, Named(e)'
               PROVE  LET j == mcpCall'[e] IN
                      /\ j.own \notin service'.connections /\ j.own \notin Mcp!Sessions'
                      /\ j.own \in mcpCore'.connections =>
                           j.method = "connect" /\ j.at \in {"register", "shut"}
                      /\ \A s \in mcpCore'.sessions :
                           /\ s.on # j.own
                           /\ s.id = j.own => j.method = "open session" /\ j.about = s.on
                      /\ \A d \in Callers : Uses(d)' => mcpCall'[d].about # j.own
    BY DEF Unknown
  <2>1. Named(e)
    BY <1>3
  <2>2. /\ mcpCall[e].own \notin service.connections /\ mcpCall[e].own \notin Mcp!Sessions
        /\ mcpCall[e].own \in mcpCore.connections =>
             mcpCall[e].method = "connect" /\ mcpCall[e].at \in {"register", "shut"}
        /\ \A s \in mcpCore.sessions :
             /\ s.on # mcpCall[e].own
             /\ s.id = mcpCall[e].own => mcpCall[e].method = "open session"
                /\ mcpCall[e].about = s.on
        /\ \A d \in Callers : Uses(d) => mcpCall[d].about # mcpCall[e].own
    BY <1>0, <2>1 DEF Unknown
  <2>3. mcpCall[e].own = k.own => e = c
    BY <1>0, <1>2, <2>1 DEF Numbers
  <2>4. mcpCall'[e].at = IF e = c THEN "register" ELSE mcpCall[e].at
    BY <1>1, <1>3
  <2>5. mcpCall[e].own \in mcpCore'.connections =>
          mcpCall[e].method = "connect" /\ mcpCall'[e].at \in {"register", "shut"}
    BY <1>0, <1>5, <2>2, <2>3, <2>4
  <2>6. k.method = "open session" => Uses(c)
    BY <1>0 DEF Uses
  <2>7. \A s \in mcpCore'.sessions :
          /\ s.on # mcpCall[e].own
          /\ s.id = mcpCall[e].own => mcpCall[e].method = "open session" /\ mcpCall[e].about = s.on
    BY <1>0, <1>s, <2>2, <2>3, <2>6
  <2>8. \A d \in Callers : Uses(d)' => mcpCall'[d].about # mcpCall[e].own
    BY <1>3, <1>4, <2>2
  <2> QED
    BY <1>0, <1>3, <2>2, <2>5, <2>7, <2>8
<1>o. PICK own : own = k.own
  OBVIOUS
<1>10. (\A id : Mcp!HeldBy(id) => Mcp!HeldBy(id)') /\ Mcp!HeldBy(own)'
  BY <1>0, <1>1, <1>3, <1>o DEF Mcp!HeldBy
<1>11. Mcp!Closing' = Mcp!Closing
  BY <1>0, <1>1, <1>3 DEF Mcp!Closing
<1>12. Agree'
  <2>1. k.own \notin Mcp!Sessions
    BY <1>0, <1>2 DEF Unknown
  <2>2. \A s \in mcpCore'.sessions : s.id \in Mcp!Sessions' => service'.sessions[s.id] = s.on
    BY <1>0, <1>s, <2>1 DEF Agree
  <2>3. \A d \in Callers :
          /\ mcpCall'[d].at = "core closing" => mcpCore'.closing
          /\ mcpCall'[d].at = "register" => mcpCall'[d].method \in {"connect", "open session"}
    BY <1>0, <1>1, <1>3, <1>5 DEF Agree
  <2> QED
    BY <1>0, <1>5, <1>11, <2>2, <2>3 DEF Agree
<1>13. Mcp!ServiceOwnsAll'
  <2>1. \A id \in mcpCore'.connections :
          id \in service'.connections \/ Mcp!HeldBy(id)' \/ service'.closed
    BY <1>0, <1>s, <1>10, <1>o DEF Mcp!ServiceOwnsAll
  <2>2. \A s \in mcpCore'.sessions :
          s.id \in Mcp!Sessions' \/ Mcp!HeldBy(s.id)' \/ Mcp!HeldBy(s.on)' \/ service'.closed
    BY <1>0, <1>s, <1>10, <1>o DEF Mcp!ServiceOwnsAll
  <2>3. service'.closed /\ ~Mcp!Closing' => mcpCore'.connections = {} /\ mcpCore'.sessions = {}
    BY <1>0, <1>5, <1>11 DEF Mcp!ServiceOwnsAll, Agree
  <2>4. \A s \in Mcp!Sessions' : service'.sessions[s] \in service'.connections
    BY <1>0 DEF Mcp!ServiceOwnsAll
  <2> QED
    BY <2>1, <2>2, <2>3, <2>4 DEF Mcp!ServiceOwnsAll
<1> QED
  BY <1>6, <1>8, <1>9, <1>12, <1>13 DEF Owns

(* What a call opened is registered (mcpserver/service.go:244-306).        *)
LEMMA RegisterStep ==
  ASSUME Owns, NEW c \in Callers, mcpCall[c].at = "register", Mcp!StillOpen(mcpCall[c]),
         mcpCall[c].method \in {"connect", "open session"},
         service' = IF mcpCall[c].method = "connect"
                    THEN [service EXCEPT !.connections = @ \cup {mcpCall[c].own}]
                    ELSE [service EXCEPT !.sessions = Mcp!With(@, mcpCall[c].own,
                         mcpCall[c].about)],
         Mcp!Ends(c), UNCHANGED <<mcpCore, made>>
  PROVE  Owns'
<1> DEFINE k == mcpCall[c]
<1>0. /\ McpTypes /\ Numbers /\ Unknown /\ Agree /\ Mcp!ServiceOwnsAll
      /\ k \in CallType /\ k.at = "register" /\ k.method \in {"connect", "open session"}
      /\ ~service.closed /\ (k.method = "open session" => k.about \in service.connections)
  BY DEF Owns, McpTypes, Mcp!StillOpen
<1>1. Mcp!Idle \in CallType /\ Mcp!Idle.at = "idle" /\ Mcp!Idle.own = 0 /\ Mcp!Idle.about = 0
      /\ Mcp!Goes(c, Mcp!Idle)
  BY DEF Mcp!Idle, CallType, Points, Mcp!Ends
<1>2. /\ mcpCall' \in [Callers -> CallType] /\ mcpCall'[c] = Mcp!Idle
      /\ \A d \in Callers : d # c => mcpCall'[d] = mcpCall[d]
      /\ \A d \in Callers : d # c => Named(d)' = Named(d) /\ Uses(d)' = Uses(d)
      /\ ~Named(c)' /\ ~Uses(c)' /\ Named(c)
  <2>1. /\ mcpCall' \in [Callers -> CallType] /\ mcpCall'[c] = Mcp!Idle
        /\ \A d \in Callers : d # c => mcpCall'[d] = mcpCall[d]
        /\ \A d \in Callers : d # c => Named(d)' = Named(d) /\ Uses(d)' = Uses(d)
    BY <1>0, <1>1, GoesOn
  <2> QED
    BY <1>0, <1>1, <2>1 DEF Named, Uses, Mcp!Looked
<1>o. PICK own : own = k.own
  OBVIOUS
<1>3. /\ own \in Nat /\ own <= made /\ 0 <= made
      /\ own \notin service.connections /\ own \notin Mcp!Sessions
      /\ own \in mcpCore.connections => k.method = "connect"
      /\ \A s \in mcpCore.sessions :
           /\ s.on # own
           /\ s.id = own => k.method = "open session" /\ k.about = s.on
      /\ \A d \in Callers : Named(d)' => Named(d) /\ mcpCall'[d] = mcpCall[d]
         /\ mcpCall[d].own # own
  <2>1. own \in Nat /\ own <= made /\ 0 <= made
    BY <1>0, <1>o, Counts DEF Numbers, CallType
  <2>2. \A d \in Callers : Named(d)' => Named(d) /\ mcpCall'[d] = mcpCall[d] /\ mcpCall[d].own # own
    BY <1>0, <1>2, <1>o DEF Numbers
  <2> QED
    BY <1>0, <1>2, <1>o, <2>1, <2>2 DEF Unknown
<1>4. /\ service' = [closed |-> service'.closed, connections |-> service'.connections,
                     sessions |-> service'.sessions, recordings |-> service'.recordings,
                     failures |-> service'.failures]
      /\ service'.closed = service.closed
      /\ \/ /\ k.method = "connect" /\ service'.sessions = service.sessions
            /\ service'.connections = service.connections \cup {own}
         \/ /\ k.method = "open session" /\ service'.connections = service.connections
            /\ service'.sessions = Mcp!With(service.sessions, own, k.about)
  <2>1. service = [closed |-> service.closed, connections |-> service.connections,
                   sessions |-> service.sessions, recordings |-> service.recordings,
                   failures |-> service.failures]
    BY <1>0 DEF McpTypes
  <2> QED
    BY <1>0, <1>o, <2>1
<1> HIDE DEF k
<1>5. \/ /\ k.method = "connect" /\ Mcp!Sessions' = Mcp!Sessions
         /\ service'.sessions = service.sessions
         /\ service'.connections = service.connections \cup {own}
      \/ /\ k.method = "open session" /\ Mcp!Sessions' = Mcp!Sessions \cup {own}
         /\ service'.connections = service.connections
         /\ service'.sessions[own] = k.about
         /\ \A s \in Mcp!Sessions : service'.sessions[s] = service.sessions[s]
  <2>1. CASE k.method = "connect"
    <3>1. /\ service'.sessions = service.sessions
          /\ service'.connections = service.connections \cup {own}
      BY <1>4, <2>1
    <3> QED
      BY <2>1, <3>1 DEF Mcp!Sessions
  <2>2. CASE k.method = "open session"
    <3>1. /\ service'.sessions = Mcp!With(service.sessions, own, k.about)
          /\ service'.connections = service.connections
      BY <1>4, <2>2
    <3>a. PICK about : about = k.about
      OBVIOUS
    <3>2. /\ Mcp!Sessions' = Mcp!Sessions \cup {own} /\ service'.sessions[own] = k.about
          /\ \A s \in Mcp!Sessions : service'.sessions[s] = service.sessions[s]
      BY <1>3, <3>1, <3>a, WithSession
    <3> QED
      BY <2>2, <3>1, <3>2
  <2> QED
    BY <1>0, <2>1, <2>2
<1>6. McpTypes'
  BY <1>0, <1>2, <1>4 DEF McpTypes
<1>7. Numbers'
  <2>1. \A d \in Callers : mcpCall'[d].about <= made' /\ mcpCall'[d].own <= made'
    BY <1>0, <1>1, <1>2, <1>3, ZenonT(40) DEF Numbers
  <2>2. \A d, e \in Callers : Named(d)' /\ Named(e)' /\ mcpCall'[d].own = mcpCall'[e].own => d = e
    BY <1>0, <1>3 DEF Numbers
  <2>3. \A id \in service'.connections \cup Mcp!Sessions' \cup mcpCore'.connections :
          id \in Nat /\ id <= made'
    BY <1>0, <1>3, <1>5 DEF Numbers
  <2> QED
    BY <1>0, <2>1, <2>2, <2>3 DEF Numbers
<1>8. Unknown'
  <2> SUFFICES ASSUME NEW e \in Callers, Named(e)'
               PROVE  LET j == mcpCall'[e] IN
                      /\ j.own \notin service'.connections /\ j.own \notin Mcp!Sessions'
                      /\ j.own \in mcpCore'.connections =>
                           j.method = "connect" /\ j.at \in {"register", "shut"}
                      /\ \A s \in mcpCore'.sessions :
                           /\ s.on # j.own
                           /\ s.id = j.own => j.method = "open session" /\ j.about = s.on
                      /\ \A d \in Callers : Uses(d)' => mcpCall'[d].about # j.own
    BY DEF Unknown
  <2>1. Named(e) /\ mcpCall'[e] = mcpCall[e] /\ mcpCall[e].own # own
    BY <1>3
  <2>2. /\ mcpCall[e].own \notin service.connections /\ mcpCall[e].own \notin Mcp!Sessions
        /\ mcpCall[e].own \in mcpCore.connections =>
             mcpCall[e].method = "connect" /\ mcpCall[e].at \in {"register", "shut"}
        /\ \A s \in mcpCore.sessions :
             /\ s.on # mcpCall[e].own
             /\ s.id = mcpCall[e].own => mcpCall[e].method = "open session"
                /\ mcpCall[e].about = s.on
        /\ \A d \in Callers : Uses(d) => mcpCall[d].about # mcpCall[e].own
    BY <1>0, <2>1 DEF Unknown
  <2>3. \A d \in Callers : Uses(d)' => mcpCall'[d].about # mcpCall[e].own
    BY <1>2, <2>2
  <2>4. mcpCall[e].own \notin service'.connections /\ mcpCall[e].own \notin Mcp!Sessions'
    BY <1>5, <2>1, <2>2
  <2> QED
    BY <2>1, <2>2, <2>3, <2>4
<1>9. \A id : Mcp!HeldBy(id) => (Mcp!HeldBy(id)' \/ id = own)
  BY <1>0, <1>2, <1>o DEF Mcp!HeldBy, k
<1>10. Mcp!Closing' = Mcp!Closing
  BY <1>0, <1>1, <1>2 DEF Mcp!Closing, k
<1>11. Agree'
  <2>1. \A s \in mcpCore'.sessions : s.id \in Mcp!Sessions' => service'.sessions[s.id] = s.on
    <3> SUFFICES ASSUME NEW s \in mcpCore.sessions, s.id \in Mcp!Sessions'
                 PROVE  service'.sessions[s.id] = s.on
      BY <1>0
    <3>1. CASE s.id = own
      BY <1>0, <1>3, <1>5, <3>1
    <3>2. CASE s.id # own
      BY <1>0, <1>5, <3>2 DEF Agree
    <3> QED
      BY <3>1, <3>2
  <2>2. \A d \in Callers :
          /\ mcpCall'[d].at = "core closing" => mcpCore'.closing
          /\ mcpCall'[d].at = "register" => mcpCall'[d].method \in {"connect", "open session"}
    BY <1>0, <1>1, <1>2 DEF Agree
  <2> QED
    BY <1>0, <1>4, <1>10, <2>1, <2>2 DEF Agree
<1>12. Mcp!ServiceOwnsAll'
  <2>1. \A s \in Mcp!Sessions' : service'.sessions[s] \in service'.connections
    BY <1>0, <1>5 DEF Mcp!ServiceOwnsAll
  <2>2. \A id \in mcpCore'.connections :
          id \in service'.connections \/ Mcp!HeldBy(id)' \/ service'.closed
    BY <1>0, <1>3, <1>4, <1>5, <1>9 DEF Mcp!ServiceOwnsAll
  <2>3. \A s \in mcpCore'.sessions :
          s.id \in Mcp!Sessions' \/ Mcp!HeldBy(s.id)' \/ Mcp!HeldBy(s.on)' \/ service'.closed
    BY <1>0, <1>3, <1>4, <1>5, <1>9 DEF Mcp!ServiceOwnsAll
  <2> QED
    BY <1>0, <1>4, <2>1, <2>2, <2>3 DEF Mcp!ServiceOwnsAll
<1> QED
  BY <1>6, <1>7, <1>8, <1>11, <1>12 DEF Owns

(* A call that comes too late closes what it opened, and a call that       *)
(* closes is done when the core has closed (mcpserver/service.go:244-306,  *)
(* 609-663).                                                               *)
LEMMA LateStep ==
  ASSUME Owns, NEW c \in Callers, mcpCall[c].at = "register", Mcp!To(c, "shut"),
         UNCHANGED <<service, mcpCore, made>>
  PROVE  Owns'
<1> DEFINE k == mcpCall[c]
           f == [k EXCEPT !.at = "shut"]
<1>0. /\ McpTypes /\ Numbers /\ Unknown /\ Agree /\ Mcp!ServiceOwnsAll
      /\ k \in CallType /\ k.at = "register" /\ Mcp!Sessions' = Mcp!Sessions
  BY DEF Owns, McpTypes, Mcp!Sessions
<1>1. /\ f \in CallType /\ f.at = "shut" /\ f.own = k.own /\ f.about = k.about
      /\ f.method = k.method /\ Mcp!Goes(c, f)
  BY <1>0 DEF CallType, Points, Mcp!To
<1> HIDE DEF f
<1>2. /\ mcpCall' \in [Callers -> CallType] /\ mcpCall'[c] = f
      /\ \A d \in Callers : d # c => mcpCall'[d] = mcpCall[d]
      /\ \A d \in Callers : d # c => Named(d)' = Named(d) /\ Uses(d)' = Uses(d)
  BY <1>0, <1>1, GoesOn
<1>3. McpTypes'
  BY <1>0, <1>2 DEF McpTypes
<1>4. \A d \in Callers : mcpCall'[d].about <= made /\ mcpCall'[d].own <= made
  BY <1>0, <1>1, <1>2 DEF Numbers
<1>5. \A d \in Callers :
        Named(d)' => /\ Named(d) /\ mcpCall'[d].own = mcpCall[d].own
                     /\ mcpCall'[d].method = mcpCall[d].method
                        /\ mcpCall'[d].about = mcpCall[d].about
                     /\ mcpCall[d].at \in {"register", "shut"} =>
                          mcpCall'[d].at \in {"register", "shut"}
  BY <1>0, <1>1, <1>2 DEF Named
<1>6. \A d \in Callers : Uses(d)' => /\ mcpCall'[d].about = mcpCall[d].about
                                     /\ Uses(d) \/ mcpCall[d].about \in service.connections
  BY <1>0, <1>1, <1>2 DEF Uses
<1>7. Numbers' /\ Unknown'
  BY <1>0, <1>4, <1>5, <1>6, Shrinks
<1>8. \A id : Mcp!HeldBy(id) => Mcp!HeldBy(id)'
  BY <1>0, <1>1, <1>2 DEF Mcp!HeldBy
<1>9. Mcp!Closing' = Mcp!Closing
  BY <1>0, <1>1, <1>2 DEF Mcp!Closing
<1>10. Agree'
  BY <1>0, <1>1, <1>2, <1>9 DEF Agree
<1>11. Mcp!ServiceOwnsAll'
  BY <1>0, <1>8, <1>9 DEF Mcp!ServiceOwnsAll
<1> QED
  BY <1>3, <1>7, <1>10, <1>11 DEF Owns

(* The core has closed what the call closes (mcpserver/service.go:609-641). *)
LEMMA ShutStep ==
  ASSUME Owns, NEW c \in Callers, Mcp!Shut(c)
  PROVE  Owns'
<1>0. /\ McpTypes /\ Numbers /\ Unknown /\ Agree /\ Mcp!ServiceOwnsAll
      /\ mcpCall[c].at = "shut" /\ Mcp!Sessions' = Mcp!Sessions /\ UNCHANGED <<service, made>>
  BY DEF Owns, Mcp!Sessions, Mcp!Shut
<1>1. Mcp!Idle \in CallType /\ Mcp!Idle.at = "idle" /\ Mcp!Idle.own = 0 /\ Mcp!Idle.about = 0
      /\ Mcp!Goes(c, Mcp!Idle)
  BY DEF Mcp!Idle, CallType, Points, Mcp!Ends, Mcp!Shut
<1>2. /\ mcpCall' \in [Callers -> CallType] /\ mcpCall'[c] = Mcp!Idle
      /\ \A d \in Callers : d # c => mcpCall'[d] = mcpCall[d]
  BY <1>0, <1>1, GoesOn
<1>o. PICK own : own = mcpCall[c].own
  OBVIOUS
<1>3. /\ mcpCore' = [connections |-> mcpCore'.connections, sessions |-> mcpCore'.sessions,
                  closing |-> mcpCore'.closing]
      /\ mcpCore'.closing = mcpCore.closing
      /\ mcpCore'.connections = mcpCore.connections \ {own}
      /\ mcpCore'.sessions = {s \in mcpCore.sessions : s.id # own /\ s.on # own}
  <2>1. mcpCore = [connections |-> mcpCore.connections, sessions |-> mcpCore.sessions,
                closing |-> mcpCore.closing]
    BY <1>0 DEF McpTypes
  <2> QED
    BY <1>o, <2>1 DEF Mcp!Shut, Mcp!Closed
<1>4. McpTypes'
  BY <1>0, <1>2, <1>3 DEF McpTypes
<1>5. \A d \in Callers : mcpCall'[d].about <= made /\ mcpCall'[d].own <= made
  <2>1. 0 <= made
    BY <1>0, Counts
  <2> QED
    BY <1>0, <1>1, <1>2, <2>1 DEF Numbers
<1>6. \A d \in Callers :
        Named(d)' => /\ Named(d) /\ mcpCall'[d].own = mcpCall[d].own
                     /\ mcpCall'[d].method = mcpCall[d].method
                        /\ mcpCall'[d].about = mcpCall[d].about
                     /\ mcpCall[d].at \in {"register", "shut"} =>
                          mcpCall'[d].at \in {"register", "shut"}
  BY <1>0, <1>1, <1>2 DEF Named
<1>7. \A d \in Callers : Uses(d)' => /\ mcpCall'[d].about = mcpCall[d].about
                                     /\ Uses(d) \/ mcpCall[d].about \in service.connections
  BY <1>0, <1>1, <1>2 DEF Uses
<1>8. Numbers' /\ Unknown'
  BY <1>0, <1>3, <1>5, <1>6, <1>7, Shrinks
<1>9. \A id : Mcp!HeldBy(id) => (Mcp!HeldBy(id)' \/ id = own)
  BY <1>0, <1>2, <1>o DEF Mcp!HeldBy
<1>10. Mcp!Closing' = Mcp!Closing
  BY <1>0, <1>1, <1>2 DEF Mcp!Closing
<1>11. Agree'
  BY <1>0, <1>1, <1>2, <1>3, <1>10 DEF Agree
<1>12. Mcp!ServiceOwnsAll'
  BY <1>0, <1>3, <1>9, <1>10 DEF Mcp!ServiceOwnsAll
<1> QED
  BY <1>4, <1>8, <1>11, <1>12 DEF Owns

(* A call takes a session, or a connection with its sessions, out of the   *)
(* registries and holds it until the core has closed it                    *)
(* (mcpserver/service.go:609-641).                                         *)
LEMMA McpCloseStep ==
  ASSUME Owns, NEW c \in Callers, NEW gone,
         LET k == mcpCall[c] IN
         /\ k.at = "look" /\ k.method \in {"close session", "close connection"}
         /\ Mcp!Goes(c, [k EXCEPT !.at = "shut", !.own = k.about]),
         UNCHANGED <<mcpCore, made>>,
         service' = [closed |-> service'.closed, connections |-> service'.connections,
                     sessions |-> service'.sessions, recordings |-> service'.recordings,
                     failures |-> service'.failures],
         service'.closed = service.closed,
         service'.sessions = Mcp!Without(service.sessions, gone),
         \/ gone = {mcpCall[c].about} /\ service'.connections = service.connections
         \/ /\ service'.connections = service.connections \ {mcpCall[c].about}
            /\ gone = {s \in Mcp!Sessions : service.sessions[s] = mcpCall[c].about}
  PROVE  Owns'
<1> DEFINE k == mcpCall[c]
           f == [k EXCEPT !.at = "shut", !.own = k.about]
<1>0. /\ McpTypes /\ Numbers /\ Unknown /\ Agree /\ Mcp!ServiceOwnsAll
      /\ k \in CallType /\ k.at = "look" /\ k.method \in {"close session", "close connection"}
  BY DEF Owns, McpTypes
<1>1. /\ f \in CallType /\ f.at = "shut" /\ f.own = k.about /\ f.about = k.about
      /\ f.method = k.method /\ Mcp!Goes(c, f)
  BY <1>0 DEF CallType, Points
<1> HIDE DEF f
<1>2. /\ mcpCall' \in [Callers -> CallType] /\ mcpCall'[c] = f
      /\ \A d \in Callers : d # c => mcpCall'[d] = mcpCall[d]
      /\ \A d \in Callers : d # c => Named(d)' = Named(d) /\ Uses(d)' = Uses(d)
  BY <1>0, <1>1, GoesOn
<1>3. /\ Mcp!Sessions' = Mcp!Sessions \ gone
      /\ \A s \in Mcp!Sessions' : service'.sessions[s] = service.sessions[s]
  BY DEF Mcp!Without, Mcp!Sessions
<1>4. McpTypes'
  BY <1>0, <1>2 DEF McpTypes
<1>5. \A d \in Callers : mcpCall'[d].about <= made /\ mcpCall'[d].own <= made
  BY <1>0, <1>1, <1>2 DEF Numbers
<1>6. \A d \in Callers :
        Named(d)' => /\ Named(d) /\ mcpCall'[d].own = mcpCall[d].own
                     /\ mcpCall'[d].method = mcpCall[d].method
                        /\ mcpCall'[d].about = mcpCall[d].about
                     /\ mcpCall[d].at \in {"register", "shut"} =>
                          mcpCall'[d].at \in {"register", "shut"}
  <2>1. ~Named(c)'
    BY <1>0, <1>1, <1>2 DEF Named, Mcp!Looked
  <2> QED
    BY <1>2, <2>1
<1>7. \A d \in Callers : Uses(d)' => /\ mcpCall'[d].about = mcpCall[d].about
                                     /\ Uses(d) \/ mcpCall[d].about \in service.connections
  <2>1. ~Uses(c)'
    BY <1>0, <1>1, <1>2 DEF Uses
  <2> QED
    BY <1>2, <2>1
<1>8. Numbers' /\ Unknown'
  <2>1. service'.connections \subseteq service.connections /\ Mcp!Sessions' \subseteq Mcp!Sessions
    BY <1>3
  <2> QED
    BY <1>0, <1>5, <1>6, <1>7, <2>1, Shrinks
<1>o. PICK about : about = k.about
  OBVIOUS
<1>9. (\A id : Mcp!HeldBy(id) => Mcp!HeldBy(id)') /\ Mcp!HeldBy(about)'
  BY <1>0, <1>1, <1>2, <1>o DEF Mcp!HeldBy
<1>10. Mcp!Closing' = Mcp!Closing
  BY <1>0, <1>1, <1>2 DEF Mcp!Closing
<1>11. Agree'
  <2>1. \A s \in mcpCore'.sessions : s.id \in Mcp!Sessions' => service'.sessions[s.id] = s.on
    BY <1>0, <1>3 DEF Agree
  <2>2. \A d \in Callers :
          /\ mcpCall'[d].at = "core closing" => mcpCore'.closing
          /\ mcpCall'[d].at = "register" => mcpCall'[d].method \in {"connect", "open session"}
    BY <1>0, <1>1, <1>2, ZenonT(40) DEF Agree
  <2> QED
    BY <1>0, <1>10, <2>1, <2>2 DEF Agree
<1>12. Mcp!ServiceOwnsAll'
  <2>1. \A s \in Mcp!Sessions' : service'.sessions[s] \in service'.connections
    BY <1>0, <1>3 DEF Mcp!ServiceOwnsAll
  <2>2. \A id \in mcpCore'.connections :
          id \in service'.connections \/ Mcp!HeldBy(id)' \/ service'.closed
    BY <1>0, <1>9, <1>o DEF Mcp!ServiceOwnsAll
  <2>3. ASSUME NEW s \in mcpCore'.sessions
        PROVE  s.id \in Mcp!Sessions' \/ Mcp!HeldBy(s.id)' \/ Mcp!HeldBy(s.on)' \/ service'.closed
    <3>1. CASE s.id \in Mcp!Sessions /\ s.id \in gone
      <4>1. s.id = about \/ s.on = about
        BY <1>0, <1>o, <3>1 DEF Agree
      <4> QED
        BY <1>9, <4>1
    <3>2. CASE ~(s.id \in Mcp!Sessions /\ s.id \in gone)
      BY <1>0, <1>3, <1>9, <3>2 DEF Mcp!ServiceOwnsAll
    <3> QED
      BY <3>1, <3>2
  <2> QED
    BY <1>0, <1>10, <2>1, <2>2, <2>3 DEF Mcp!ServiceOwnsAll
<1> QED
  BY <1>4, <1>8, <1>11, <1>12 DEF Owns

(* Service.Close empties the registries, and then the core closes          *)
(* (mcpserver/service.go:643-663).                                         *)
LEMMA CloseServiceStep ==
  ASSUME Owns, NEW c \in Callers, mcpCall[c].at = "look", mcpCall[c].method = "close",
         service' = [Mcp!Forgetting(Mcp!Sessions) EXCEPT !.closed = TRUE, !.connections = {}],
         Mcp!To(c, "core"), UNCHANGED <<mcpCore, made>>
  PROVE  Owns'
<1> DEFINE k == mcpCall[c]
           f == [k EXCEPT !.at = "core"]
<1>0. /\ McpTypes /\ Numbers /\ Unknown /\ Agree /\ Mcp!ServiceOwnsAll
      /\ k \in CallType /\ k.at = "look" /\ k.method = "close"
  BY DEF Owns, McpTypes
<1>1. /\ f \in CallType /\ f.at = "core" /\ f.own = k.own /\ f.about = k.about
      /\ f.method = k.method /\ Mcp!Goes(c, f)
  BY <1>0 DEF CallType, Points, Mcp!To
<1> HIDE DEF f
<1>2. /\ mcpCall' \in [Callers -> CallType] /\ mcpCall'[c] = f
      /\ \A d \in Callers : d # c => mcpCall'[d] = mcpCall[d]
  BY <1>0, <1>1, GoesOn
<1>3. /\ service' = [closed |-> service'.closed, connections |-> service'.connections,
                     sessions |-> service'.sessions, recordings |-> service'.recordings,
                     failures |-> service'.failures]
      /\ service'.closed = TRUE /\ service'.connections = {}
      /\ service'.sessions = Mcp!Without(service.sessions, Mcp!Sessions)
  <2>1. service = [closed |-> service.closed, connections |-> service.connections,
                   sessions |-> service.sessions, recordings |-> service.recordings,
                   failures |-> service.failures]
    BY <1>0 DEF McpTypes
  <2> QED
    BY <2>1 DEF Mcp!Forgetting
<1>4. Mcp!Sessions' = {}
  BY <1>3 DEF Mcp!Without, Mcp!Sessions
<1>5. McpTypes'
  BY <1>0, <1>2, <1>3 DEF McpTypes
<1>6. \A d \in Callers : mcpCall'[d].about <= made /\ mcpCall'[d].own <= made
  BY <1>0, <1>1, <1>2 DEF Numbers
<1>7. \A d \in Callers :
        Named(d)' => /\ Named(d) /\ mcpCall'[d].own = mcpCall[d].own
                     /\ mcpCall'[d].method = mcpCall[d].method
                        /\ mcpCall'[d].about = mcpCall[d].about
                     /\ mcpCall[d].at \in {"register", "shut"} =>
                          mcpCall'[d].at \in {"register", "shut"}
  BY <1>0, <1>1, <1>2 DEF Named
<1>8. \A d \in Callers : Uses(d)' => /\ mcpCall'[d].about = mcpCall[d].about
                                     /\ Uses(d) \/ mcpCall[d].about \in service.connections
  BY <1>0, <1>1, <1>2 DEF Uses
<1>9. Numbers' /\ Unknown'
  BY <1>0, <1>3, <1>4, <1>6, <1>7, <1>8, Shrinks
<1>10. Mcp!Closing'
  BY <1>1, <1>2 DEF Mcp!Closing
<1>11. Agree'
  BY <1>0, <1>1, <1>2, <1>4, <1>10 DEF Agree
<1>12. Mcp!ServiceOwnsAll'
  BY <1>3, <1>4, <1>10 DEF Mcp!ServiceOwnsAll
<1> QED
  BY <1>5, <1>9, <1>11, <1>12 DEF Owns

(* The core takes nothing more, and then it has closed all                 *)
(* (mcpserver/service.go:643-663).                                         *)
LEMMA CoreStep ==
  ASSUME Owns, NEW c \in Callers, Mcp!CoreCloseBegins(c) \/ Mcp!CoreCloses(c)
  PROVE  Owns'
<1>0. /\ McpTypes /\ Numbers /\ Unknown /\ Agree /\ Mcp!ServiceOwnsAll
      /\ mcpCall[c] \in CallType /\ mcpCall[c].at \in {"core", "core closing"}
      /\ Mcp!Sessions' = Mcp!Sessions /\ UNCHANGED <<service, made>>
      /\ mcpCore = [connections |-> mcpCore.connections, sessions |-> mcpCore.sessions,
                 closing |-> mcpCore.closing]
  BY DEF Owns, McpTypes, Mcp!Sessions, Mcp!CoreCloseBegins, Mcp!CoreCloses
<1>1. PICK f \in CallType :
        /\ Mcp!Goes(c, f) /\ 0 <= made
        /\ \/ f = Mcp!Idle /\ Mcp!CoreCloses(c) /\ mcpCore.closing
           \/ /\ f.at = "core closing" /\ f.method = mcpCall[c].method
              /\ f.about = mcpCall[c].about /\ f.own = mcpCall[c].own /\ Mcp!CoreCloseBegins(c)
  <2>1. CASE Mcp!CoreCloses(c)
    <3>1. Mcp!Idle \in CallType /\ Mcp!Goes(c, Mcp!Idle) /\ mcpCore.closing /\ 0 <= made
      BY <1>0, <2>1, Counts DEF Mcp!CoreCloses, Mcp!Idle, CallType, Points, Mcp!Ends, Agree
    <3> QED
      BY <2>1, <3>1
  <2>2. CASE Mcp!CoreCloseBegins(c)
    <3> DEFINE f == [mcpCall[c] EXCEPT !.at = "core closing"]
    <3>1. /\ f \in CallType /\ Mcp!Goes(c, f) /\ 0 <= made
          /\ f.at = "core closing" /\ f.method = mcpCall[c].method
          /\ f.about = mcpCall[c].about /\ f.own = mcpCall[c].own
      BY <1>0, <2>2, Counts DEF Mcp!CoreCloseBegins, CallType, Points, Mcp!To
    <3> HIDE DEF f
    <3> QED
      BY <2>2, <3>1
  <2> QED
    BY <2>1, <2>2
<1>a. Mcp!Idle.at = "idle" /\ Mcp!Idle.own = 0 /\ Mcp!Idle.about = 0
  BY DEF Mcp!Idle
<1>2. /\ mcpCall' \in [Callers -> CallType] /\ mcpCall'[c] = f
      /\ \A d \in Callers : d # c => mcpCall'[d] = mcpCall[d]
  BY <1>0, <1>1, GoesOn
<1>3. /\ mcpCore' = [connections |-> mcpCore'.connections, sessions |-> mcpCore'.sessions,
                  closing |-> mcpCore'.closing]
      /\ mcpCore'.closing = TRUE
      /\ \/ /\ f.at = "core closing"
            /\ mcpCore'.connections = mcpCore.connections /\ mcpCore'.sessions = mcpCore.sessions
         \/ f.at = "idle" /\ mcpCore'.connections = {} /\ mcpCore'.sessions = {}
  <2>1. CASE f = Mcp!Idle /\ Mcp!CoreCloses(c) /\ mcpCore.closing
    <3>1. mcpCore.closing = TRUE
      BY <1>0, <2>1 DEF McpTypes
    <3>2. mcpCore' = [mcpCore EXCEPT !.connections = {}, !.sessions = {}]
      BY <2>1 DEF Mcp!CoreCloses
    <3> QED
      BY <1>0, <1>a, <2>1, <3>1, <3>2
  <2>2. CASE f.at = "core closing" /\ Mcp!CoreCloseBegins(c)
    BY <1>0, <2>2 DEF Mcp!CoreCloseBegins
  <2> QED
    BY <1>1, <2>1, <2>2
<1>4. McpTypes'
  BY <1>0, <1>2, <1>3 DEF McpTypes
<1>5. \A d \in Callers : mcpCall'[d].about <= made /\ mcpCall'[d].own <= made
  BY <1>0, <1>1, <1>a, <1>2 DEF Numbers
<1>6. \A d \in Callers :
        Named(d)' => /\ Named(d) /\ mcpCall'[d].own = mcpCall[d].own
                     /\ mcpCall'[d].method = mcpCall[d].method
                        /\ mcpCall'[d].about = mcpCall[d].about
                     /\ mcpCall[d].at \in {"register", "shut"} =>
                          mcpCall'[d].at \in {"register", "shut"}
  BY <1>0, <1>1, <1>a, <1>2 DEF Named
<1>7. \A d \in Callers : Uses(d)' => /\ mcpCall'[d].about = mcpCall[d].about
                                     /\ Uses(d) \/ mcpCall[d].about \in service.connections
  BY <1>0, <1>1, <1>a, <1>2 DEF Uses
<1>8. Numbers' /\ Unknown'
  BY <1>0, <1>3, <1>5, <1>6, <1>7, Shrinks
<1>9. \A id : Mcp!HeldBy(id) => Mcp!HeldBy(id)'
  BY <1>0, <1>2 DEF Mcp!HeldBy
<1>10. f.at = "core closing" => Mcp!Closing'
  BY <1>2 DEF Mcp!Closing
<1>11. Agree'
  BY <1>0, <1>2, <1>3 DEF Agree
<1>12. Mcp!ServiceOwnsAll'
  BY <1>0, <1>3, <1>9, <1>10 DEF Mcp!ServiceOwnsAll
<1> QED
  BY <1>4, <1>8, <1>11, <1>12 DEF Owns

(* Every step keeps what the service owns (mcpserver/service.go:244-663).  *)
LEMMA OwnsNext ==
  ASSUME Owns, NEW c \in Callers, Mcp!CallStep(c)
  PROVE  Owns'
<1>0. /\ McpTypes /\ mcpCall[c] \in CallType
      /\ Mcp!Idle \in CallType /\ Mcp!Idle.at = "idle"
      /\ service = [closed |-> service.closed, connections |-> service.connections,
                    sessions |-> service.sessions, recordings |-> service.recordings,
                    failures |-> service.failures]
  BY DEF Owns, McpTypes, Mcp!Idle, CallType, Points
<1>1. ASSUME mcpCall[c].at \notin {"idle", "register", "shut", "core", "core closing"},
             UNCHANGED <<mcpCore, made>>,
             \/ Mcp!Ends(c)
             \/ /\ Mcp!To(c, "work")
                /\ mcpCall[c].method = "open session" => mcpCall[c].about \in service.connections
             \/ Mcp!To(c, "record") \/ Mcp!To(c, "remember"),
             service' = [closed |-> service'.closed, connections |-> service'.connections,
                         sessions |-> service'.sessions, recordings |-> service'.recordings,
                         failures |-> service'.failures],
             service'.closed = service.closed, service'.connections = service.connections,
             service'.sessions = service.sessions
      PROVE  Owns'
  <2>1. CASE Mcp!Ends(c)
    <3>1. Mcp!Goes(c, Mcp!Idle)
      BY <2>1 DEF Mcp!Ends
    <3> QED
      BY <1>0, <1>1, <3>1, Aside
  <2>2. ASSUME NEW at \in {"work", "record", "remember"}, Mcp!To(c, at),
               at = "work" /\ mcpCall[c].method = "open session" =>
                 mcpCall[c].about \in service.connections
        PROVE  Owns'
    <3> DEFINE f == [mcpCall[c] EXCEPT !.at = at]
    <3>1. /\ f \in CallType /\ Mcp!Goes(c, f) /\ f.at = at /\ f.method = mcpCall[c].method
          /\ f.about = mcpCall[c].about /\ f.own = mcpCall[c].own
      BY <1>0, <2>2 DEF Mcp!To, CallType, Points
    <3> HIDE DEF f
    <3>2. f.at \notin {"register", "shut", "core", "core closing"}
      BY <3>1
    <3>3. f.at = "work" /\ f.method = "open session" => f.about \in service.connections
      BY <2>2, <3>1
    <3> QED
      BY <1>0, <1>1, <3>1, <3>2, <3>3, Aside
  <2> QED
    BY <1>1, <2>1, <2>2
<1>2. CASE Mcp!Look(c)
  <2>1. /\ mcpCall[c].at = "look" /\ UNCHANGED <<service, mcpCore, made>>
        /\ \/ Mcp!Ends(c)
           \/ /\ Mcp!To(c, "work")
              /\ mcpCall[c].method = "open session" => mcpCall[c].about \in service.connections
    BY <1>2 DEF Mcp!Look, Mcp!Found
  <2> QED
    BY <1>0, <1>1, <2>1
<1>3. CASE Mcp!Open(c)
  <2>1. CASE Mcp!Ends(c) /\ UNCHANGED mcpCore
    BY <1>0, <1>1, <1>3, <2>1 DEF Mcp!Open
  <2>2. CASE ~(Mcp!Ends(c) /\ UNCHANGED mcpCore)
    BY <1>3, <2>2, McpOpenStep DEF Mcp!Open
  <2> QED
    BY <2>1, <2>2
<1>4. CASE Mcp!Register(c)
  <2>1. CASE Mcp!StillOpen(mcpCall[c])
    <3>1. mcpCall[c].method \in {"connect", "open session"}
      BY <1>4 DEF Mcp!Register, Owns, Agree
    <3> QED
      BY <1>4, <2>1, <3>1, RegisterStep DEF Mcp!Register
  <2>2. CASE ~Mcp!StillOpen(mcpCall[c])
    BY <1>4, <2>2, LateStep DEF Mcp!Register
  <2> QED
    BY <2>1, <2>2
<1>5. CASE Mcp!Shut(c)
  BY <1>5, ShutStep
<1>6. CASE Mcp!Work(c)
  BY <1>0, <1>1, <1>6 DEF Mcp!Work
<1>7. CASE Mcp!Record(c)
  BY <1>0, <1>1, <1>7 DEF Mcp!Record, Mcp!Recorded
<1>8. CASE Mcp!RememberFailure(c)
  BY <1>0, <1>1, <1>8 DEF Mcp!RememberFailure
<1>9. CASE Mcp!Start(c)
  BY <1>0, <1>1, <1>9 DEF Mcp!Start
<1>10. CASE Mcp!Stop(c)
  BY <1>0, <1>1, <1>10 DEF Mcp!Stop
<1>11. CASE Mcp!Close(c)
  <2>1. CASE UNCHANGED service /\ Mcp!Ends(c)
    BY <1>0, <1>1, <1>11, <2>1 DEF Mcp!Close
  <2>2. CASE /\ mcpCall[c].method = "close session"
             /\ service' = Mcp!Forgetting({mcpCall[c].about})
             /\ Mcp!Goes(c, [mcpCall[c] EXCEPT !.at = "shut", !.own = mcpCall[c].about])
    <3> DEFINE gone == {mcpCall[c].about}
    <3>1. /\ service' = [closed |-> service'.closed, connections |-> service'.connections,
                         sessions |-> service'.sessions, recordings |-> service'.recordings,
                         failures |-> service'.failures]
          /\ service'.closed = service.closed /\ service'.connections = service.connections
          /\ service'.sessions = Mcp!Without(service.sessions, gone)
          /\ mcpCall[c].at = "look" /\ UNCHANGED <<mcpCore, made>>
      BY <1>0, <1>11, <2>2 DEF Mcp!Forgetting, Mcp!Close
    <3> QED
      BY <2>2, <3>1, McpCloseStep
  <2>3. CASE /\ mcpCall[c].method = "close connection"
             /\ service' = [Mcp!Forgetting({s \in Mcp!Sessions :
                                              service.sessions[s] = mcpCall[c].about})
                              EXCEPT !.connections = @ \ {mcpCall[c].about}]
             /\ Mcp!Goes(c, [mcpCall[c] EXCEPT !.at = "shut", !.own = mcpCall[c].about])
    <3> DEFINE gone == {s \in Mcp!Sessions : service.sessions[s] = mcpCall[c].about}
    <3>1. /\ service' = [closed |-> service'.closed, connections |-> service'.connections,
                         sessions |-> service'.sessions, recordings |-> service'.recordings,
                         failures |-> service'.failures]
          /\ service'.closed = service.closed
          /\ service'.connections = service.connections \ {mcpCall[c].about}
          /\ service'.sessions = Mcp!Without(service.sessions, gone)
          /\ mcpCall[c].at = "look" /\ UNCHANGED <<mcpCore, made>>
      BY <1>0, <1>11, <2>3 DEF Mcp!Forgetting, Mcp!Close
    <3> QED
      BY <2>3, <3>1, McpCloseStep
  <2> QED
    BY <1>11, <2>1, <2>2, <2>3 DEF Mcp!Close
<1>12. CASE Mcp!CloseService(c)
  <2>1. CASE UNCHANGED service /\ Mcp!Ends(c)
    BY <1>0, <1>1, <1>12, <2>1 DEF Mcp!CloseService
  <2>2. CASE ~(UNCHANGED service /\ Mcp!Ends(c))
    BY <1>12, <2>2, CloseServiceStep DEF Mcp!CloseService
  <2> QED
    BY <2>1, <2>2
<1>13. CASE Mcp!CoreCloseBegins(c) \/ Mcp!CoreCloses(c)
  BY <1>13, CoreStep
<1> QED
  BY <1>2, <1>3, <1>4, <1>5, <1>6, <1>7, <1>8, <1>9, <1>10, <1>11, <1>12, <1>13 DEF Mcp!CallStep

-----------------------------------------------------------------------------
(* A step that records nothing keeps the recordings true                   *)
(* (mcpserver/service.go:524-663).                                         *)
LEMMA Unrecorded ==
  ASSUME McpTypes, McpSteps, Mcp!RecordingsAreTrue, NEW c \in Callers, NEW f \in CallType,
         Mcp!Goes(c, f),
         made' = made,
         \/ f.at = "idle" \/ f.method \notin Mcp!Looked
         \/ f.own = mcpCall[c].own /\ f.method = mcpCall[c].method /\ mcpCall[c].at # "idle",
         \/ f.at # "record"
         \/ /\ Named(c) /\ f.method = mcpCall[c].method /\ f.own = mcpCall[c].own
            /\ \E i \in DOMAIN done' : done'[i] = [on |-> f.about, step |-> f.own],
         done' \in Seq([on : Nat, step : Nat]), DOMAIN done \subseteq DOMAIN done',
         \A i \in DOMAIN done : done'[i] = done[i],
         DOMAIN service'.recordings \subseteq Mcp!Sessions',
         \A s \in DOMAIN service'.recordings :
           \/ service'.recordings[s] = <<>>
           \/ /\ s \in DOMAIN service.recordings
              /\ service'.recordings[s] = service.recordings[s]
  PROVE  McpSteps' /\ Mcp!RecordingsAreTrue'
<1>1. /\ mcpCall'[c] = f /\ \A d \in Callers : d # c => mcpCall'[d] = mcpCall[d]
      /\ \A d \in Callers : d # c => Named(d)' = Named(d)
  BY GoesOn
<1>2. \A d \in Callers : Named(d)' => Named(d) /\ mcpCall'[d].own = mcpCall[d].own
  BY <1>1 DEF Named
<1>3. ASSUME NEW s \in DOMAIN service'.recordings
      PROVE  /\ service'.recordings[s] \in Seq(Nat)
             /\ Mcp!IsInjective(service'.recordings[s])
             /\ \A i \in DOMAIN service'.recordings[s] :
                  /\ service'.recordings[s][i] <= made'
                  /\ \A d \in Callers : Named(d)' => mcpCall'[d].own # service'.recordings[s][i]
                  /\ \E n \in DOMAIN done' :
                       done'[n] = [on |-> s, step |-> service'.recordings[s][i]]
  <2>1. CASE service'.recordings[s] = <<>>
    <3>1. DOMAIN service'.recordings[s] = {} /\ service'.recordings[s] \in Seq(Nat)
      BY <2>1
    <3> QED
      BY <3>1 DEF Mcp!IsInjective
  <2>2. CASE /\ s \in DOMAIN service.recordings
             /\ service'.recordings[s] = service.recordings[s]
    <3> DEFINE steps == service.recordings[s]
    <3>1. /\ steps \in Seq(Nat) /\ Mcp!IsInjective(steps)
          /\ \A i \in DOMAIN steps :
               /\ steps[i] <= made
               /\ \A d \in Callers : Named(d) => mcpCall[d].own # steps[i]
               /\ \E n \in DOMAIN done : done[n] = [on |-> s, step |-> steps[i]]
      BY <2>2 DEF McpSteps, Mcp!RecordingsAreTrue
    <3>2. \A i \in DOMAIN steps :
            \E n \in DOMAIN done' : done'[n] = [on |-> s, step |-> steps[i]]
      BY <3>1
    <3>3. service'.recordings[s] = steps
      BY <2>2
    <3> HIDE DEF steps
    <3>4. \A i \in DOMAIN steps : steps[i] <= made'
      BY <3>1
    <3>5. ASSUME NEW i \in DOMAIN steps, NEW d \in Callers, Named(d)'
          PROVE  mcpCall'[d].own # steps[i]
      <4>1. Named(d) /\ mcpCall'[d].own = mcpCall[d].own
        BY <1>2, <3>5
      <4> QED
        BY <3>1, <4>1
    <3> QED
      BY <3>1, <3>2, <3>3, <3>4, <3>5
  <2> QED
    BY <2>1, <2>2
<1>4. ASSUME NEW d \in Callers, mcpCall'[d].at = "record"
      PROVE  /\ Named(d)'
             /\ \E i \in DOMAIN done' :
                  done'[i] = [on |-> mcpCall'[d].about, step |-> mcpCall'[d].own]
  <2>1. CASE d = c
    BY <1>1, <1>4, <2>1 DEF Named
  <2>2. CASE d # c
    <3>1. mcpCall'[d] = mcpCall[d] /\ mcpCall[d].at = "record" /\ Named(d)' = Named(d)
      BY <1>1, <1>4, <2>2
    <3>2. /\ Named(d)
          /\ \E i \in DOMAIN done : done[i] = [on |-> mcpCall[d].about, step |-> mcpCall[d].own]
      BY <3>1 DEF McpSteps
    <3>3. \E i \in DOMAIN done' : done'[i] = [on |-> mcpCall[d].about, step |-> mcpCall[d].own]
      BY <3>2
    <3> QED
      BY <3>1, <3>2, <3>3
  <2> QED
    BY <2>1, <2>2
<1>5. McpSteps'
  BY <1>3, <1>4 DEF McpSteps
<1>6. Mcp!RecordingsAreTrue'
  BY <1>3 DEF Mcp!RecordingsAreTrue
<1> QED
  BY <1>5, <1>6

(* A call is made with a new number (mcpserver/service.go:308-606).        *)
LEMMA BeginUnrecorded ==
  ASSUME McpTypes, McpSteps, Mcp!RecordingsAreTrue, NEW c \in Callers, Mcp!Begin(c)
  PROVE  McpSteps' /\ Mcp!RecordingsAreTrue'
<1>1. /\ UNCHANGED <<service, done>> /\ Mcp!Sessions' = Mcp!Sessions /\ made' = made + 1
      /\ 0 <= made /\ made <= made + 1 /\ ~(made + 1 <= made) /\ made \in Nat
  BY Counts DEF Mcp!Begin, McpTypes, Mcp!Sessions
<1>2. PICK method \in Mcp!Methods, about \in 0..made :
        Mcp!Goes(c, [at |-> "look", method |-> method, about |-> about, own |-> made + 1])
  BY DEF Mcp!Begin
<1> DEFINE f == [at |-> "look", method |-> method, about |-> about, own |-> made + 1]
<1>3. mcpCall'[c] = f /\ \A d \in Callers : d # c => mcpCall'[d] = mcpCall[d]
  BY <1>2 DEF Mcp!Goes, McpTypes
<1>4. f.at = "look" /\ f.own = made + 1
  OBVIOUS
<1> HIDE DEF f
<1>5. \A d \in Callers : Named(d)' =>
        mcpCall'[d].own = made + 1 \/ (Named(d) /\ mcpCall'[d].own = mcpCall[d].own)
  BY <1>3, <1>4 DEF Named
<1>6. ASSUME NEW s \in DOMAIN service'.recordings
      PROVE  LET steps == service'.recordings[s] IN
             /\ steps \in Seq(Nat)
             /\ \A i \in DOMAIN steps :
                  steps[i] <= made' /\ \A d \in Callers : Named(d)' => mcpCall'[d].own # steps[i]
  <2> DEFINE steps == service.recordings[s]
  <2>1. /\ steps \in Seq(Nat)
        /\ \A i \in DOMAIN steps : /\ steps[i] \in Nat /\ steps[i] <= made
                                   /\ \A d \in Callers : Named(d) => mcpCall[d].own # steps[i]
    BY <1>1, <1>6 DEF McpSteps
  <2>2. steps = service'.recordings[s]
    BY <1>1
  <2> HIDE DEF steps
  <2>3. \A i \in DOMAIN steps : steps[i] <= made + 1 /\ steps[i] # made + 1
    BY <1>1, <2>1
  <2> QED
    BY <1>1, <1>5, <2>1, <2>2, <2>3
<1>7. ASSUME NEW d \in Callers, mcpCall'[d].at = "record"
      PROVE  /\ Named(d)'
             /\ \E i \in DOMAIN done' :
                  done'[i] = [on |-> mcpCall'[d].about, step |-> mcpCall'[d].own]
  <2>1. d # c
    BY <1>3, <1>4, <1>7
  <2> QED
    BY <1>1, <1>3, <1>7, <2>1 DEF McpSteps, Named
<1>8. McpSteps'
  BY <1>1, <1>6, <1>7 DEF McpSteps
<1> QED
  BY <1>1, <1>8 DEF Mcp!RecordingsAreTrue

(* A step is recorded by the call that did it, and by no other             *)
(* (mcpserver/service.go:524-554, 600-606).                                *)
LEMMA RecordStep ==
  ASSUME McpTypes, Numbers, McpSteps, Mcp!RecordingsAreTrue, NEW c \in Callers, Mcp!Record(c)
  PROVE  McpSteps' /\ Mcp!RecordingsAreTrue'
<1> DEFINE k == mcpCall[c]
<1>0. /\ k.at = "record" /\ service' = Mcp!Recorded(k.about, k.own) /\ UNCHANGED <<made, done>>
      /\ k \in CallType
  BY DEF Mcp!Record, McpTypes
<1>1. Mcp!Idle \in CallType /\ Mcp!Idle.at = "idle" /\ Mcp!Goes(c, Mcp!Idle)
  BY DEF Mcp!Idle, CallType, Points, Mcp!Record, Mcp!Ends
<1>2. CASE k.about \notin DOMAIN service.recordings
  <2>1. service' = service /\ Mcp!Sessions' = Mcp!Sessions
    BY <1>0, <1>2 DEF Mcp!Recorded, Mcp!Sessions
  <2>2. DOMAIN service'.recordings \subseteq Mcp!Sessions' /\ done \in Seq([on : Nat, step : Nat])
    BY <2>1 DEF Mcp!RecordingsAreTrue, McpSteps
  <2> QED
    BY <1>0, <1>1, <2>1, <2>2, Unrecorded
<1>3. CASE k.about \in DOMAIN service.recordings
  <2>0. PICK own, about : own = k.own /\ about = k.about
    OBVIOUS
  <2> DEFINE old == service.recordings[about]
             new == Append(old, own)
  <2>1. /\ Mcp!Sessions' = Mcp!Sessions /\ DOMAIN service'.recordings = DOMAIN service.recordings
        /\ service'.recordings[about] = new
        /\ \A s \in DOMAIN service.recordings :
             s # about => service'.recordings[s] = service.recordings[s]
    BY <1>0, <1>3, <2>0 DEF Mcp!Recorded, McpTypes, Mcp!Sessions
  <2>2. /\ own \in Nat /\ own <= made /\ Named(c)
        /\ old \in Seq(Nat) /\ Mcp!IsInjective(old)
        /\ \A i \in DOMAIN old : old[i] # own /\ old[i] <= made
        /\ \E n \in DOMAIN done : done[n] = [on |-> about, step |-> own]
    BY <1>0, <1>3, <2>0 DEF McpSteps, Numbers, Mcp!RecordingsAreTrue, CallType
  <2>3. /\ \A d \in Callers : Named(d)' => /\ d # c /\ Named(d) /\ mcpCall'[d] = mcpCall[d]
                                           /\ mcpCall[d].own # own
        /\ \A d \in Callers : mcpCall'[d].at = "record" => d # c /\ mcpCall'[d] = mcpCall[d]
    <3>1. /\ mcpCall'[c] = Mcp!Idle /\ \A d \in Callers : d # c => mcpCall'[d] = mcpCall[d]
          /\ \A d \in Callers : d # c => Named(d)' = Named(d)
      BY <1>1, GoesOn
    <3> QED
      BY <1>1, <2>0, <2>2, <3>1 DEF Named, Numbers
  <2>4. /\ new \in Seq(Nat) /\ DOMAIN new = DOMAIN old \cup {Len(old) + 1}
        /\ new[Len(old) + 1] = own /\ Len(old) + 1 \notin DOMAIN old
        /\ \A i \in DOMAIN old : new[i] = old[i]
    <3>1. /\ old \in Seq(Nat) /\ own \in Nat /\ Len(old) \in Nat /\ DOMAIN old = 1..Len(old)
      BY <2>2, LenProperties
    <3> HIDE DEF old
    <3>2. /\ new \in Seq(Nat) /\ DOMAIN new = 1..(Len(old) + 1) /\ new[Len(old) + 1] = own
          /\ \A i \in 1..Len(old) : new[i] = old[i]
      BY <3>1, AppendProperties, LenProperties
    <3> HIDE DEF new
    <3> QED
      BY <3>1, <3>2
  <2> HIDE DEF old, new
  <2>5. Mcp!IsInjective(new)
    BY <2>2, <2>4 DEF Mcp!IsInjective
  <2>6. \A i \in DOMAIN new :
          /\ new[i] <= made
          /\ \A d \in Callers : Named(d)' => mcpCall'[d].own # new[i]
          /\ \E n \in DOMAIN done : done[n] = [on |-> about, step |-> new[i]]
    <3>1. \A i \in DOMAIN old :
            /\ \A d \in Callers : Named(d) => mcpCall[d].own # old[i]
            /\ \E n \in DOMAIN done : done[n] = [on |-> about, step |-> old[i]]
      BY <1>3, <2>0 DEF McpSteps, Mcp!RecordingsAreTrue, old
    <3>2. ASSUME NEW i \in DOMAIN new
          PROVE  /\ new[i] <= made
                 /\ \A d \in Callers : Named(d)' => mcpCall'[d].own # new[i]
                 /\ \E n \in DOMAIN done : done[n] = [on |-> about, step |-> new[i]]
      <4>1. CASE i \in DOMAIN old
        <5>1. new[i] = old[i] /\ old[i] <= made
          BY <2>2, <2>4, <4>1
        <5>2. \A d \in Callers : Named(d)' => mcpCall'[d].own # old[i]
          BY <2>3, <3>1, <4>1
        <5>3. \E n \in DOMAIN done : done[n] = [on |-> about, step |-> old[i]]
          BY <3>1, <4>1
        <5> QED
          BY <5>1, <5>2, <5>3
      <4>2. CASE i = Len(old) + 1
        BY <2>2, <2>3, <2>4, <4>2
      <4> QED
        BY <2>4, <3>2, <4>1, <4>2
    <3> QED
      BY <3>2
  <2>7. ASSUME NEW s \in DOMAIN service'.recordings
        PROVE  /\ service'.recordings[s] \in Seq(Nat) /\ Mcp!IsInjective(service'.recordings[s])
               /\ \A i \in DOMAIN service'.recordings[s] :
                    /\ service'.recordings[s][i] <= made'
                    /\ \A d \in Callers :
                         Named(d)' => mcpCall'[d].own # service'.recordings[s][i]
                    /\ \E n \in DOMAIN done' :
                         done'[n] = [on |-> s, step |-> service'.recordings[s][i]]
    <3>1. CASE s = about
      BY <1>0, <2>1, <2>4, <2>5, <2>6, <3>1
    <3>2. CASE s # about
      <4> DEFINE steps == service.recordings[s]
      <4>1. /\ steps \in Seq(Nat) /\ Mcp!IsInjective(steps)
            /\ \A i \in DOMAIN steps :
                 /\ steps[i] <= made
                 /\ \A d \in Callers : Named(d) => mcpCall[d].own # steps[i]
                 /\ \E n \in DOMAIN done : done[n] = [on |-> s, step |-> steps[i]]
        BY <2>1 DEF McpSteps, Mcp!RecordingsAreTrue
      <4>2. service'.recordings[s] = steps
        BY <2>1, <3>2
      <4> HIDE DEF steps
      <4> QED
        BY <1>0, <2>3, <4>1, <4>2
    <3> QED
      BY <3>1, <3>2
  <2>8. ASSUME NEW d \in Callers, mcpCall'[d].at = "record"
        PROVE  /\ Named(d)'
               /\ \E i \in DOMAIN done' :
                    done'[i] = [on |-> mcpCall'[d].about, step |-> mcpCall'[d].own]
    BY <1>0, <2>3, <2>8 DEF McpSteps, Named
  <2>9. McpSteps'
    BY <1>0, <2>7, <2>8, SMTT(40) DEF McpSteps
  <2>10. Mcp!RecordingsAreTrue'
    BY <2>1, <2>7 DEF Mcp!RecordingsAreTrue
  <2> QED
    BY <2>9, <2>10
<1> QED
  BY <1>2, <1>3

(* What is forgotten with a session or a connection leaves no recording    *)
(* (mcpserver/service.go:609-663).                                         *)
LEMMA Forgotten ==
  ASSUME McpTypes, Mcp!RecordingsAreTrue, NEW gone,
         service'.sessions = Mcp!Without(service.sessions, gone),
         service'.recordings = Mcp!Without(service.recordings, gone)
  PROVE  /\ DOMAIN service'.recordings \subseteq Mcp!Sessions'
         /\ \A s \in DOMAIN service'.recordings :
              /\ s \in DOMAIN service.recordings
              /\ service'.recordings[s] = service.recordings[s]
BY DEF Mcp!RecordingsAreTrue, Mcp!Without, Mcp!Sessions

(* Every step keeps the recordings true (mcpserver/service.go:524-663).    *)
LEMMA RecordingsNext ==
  ASSUME McpTypes, Numbers, McpSteps, Mcp!RecordingsAreTrue, NEW c \in Callers, Mcp!CallStep(c)
  PROVE  McpSteps' /\ Mcp!RecordingsAreTrue'
<1> DEFINE k == mcpCall[c]
<1>0. /\ k \in CallType /\ done \in Seq([on : Nat, step : Nat]) /\ made' = made
      /\ DOMAIN service.recordings \subseteq Mcp!Sessions
      /\ service = [closed |-> service.closed, connections |-> service.connections,
                    sessions |-> service.sessions, recordings |-> service.recordings,
                    failures |-> service.failures]
  <2>1. made' = made
    BY DEF Mcp!CallStep, Mcp!Look, Mcp!Open, Mcp!Register, Mcp!Shut, Mcp!Work, Mcp!Record,
       Mcp!RememberFailure, Mcp!Start, Mcp!Stop,
       Mcp!Close, Mcp!CloseService, Mcp!CoreCloseBegins, Mcp!CoreCloses
  <2> QED
    BY <2>1 DEF McpTypes, McpSteps, Mcp!RecordingsAreTrue
<1>i. Mcp!Idle \in CallType /\ Mcp!Idle.at = "idle"
  BY DEF Mcp!Idle, CallType, Points
(* What a call may become without having recorded anything. *)
<1>1. ASSUME done' = done, DOMAIN service'.recordings \subseteq Mcp!Sessions',
             \A s \in DOMAIN service'.recordings :
               \/ service'.recordings[s] = <<>>
               \/ /\ s \in DOMAIN service.recordings
                  /\ service'.recordings[s] = service.recordings[s],
             \/ Mcp!Ends(c)
             \/ k.at # "idle" /\ \E at \in Points \ {"record"} : Mcp!To(c, at)
             \/ /\ k.method \notin Mcp!Looked
                /\ Mcp!Goes(c, [k EXCEPT !.at = "shut", !.own = k.about])
      PROVE  McpSteps' /\ Mcp!RecordingsAreTrue'
  <2>1. PICK f \in CallType :
          /\ Mcp!Goes(c, f) /\ f.at # "record"
          /\ \/ f.at = "idle" \/ f.method \notin Mcp!Looked
             \/ f.own = k.own /\ f.method = k.method /\ k.at # "idle"
    <3>1. CASE Mcp!Ends(c)
      BY <1>i, <3>1 DEF Mcp!Ends
    <3>2. ASSUME k.at # "idle", NEW at \in Points \ {"record"}, Mcp!To(c, at)
          PROVE  \E f \in CallType :
                   /\ Mcp!Goes(c, f) /\ f.at # "record"
                   /\ f.own = k.own /\ f.method = k.method
      <4> DEFINE f == [k EXCEPT !.at = at]
      <4>1. f \in CallType /\ Mcp!Goes(c, f) /\ f.at = at /\ f.own = k.own /\ f.method = k.method
        BY <1>0, <3>2 DEF Mcp!To, CallType
      <4> HIDE DEF f
      <4> QED
        BY <3>2, <4>1
    <3>3. CASE /\ k.method \notin Mcp!Looked
               /\ Mcp!Goes(c, [k EXCEPT !.at = "shut", !.own = k.about])
      <4> DEFINE f == [k EXCEPT !.at = "shut", !.own = k.about]
      <4>1. f \in CallType /\ Mcp!Goes(c, f) /\ f.at = "shut" /\ f.method = k.method
        BY <1>0, <3>3 DEF CallType, Points
      <4> HIDE DEF f
      <4> QED
        BY <3>3, <4>1
    <3> QED
      BY <1>1, <3>1, <3>2, <3>3
  <2>2. done' \in Seq([on : Nat, step : Nat])
    BY <1>0, <1>1
  <2> QED
    BY <1>0, <1>1, <2>1, <2>2, Unrecorded
<1>2. ASSUME UNCHANGED <<service, done>>,
             \/ Mcp!Ends(c)
             \/ k.at # "idle" /\ \E at \in Points \ {"record"} : Mcp!To(c, at)
      PROVE  McpSteps' /\ Mcp!RecordingsAreTrue'
  <2>1. DOMAIN service'.recordings \subseteq Mcp!Sessions'
    BY <1>0, <1>2 DEF Mcp!Sessions
  <2> QED
    BY <1>1, <1>2, <2>1
<1>3. CASE Mcp!Register(c)
  <2>1. /\ done' = done /\ service'.recordings = service.recordings
           /\ Mcp!Sessions \subseteq Mcp!Sessions'
    BY <1>0, <1>3 DEF Mcp!Register, Mcp!With, Mcp!Sessions
  <2>2. Mcp!Ends(c) \/ (k.at # "idle" /\ Mcp!To(c, "shut"))
    BY <1>3 DEF Mcp!Register
  <2> QED
    BY <1>0, <1>1, <2>1, <2>2 DEF Points
<1>4. CASE Mcp!Work(c)
  <2>1. CASE UNCHANGED done /\ (Mcp!Ends(c) \/ Mcp!To(c, "remember"))
    <3>1. k.at # "idle" /\ UNCHANGED service /\ "remember" \in Points \ {"record"}
      BY <1>4 DEF Mcp!Work, Points
    <3> QED
      BY <1>2, <2>1, <3>1
  <2>2. CASE ~(UNCHANGED done /\ (Mcp!Ends(c) \/ Mcp!To(c, "remember")))
    <3> DEFINE work == [on |-> k.about, step |-> k.own]
               f == [k EXCEPT !.at = "record"]
    <3>1. /\ k.at = "work" /\ k.method \in {"input", "wait"} /\ UNCHANGED service
          /\ done' = Append(done, work) /\ Mcp!Goes(c, f)
      BY <1>4, <2>2 DEF Mcp!Work, Mcp!To
    <3>2. /\ f \in CallType /\ f.at = "record" /\ f.own = k.own /\ f.about = k.about
          /\ f.method = k.method /\ Named(c) /\ work \in [on : Nat, step : Nat]
          /\ work = [on |-> f.about, step |-> f.own]
      BY <1>0, <3>1 DEF CallType, Points, Named, Mcp!Looked
    <3> HIDE DEF work, f
    <3>3. /\ done' \in Seq([on : Nat, step : Nat]) /\ DOMAIN done \subseteq DOMAIN done'
          /\ \A i \in DOMAIN done : done'[i] = done[i]
          /\ Len(done) + 1 \in DOMAIN done' /\ done'[Len(done) + 1] = work
      BY <1>0, <3>1, <3>2
    <3>4. DOMAIN service'.recordings \subseteq Mcp!Sessions'
      BY <1>0, <3>1 DEF Mcp!Sessions
    <3> QED
      BY <1>0, <3>1, <3>2, <3>3, <3>4, Unrecorded
  <2> QED
    BY <2>1, <2>2
<1>5. CASE Mcp!Record(c)
  BY <1>5, RecordStep
<1>6. CASE Mcp!RememberFailure(c)
  <2>1. /\ done' = done /\ service'.recordings = service.recordings
        /\ service'.sessions = service.sessions /\ Mcp!Ends(c)
    BY <1>0, <1>6 DEF Mcp!RememberFailure
  <2> QED
    BY <1>0, <1>1, <2>1 DEF Mcp!Sessions
<1>7. CASE Mcp!Start(c)
  <2>1. done' = done /\ Mcp!Ends(c)
    BY <1>7 DEF Mcp!Start
  <2>2. CASE /\ k.about \in Mcp!Sessions \ DOMAIN service.recordings
             /\ service' = [service EXCEPT !.recordings = Mcp!With(@, k.about, <<>>)]
    <3>1. /\ service'.recordings = Mcp!With(service.recordings, k.about, <<>>)
          /\ service'.sessions = service.sessions
      BY <1>0, <2>2
    <3>2. /\ DOMAIN service'.recordings = DOMAIN service.recordings \cup {k.about}
          /\ service'.recordings[k.about] = <<>>
          /\ \A s \in DOMAIN service.recordings : service'.recordings[s] = service.recordings[s]
      BY <2>2, <3>1 DEF Mcp!With
    <3> QED
      BY <1>0, <1>1, <2>1, <2>2, <3>1, <3>2 DEF Mcp!Sessions
  <2>3. CASE UNCHANGED service
    BY <1>2, <2>1, <2>3
  <2> QED
    BY <1>7, <2>2, <2>3 DEF Mcp!Start
<1>8. CASE Mcp!Stop(c)
  <2>1. /\ done' = done /\ Mcp!Ends(c)
        /\ service'.recordings = Mcp!Without(service.recordings, {k.about})
        /\ service'.sessions = service.sessions
    BY <1>0, <1>8 DEF Mcp!Stop
  <2> QED
    BY <1>0, <1>1, <2>1 DEF Mcp!Without, Mcp!Sessions
<1>9. CASE Mcp!Close(c)
  <2>1. CASE UNCHANGED service /\ Mcp!Ends(c)
    BY <1>2, <1>9, <2>1 DEF Mcp!Close
  <2>2. CASE ~(UNCHANGED service /\ Mcp!Ends(c))
    <3>1. PICK gone : /\ service'.sessions = Mcp!Without(service.sessions, gone)
                      /\ service'.recordings = Mcp!Without(service.recordings, gone)
                      /\ k.method \notin Mcp!Looked /\ done' = done
                      /\ Mcp!Goes(c, [k EXCEPT !.at = "shut", !.own = k.about])
      BY <1>0, <1>9, <2>2 DEF Mcp!Close, Mcp!Forgetting, Mcp!Looked
    <3> QED
      BY <1>1, <3>1, Forgotten
  <2> QED
    BY <2>1, <2>2
<1>10. CASE Mcp!CloseService(c)
  <2>1. CASE UNCHANGED service /\ Mcp!Ends(c)
    BY <1>2, <1>10, <2>1 DEF Mcp!CloseService
  <2>2. CASE ~(UNCHANGED service /\ Mcp!Ends(c))
    <3>1. /\ service'.sessions = Mcp!Without(service.sessions, Mcp!Sessions)
          /\ service'.recordings = Mcp!Without(service.recordings, Mcp!Sessions)
          /\ done' = done /\ k.at # "idle" /\ Mcp!To(c, "core") /\ "core" \in Points \ {"record"}
      BY <1>0, <1>10, <2>2 DEF Mcp!CloseService, Mcp!Forgetting, Points
    <3> QED
      BY <1>1, <3>1, Forgotten
  <2> QED
    BY <2>1, <2>2
<1>11. CASE Mcp!Look(c) \/ Mcp!Open(c) \/ Mcp!Shut(c) \/ Mcp!CoreCloseBegins(c) \/ Mcp!CoreCloses(c)
  <2>1. \/ Mcp!Ends(c)
        \/ k.at # "idle" /\ \E at \in {"work", "register", "core closing"} : Mcp!To(c, at)
    BY <1>11 DEF Mcp!Look, Mcp!Open, Mcp!Shut, Mcp!CoreCloseBegins, Mcp!CoreCloses
  <2>2. UNCHANGED <<service, done>>
    BY <1>11 DEF Mcp!Look, Mcp!Open, Mcp!Shut, Mcp!CoreCloseBegins, Mcp!CoreCloses
  <2>3. {"work", "register", "core closing"} \subseteq Points \ {"record"}
    BY DEF Points
  <2> QED
    BY <1>2, <2>1, <2>2, <2>3
<1> QED
  BY <1>3, <1>4, <1>5, <1>6, <1>7, <1>8, <1>9, <1>10, <1>11 DEF Mcp!CallStep

-----------------------------------------------------------------------------
(* The invariant holds at first (mcpserver/service.go:159-190).            *)
LEMMA McpIInvInit ==
  ASSUME Mcp!Init
  PROVE  McpIInv
<1>1. McpTypes
  BY DEF Mcp!Init, McpTypes, Mcp!Idle, CallType, Points
<1>2. Numbers
  BY DEF Mcp!Init, Numbers, Mcp!Sessions, Mcp!Idle, Named
<1>3. Unknown
  BY DEF Mcp!Init, Unknown, Mcp!Idle, Named
<1>4. Agree /\ Mcp!ServiceOwnsAll
  <2>1. /\ Mcp!Sessions = {} /\ mcpCore.connections = {} /\ mcpCore.sessions = {}
           /\ ~service.closed
        /\ \A c \in Callers : mcpCall[c].at = "idle"
    BY DEF Mcp!Init, Mcp!Sessions, Mcp!Idle
  <2> QED
    BY <2>1 DEF Agree, Mcp!ServiceOwnsAll
<1>5. McpSteps /\ Mcp!RecordingsAreTrue
  BY DEF Mcp!Init, McpSteps, Mcp!RecordingsAreTrue, Mcp!Idle
<1> QED
  BY <1>1, <1>2, <1>3, <1>4, <1>5 DEF McpIInv, Owns

(* Every step keeps the invariant (mcpserver/service.go:244-663).          *)
LEMMA McpIInvNext ==
  ASSUME McpIInv, [Mcp!Next]_(Mcp!mcpVars)
  PROVE  McpIInv'
<1>1. CASE UNCHANGED Mcp!mcpVars
  <2>1. /\ UNCHANGED <<service, mcpCore, mcpCall, made, done>>
        /\ Mcp!Sessions' = Mcp!Sessions /\ Mcp!Closing' = Mcp!Closing
        /\ \A c \in Callers : Named(c)' = Named(c) /\ Uses(c)' = Uses(c)
        /\ \A id : Mcp!HeldBy(id)' = Mcp!HeldBy(id)
    BY <1>1 DEF Mcp!mcpVars, Mcp!Sessions, Mcp!Closing, Named, Uses, Mcp!HeldBy
  <2>2. McpTypes' /\ Numbers' /\ Unknown' /\ Agree' /\ Mcp!ServiceOwnsAll'
    BY <2>1 DEF McpIInv, Owns, McpTypes, Numbers, Unknown, Agree, Mcp!ServiceOwnsAll
  <2>3. McpSteps' /\ Mcp!RecordingsAreTrue'
    BY <2>1 DEF McpIInv, McpSteps, Mcp!RecordingsAreTrue
  <2> QED
    BY <2>2, <2>3 DEF McpIInv, Owns
<1>2. ASSUME NEW c \in Callers, Mcp!Begin(c)
      PROVE  McpIInv'
  BY <1>2, McpBeginStep, BeginUnrecorded DEF McpIInv, Owns
<1>3. ASSUME NEW c \in Callers, Mcp!CallStep(c)
      PROVE  McpIInv'
  BY <1>3, OwnsNext, RecordingsNext DEF McpIInv, Owns
<1> QED
  BY <1>1, <1>2, <1>3 DEF Mcp!Next

(* For any number of concurrent tool calls: what the core has open is      *)
(* registered with the service or in the hands of a call that will         *)
(* register or close it, and nothing is open any more when the service has *)
(* closed (mcpserver/service.go:244-306, 609-663).                         *)
THEOREM ServiceOwns == Mcp!Spec => []Mcp!ServiceOwnsAll
<1>1. McpIInv => Mcp!ServiceOwnsAll
  BY DEF McpIInv, Owns
<1> QED
  BY <1>1, McpIInvInit, McpIInvNext, PTL DEF Mcp!Spec

(* For any number of concurrent tool calls: a recording's steps were done  *)
(* on its session, each is recorded once, and a recording goes with its    *)
(* session (mcpserver/service.go:524-663).                                 *)
THEOREM RecordingsTrue == Mcp!Spec => []Mcp!RecordingsAreTrue
<1>1. McpIInv => Mcp!RecordingsAreTrue
  BY DEF McpIInv
<1> QED
  BY <1>1, McpIInvInit, McpIInvNext, PTL DEF Mcp!Spec

-----------------------------------------------------------------------------
(* Workbench.                                                              *)

AnyStep == Steps \cup {"none"}
Traced == Seq(AnyStep)
UserPlaces ==
  {"idle", "start", "install", "record", "send", "stop", "release", "replay", "replay acquire",
   "replaying"}
UserRequest ==
  [at : UserPlaces, control : Nat, step : AnyStep, trace : Traced, next : Nat]

(* The types that the argument needs. *)
WorkbenchTypes ==
  /\ session \in [open : BOOLEAN, holder : Nat]
  /\ entry \in [exists : BOOLEAN, active : BOOLEAN, control : Nat, steps : Traced, owner : Nat]
  /\ user \in [Users -> UserRequest]
  /\ inspector \in {"serving", "waiting", "late", "down", "down late"}
  /\ grants \in Nat

(* Only a request that installs, replays or releases has a control. *)
OnlyHoldersHaveControl ==
  \A u \in Users : user[u].at \notin {"install", "replaying", "release"} => user[u].control = 0

(* An Inspector that is down has no request in progress. *)
DownIsDrained == inspector = "down" => \A u \in Users : user[u] = Workbench!Idle

Tracked ==
  session.holder # 0 =>
    \/ entry.active /\ entry.control = session.holder
    \/ \E u \in Users : user[u].control = session.holder

WorkbenchIInv ==
  /\ WorkbenchTypes
  /\ OnlyHoldersHaveControl
  /\ DownIsDrained
  /\ Tracked
  /\ inspector = "down" => session.holder = 0

-----------------------------------------------------------------------------
(* What recordings are made of (workbench/recording.go:138-203).           *)
LEMMA Traces == <<>> \in Traced /\ \A t \in Traced, s \in AnyStep : Append(t, s) \in Traced
BY DEF Traced

(* An idle request is a request (workbench/recording.go:102-308).          *)
LEMMA IdleRequest == Workbench!Idle \in UserRequest
BY Traces DEF UserRequest, UserPlaces, Workbench!Idle, AnyStep

(* Where a request goes next (workbench/recording.go:102-308).             *)
LEMMA UserPlaceNames ==
  {"install", "send", "release", "replay acquire", "replaying"} \subseteq UserPlaces
BY DEF UserPlaces

(* A step changes one request (workbench/recording.go:102-308).            *)
LEMMA Moved ==
  ASSUME WorkbenchTypes, NEW u \in Users, NEW x \in UserRequest, Workbench!Moves(u, x)
  PROVE  /\ user' \in [Users -> UserRequest]
         /\ user'[u] = x
         /\ \A v \in Users : v # u => user'[v] = user[v]
BY DEF WorkbenchTypes, Workbench!Moves

(* A request that has the holder's control keeps track of it               *)
(* (workbench/recording.go:102-134, 206-308).                              *)
LEMMA TrackedByRequest ==
  ASSUME NEW u \in Users, user'[u].control = session'.holder
  PROVE  Tracked'
BY DEF Tracked

(* While the holder and the entry stay, a request that does not have the   *)
(* holder's control, or keeps it, may go on (workbench/recording.go:       *)
(* 102-308).                                                               *)
LEMMA StaysTracked ==
  ASSUME WorkbenchTypes, Tracked, NEW u \in Users, NEW x \in UserRequest, Workbench!Moves(u, x),
         session'.holder # 0 =>
           /\ session'.holder = session.holder
           /\ x.control = user[u].control \/ user[u].control # session.holder,
         entry.active => entry'.active /\ entry'.control = entry.control
  PROVE  Tracked'
<1>1. /\ user'[u] = x
      /\ \A v \in Users : v # u => user'[v] = user[v]
  BY Moved
<1>2. CASE session'.holder = 0
  BY <1>2 DEF Tracked
<1>3. CASE session'.holder # 0 /\ entry.active /\ entry.control = session.holder
  BY <1>3 DEF Tracked
<1>4. CASE session'.holder # 0 /\ ~(entry.active /\ entry.control = session.holder)
  <2>1. PICK v \in Users : user[v].control = session.holder
    BY <1>4 DEF Tracked
  <2>2. user'[v].control = session'.holder
    BY <1>1, <1>4, <2>1
  <2> QED
    BY <2>2, TrackedByRequest
<1> QED
  BY <1>2, <1>3, <1>4

(* A request that is in progress holds off the end of the Inspector        *)
(* (driverui/server.go:107-116).                                           *)
LEMMA NotDown ==
  ASSUME WorkbenchIInv, NEW u \in Users, user[u].at # "idle"
  PROVE  inspector # "down"
BY DEF WorkbenchIInv, DownIsDrained, Workbench!Idle

(* What a step that replaces one request has to show.                      *)
(* (workbench/recording.go:102-308.)                                       *)
LEMMA UserRequestStep ==
  ASSUME WorkbenchIInv, NEW u \in Users, NEW x \in UserRequest, Workbench!Moves(u, x),
         user[u].at # "idle",
         inspector' = inspector,
         session' \in [open : BOOLEAN, holder : Nat],
         entry' \in [exists : BOOLEAN, active : BOOLEAN, control : Nat, steps : Traced,
                     owner : Nat],
         grants' \in Nat,
         x.at \notin {"install", "replaying", "release"} => x.control = 0,
         Tracked'
  PROVE  WorkbenchIInv'
<1>1. WorkbenchTypes'
  BY Moved DEF WorkbenchIInv, WorkbenchTypes
<1>2. OnlyHoldersHaveControl'
  BY Moved DEF WorkbenchIInv, OnlyHoldersHaveControl
<1>3. inspector' # "down"
  BY NotDown
<1> QED
  BY <1>1, <1>2, <1>3 DEF WorkbenchIInv, DownIsDrained

(* The steps of a handler keep the invariant (workbench/recording.go:      *)
(* 102-308).                                                               *)
LEMMA HandlerStep ==
  ASSUME WorkbenchIInv, NEW u \in Users, Workbench!UserStep(u)
  PROVE  WorkbenchIInv'
<1>0. /\ WorkbenchTypes /\ OnlyHoldersHaveControl /\ Tracked
      /\ user[u] \in UserRequest /\ user[u].control \in Nat /\ grants \in Nat
  BY DEF WorkbenchIInv, WorkbenchTypes, UserRequest
<1>1. ASSUME user[u].at \notin {"idle", "install", "replaying", "release"}, Workbench!Done(u),
             UNCHANGED <<session, inspector, grants>>,
             entry' \in [exists : BOOLEAN, active : BOOLEAN, control : Nat, steps : Traced,
                         owner : Nat],
             entry'.active = entry.active, entry'.control = entry.control
      PROVE  WorkbenchIInv'
  <2>1. user[u].control = 0 /\ Workbench!Idle.control = 0
    BY <1>0, <1>1 DEF OnlyHoldersHaveControl, Workbench!Idle
  <2>2. Tracked'
    BY <1>0, <1>1, <2>1, IdleRequest, StaysTracked DEF Workbench!Done
  <2> QED
    BY <1>0, <1>1, <2>1, <2>2, IdleRequest, UserRequestStep DEF Workbench!Done, WorkbenchTypes
<1>2. ASSUME NEW x \in UserRequest, Workbench!Moves(u, x), x.control = user[u].control,
             user[u].at # "idle",
             x.at \notin {"install", "replaying", "release"} => x.control = 0,
             UNCHANGED <<session, entry, inspector, grants>>
      PROVE  WorkbenchIInv'
  <2>1. Tracked'
    BY <1>0, <1>2, StaysTracked
  <2> QED
    BY <1>0, <1>2, <2>1, UserRequestStep DEF WorkbenchTypes
<1>3. CASE Workbench!Release(u)
  <2>1. session' \in [open : BOOLEAN, holder : Nat]
    BY <1>0, <1>3 DEF Workbench!Release, Workbench!Released, WorkbenchTypes
  <2>2. session'.holder # 0 => session'.holder = session.holder /\ session.holder # user[u].control
    BY <1>0, <1>3 DEF Workbench!Release, Workbench!Released, WorkbenchTypes
  <2>3. Tracked'
    <3>1. Workbench!Moves(u, Workbench!Idle) /\ entry' = entry
      BY <1>3 DEF Workbench!Release, Workbench!Done
    <3> QED
      BY <1>0, <2>2, <3>1, IdleRequest, StaysTracked
  <2> QED
    BY <1>0, <1>3, <2>1, <2>3, IdleRequest, UserRequestStep DEF Workbench!Release, Workbench!Done,
       WorkbenchTypes, Workbench!Idle
<1>4. ASSUME NEW at \in {"install", "replaying"}, Workbench!Acquire(u, at), user[u].at # "idle",
             UNCHANGED <<entry, inspector>>
      PROVE  WorkbenchIInv'
  <2> DEFINE x == [user[u] EXCEPT !.at = at, !.control = grants + 1]
  <2>1. grants' \in Nat /\ grants' = grants + 1 /\ grants' # 0
    <3>1. grants' = grants + 1
      BY <1>4 DEF Workbench!Acquire
    <3> QED
      BY <1>0, <3>1
  <2>2. x \in UserRequest /\ x.control = grants' /\ x.at = at /\ Workbench!Moves(u, x)
    <3>1. at \in UserPlaces
      BY UserPlaceNames
    <3>2. grants + 1 \in Nat /\ grants' = grants + 1 /\ Workbench!Moves(u, x)
      BY <1>0, <1>4 DEF Workbench!Acquire
    <3> QED
      BY <1>0, <3>1, <3>2 DEF UserRequest
  <2>3. session' \in [open : BOOLEAN, holder : Nat] /\ session'.holder = grants'
    BY <1>0, <1>4, <2>1 DEF Workbench!Acquire, WorkbenchTypes
  <2>4. Tracked'
    <3>1. user'[u] = x
      BY <1>0, <2>2, Moved
    <3> QED
      BY <2>2, <2>3, <3>1, TrackedByRequest
  <2> HIDE DEF x
  <2> QED
    BY <1>0, <1>4, <2>1, <2>2, <2>3, <2>4, UserRequestStep DEF WorkbenchTypes
<1>5. CASE Workbench!StartAcquire(u)
  BY <1>0, <1>1, <1>4, <1>5 DEF Workbench!StartAcquire, WorkbenchTypes
<1>6. CASE Workbench!StartInstall(u)
  <2>1. CASE entry.active
    <3> DEFINE x == [user[u] EXCEPT !.at = "release"]
    <3>1. x \in UserRequest /\ x.at = "release" /\ x.control = user[u].control
      BY <1>0, UserPlaceNames DEF UserRequest
    <3>2. Workbench!Moves(u, x)
      BY <1>6, <2>1 DEF Workbench!StartInstall
    <3> HIDE DEF x
    <3> QED
      BY <1>2, <1>6, <2>1, <3>1, <3>2 DEF Workbench!StartInstall
  <2>2. CASE ~entry.active
    <3>1. entry' = [exists |-> TRUE, active |-> TRUE, control |-> user[u].control,
                    steps |-> <<>>, owner |-> user[u].control]
      BY <1>6, <2>2 DEF Workbench!StartInstall
    <3>2. entry' \in [exists : BOOLEAN, active : BOOLEAN, control : Nat, steps : Traced,
                      owner : Nat]
      BY <1>0, <3>1, Traces
    <3>3. entry'.active /\ entry'.control = user[u].control
      BY <3>1
    <3>4. Workbench!Done(u) /\ user[u].at # "idle" /\ UNCHANGED <<session, inspector, grants>>
      BY <1>6, <2>2 DEF Workbench!StartInstall
    <3>5. Tracked'
      <4>1. session'.holder = user[u].control \/ user[u].control # session'.holder
        OBVIOUS
      <4>2. CASE session'.holder = user[u].control
        BY <3>3, <4>2 DEF Tracked
      <4>3. CASE user[u].control # session'.holder
        BY <1>0, <2>2, <3>4, <4>3, IdleRequest, StaysTracked DEF Workbench!Done
      <4> QED
        BY <4>1, <4>2, <4>3
    <3> QED
      BY <1>0, <3>2, <3>4, <3>5, IdleRequest, UserRequestStep DEF Workbench!Done, WorkbenchTypes,
         Workbench!Idle
  <2> QED
    BY <2>1, <2>2
<1>7. CASE Workbench!RecordLock(u)
  <2>1. CASE entry.active
    <3> DEFINE x == [user[u] EXCEPT !.at = "send"]
    <3>1. x \in UserRequest /\ x.at = "send" /\ x.control = user[u].control
      BY <1>0, UserPlaceNames DEF UserRequest
    <3>2. Workbench!Moves(u, x) /\ user[u].at = "record"
      BY <1>7, <2>1 DEF Workbench!RecordLock
    <3>3. x.control = 0
      BY <1>0, <3>1, <3>2 DEF OnlyHoldersHaveControl
    <3> HIDE DEF x
    <3> QED
      BY <1>2, <1>7, <3>1, <3>2, <3>3 DEF Workbench!RecordLock
  <2> QED
    BY <1>0, <1>1, <1>7, <2>1 DEF Workbench!RecordLock, WorkbenchTypes
<1>8. CASE Workbench!RecordStep(u)
  <2>1. PICK did \in BOOLEAN : entry' = [entry EXCEPT !.steps = Workbench!Recorded(user[u].step,
             did)]
    BY <1>8 DEF Workbench!RecordStep, Workbench!Accepted, WorkbenchTypes
  <2>2. user[u].at = "send" /\ Workbench!Done(u) /\ UNCHANGED <<session, inspector, grants>>
    BY <1>8 DEF Workbench!RecordStep
  <2>3. Workbench!Recorded(user[u].step, did) \in Traced
    <3>1. user[u].step \in AnyStep /\ entry.steps \in Traced
      BY <1>0 DEF UserRequest, WorkbenchTypes
    <3> QED
      BY <3>1, Traces DEF Workbench!Recorded
  <2> QED
    BY <1>0, <1>1, <2>1, <2>2, <2>3 DEF WorkbenchTypes
<1>9. CASE Workbench!Stop(u)
  <2>1. CASE entry.active
    <3> DEFINE x == [user[u] EXCEPT !.at = "release", !.control = entry.control]
    <3>1. entry.control \in Nat
      BY <1>0 DEF WorkbenchTypes
    <3>2. x \in UserRequest /\ x.at = "release" /\ x.control = entry.control
      BY <1>0, <3>1, UserPlaceNames DEF UserRequest
    <3>3. Workbench!Moves(u, x) /\ user[u].at = "stop" /\ UNCHANGED <<session, inspector, grants>>
      BY <1>9, <2>1 DEF Workbench!Stop
    <3>4. entry' = [entry EXCEPT !.active = FALSE, !.control = 0]
      BY <1>9, <2>1 DEF Workbench!Stop
    <3>5. entry' \in [exists : BOOLEAN, active : BOOLEAN, control : Nat, steps : Traced,
                      owner : Nat]
      BY <1>0, <3>4 DEF WorkbenchTypes
    <3>6. user[u].control = 0
      BY <1>0, <3>3 DEF OnlyHoldersHaveControl
    <3> HIDE DEF x
    <3>7. Tracked'
      <4>1. user'[u] = x
        BY <1>0, <3>2, <3>3, Moved
      <4>2. CASE entry.control = session.holder
        BY <3>2, <3>3, <4>1, <4>2, TrackedByRequest
      <4>3. CASE entry.control # session.holder /\ session.holder # 0
        <5>1. PICK v \in Users : user[v].control = session.holder
          BY <1>0, <4>3 DEF Tracked
        <5>2. user'[v] = user[v]
          BY <1>0, <3>2, <3>3, <3>6, <4>3, <5>1, Moved
        <5> QED
          BY <3>3, <5>1, <5>2, TrackedByRequest
      <4>4. CASE session.holder = 0
        BY <3>3, <4>4 DEF Tracked
      <4> QED
        BY <4>2, <4>3, <4>4
    <3> QED
      BY <1>0, <3>2, <3>3, <3>5, <3>7, UserRequestStep DEF WorkbenchTypes
  <2> QED
    BY <1>0, <1>1, <1>9, <2>1 DEF Workbench!Stop, WorkbenchTypes
<1>10. CASE Workbench!ReplayCopy(u)
  <2>1. CASE ~entry.active
    <3> DEFINE x == [user[u] EXCEPT !.at = "replay acquire", !.trace = entry.steps]
    <3>1. entry.steps \in Traced
      BY <1>0 DEF WorkbenchTypes
    <3>2. x \in UserRequest /\ x.at = "replay acquire" /\ x.control = user[u].control
      BY <1>0, <3>1, UserPlaceNames DEF UserRequest
    <3>3. Workbench!Moves(u, x) /\ user[u].at = "replay"
      BY <1>10, <2>1 DEF Workbench!ReplayCopy
    <3>4. x.control = 0
      BY <1>0, <3>2, <3>3 DEF OnlyHoldersHaveControl
    <3> HIDE DEF x
    <3> QED
      BY <1>2, <1>10, <3>2, <3>3, <3>4 DEF Workbench!ReplayCopy
  <2> QED
    BY <1>0, <1>1, <1>10, <2>1 DEF Workbench!ReplayCopy, WorkbenchTypes
<1>11. CASE Workbench!ReplayAcquire(u)
  BY <1>0, <1>1, <1>4, <1>11 DEF Workbench!ReplayAcquire, WorkbenchTypes
<1>12. CASE Workbench!ReplayStep(u)
  <2>0. user[u].at = "replaying" /\ UNCHANGED <<session, entry, inspector, grants>>
    BY <1>12 DEF Workbench!ReplayStep
  <2>1. CASE Workbench!Moves(u, [user[u] EXCEPT !.next = @ + 1])
    <3> DEFINE x == [user[u] EXCEPT !.next = @ + 1]
    <3>1. x \in UserRequest /\ x.at = "replaying" /\ x.control = user[u].control
      BY <1>0, <2>0 DEF UserRequest
    <3> HIDE DEF x
    <3>2. Workbench!Moves(u, x)
      BY <2>1 DEF x
    <3> QED
      BY <1>2, <2>0, <3>1, <3>2
  <2>2. CASE Workbench!Moves(u, [user[u] EXCEPT !.at = "release"])
    <3> DEFINE x == [user[u] EXCEPT !.at = "release"]
    <3>1. x \in UserRequest /\ x.at = "release" /\ x.control = user[u].control
      BY <1>0, UserPlaceNames DEF UserRequest
    <3> HIDE DEF x
    <3>2. Workbench!Moves(u, x)
      BY <2>2 DEF x
    <3> QED
      BY <1>2, <2>0, <3>1, <3>2
  <2> QED
    BY <1>12, <2>1, <2>2 DEF Workbench!ReplayStep
<1> QED
  BY <1>3, <1>5, <1>6, <1>7, <1>8, <1>9, <1>10, <1>11, <1>12 DEF Workbench!UserStep

(* A new request has no control (driverui/workbench.go:25-161).            *)
LEMMA WorkbenchBeginStep ==
  ASSUME WorkbenchIInv, NEW u \in Users, Workbench!Begin(u)
  PROVE  WorkbenchIInv'
<1> DEFINE x == user'[u]
<1>0. WorkbenchTypes /\ OnlyHoldersHaveControl /\ Tracked /\ user[u] = Workbench!Idle
      /\ inspector = "serving"
  BY DEF WorkbenchIInv, Workbench!Begin
<1>1. UNCHANGED <<session, entry, inspector, grants>>
  BY DEF Workbench!Begin
<1>2. \E y \in UserRequest : Workbench!Moves(u, y) /\ y.control = 0
                        /\ y.at \notin {"install", "replaying", "release"}
  <2>1. ASSUME NEW at \in {"start", "stop", "replay"}
        PROVE  LET y == [Workbench!Idle EXCEPT !.at = at]
               IN  y \in UserRequest /\ y.control = 0 /\ y.at = at
    BY IdleRequest DEF Workbench!Idle, UserRequest, UserPlaces
  <2>2. ASSUME NEW s \in Steps
        PROVE  LET y == [Workbench!Idle EXCEPT !.at = "record", !.step = s]
               IN  y \in UserRequest /\ y.control = 0 /\ y.at = "record"
    BY IdleRequest DEF Workbench!Idle, UserRequest, UserPlaces, AnyStep
  <2>3. \/ \E at \in {"start", "stop", "replay"} : Workbench!Moves(u,
           [Workbench!Idle EXCEPT !.at = at])
        \/ \E s \in Steps : Workbench!Moves(u, [Workbench!Idle EXCEPT !.at = "record", !.step = s])
    BY DEF Workbench!Begin
  <2> QED
    BY <2>1, <2>2, <2>3
<1>3. WorkbenchTypes'
  BY <1>0, <1>1, <1>2, Moved DEF WorkbenchTypes
<1>4. OnlyHoldersHaveControl'
  BY <1>0, <1>2, Moved DEF OnlyHoldersHaveControl
<1>5. Tracked'
  <2>1. PICK y \in UserRequest : Workbench!Moves(u, y) /\ y.control = 0
    BY <1>2
  <2> QED
    BY <1>0, <1>1, <2>1, StaysTracked DEF Workbench!Idle
<1> QED
  BY <1>0, <1>1, <1>3, <1>4, <1>5 DEF WorkbenchIInv, DownIsDrained

(* The end of the session takes the control along                          *)
(* (driver/control.go:66-104).                                             *)
LEMMA SessionStep ==
  ASSUME WorkbenchIInv, Workbench!SessionCloses
  PROVE  WorkbenchIInv'
<1>1. session' = [open |-> FALSE, holder |-> 0] /\ UNCHANGED <<entry, user, inspector, grants>>
  BY DEF Workbench!SessionCloses
<1>2. session'.holder = 0 /\ session' \in [open : BOOLEAN, holder : Nat]
  BY <1>1
<1>3. WorkbenchTypes'
  BY <1>1, <1>2 DEF WorkbenchIInv, WorkbenchTypes
<1> QED
  BY <1>1, <1>2, <1>3 DEF WorkbenchIInv, OnlyHoldersHaveControl, DownIsDrained, Tracked

(* The Inspector's shutdown (driverui/server.go:107-116,                   *)
(* workbench/recording.go:206-225).                                        *)
LEMMA InspectorStep ==
  ASSUME WorkbenchIInv, Workbench!ShutdownBegin \/ Workbench!ShutdownTimesOut
         \/ Workbench!ManagerClose
  PROVE  WorkbenchIInv'
<1>0. WorkbenchTypes /\ OnlyHoldersHaveControl /\ Tracked
  BY DEF WorkbenchIInv
<1>1. CASE Workbench!ShutdownBegin
  BY <1>0, <1>1 DEF Workbench!ShutdownBegin, WorkbenchIInv, WorkbenchTypes, OnlyHoldersHaveControl,
     Tracked, DownIsDrained
<1>2. CASE Workbench!ShutdownTimesOut
  BY <1>0, <1>2 DEF Workbench!ShutdownTimesOut, WorkbenchIInv, WorkbenchTypes,
     OnlyHoldersHaveControl, Tracked, DownIsDrained
<1>3. CASE Workbench!ManagerClose
  <2>1. UNCHANGED <<user, grants>> /\ inspector' \in {"down", "down late"}
    BY <1>3 DEF Workbench!ManagerClose
  <2>2. entry' = [entry EXCEPT !.active = FALSE, !.control = 0]
    BY <1>3 DEF Workbench!ManagerClose
  <2>3. session' = IF entry.active THEN Workbench!Released(entry.control) ELSE session
    BY <1>3 DEF Workbench!ManagerClose
  <2>4. WorkbenchTypes'
    BY <1>0, <2>1, <2>2, <2>3 DEF WorkbenchTypes, Workbench!Released
  <2>5. session'.holder # 0 => /\ session'.holder = session.holder
                               /\ ~(entry.active /\ entry.control = session.holder)
    BY <1>0, <2>3 DEF WorkbenchTypes, Workbench!Released
  <2>6. Tracked'
    BY <1>0, <2>1, <2>5 DEF Tracked
  <2>7. OnlyHoldersHaveControl'
    BY <1>0, <2>1 DEF OnlyHoldersHaveControl
  <2>8. inspector' = "down" => \A u \in Users : user[u] = Workbench!Idle
    BY <1>3 DEF Workbench!ManagerClose, Workbench!Drained
  <2>9. inspector' = "down" => session'.holder = 0
    BY <1>0, <2>5, <2>8 DEF Tracked, Workbench!Idle
  <2> QED
    BY <2>1, <2>4, <2>6, <2>7, <2>8, <2>9 DEF WorkbenchIInv, DownIsDrained
<1> QED
  BY <1>1, <1>2, <1>3

(* The invariant holds at first (workbench/recording.go:80-100).           *)
LEMMA WorkbenchIInvInit ==
  ASSUME Workbench!Init
  PROVE  WorkbenchIInv
<1>1. WorkbenchTypes
  BY IdleRequest, Traces DEF Workbench!Init, WorkbenchTypes
<1>2. session.holder = 0 /\ inspector = "serving" /\ \A u \in Users : user[u].control = 0
  BY DEF Workbench!Init, Workbench!Idle
<1> QED
  BY <1>1, <1>2 DEF WorkbenchIInv, OnlyHoldersHaveControl, DownIsDrained, Tracked

(* Every step keeps the invariant (workbench/recording.go:102-308,         *)
(* driverui/server.go:107-116).                                            *)
LEMMA WorkbenchIInvNext ==
  ASSUME WorkbenchIInv, [Workbench!Next]_(Workbench!workbenchVars)
  PROVE  WorkbenchIInv'
<1>1. WorkbenchIInv /\ Workbench!Next => WorkbenchIInv'
  BY WorkbenchBeginStep, HandlerStep, SessionStep, InspectorStep DEF Workbench!Next
<1>2. WorkbenchIInv /\ UNCHANGED Workbench!workbenchVars => WorkbenchIInv'
  BY DEF Workbench!workbenchVars, WorkbenchIInv, WorkbenchTypes, OnlyHoldersHaveControl,
     DownIsDrained, Tracked
<1> QED
  BY <1>1, <1>2

(* ControlIsNotLost holds for any number of users, steps and requests:     *)
(* whoever holds control of the session is a recording that can be stopped *)
(* or a request that will release it, and nobody does when the Inspector   *)
(* is down (workbench/recording.go:102-134, 206-308,                       *)
(* driverui/server.go:107-116).                                            *)
THEOREM ControlKeptTrackOf == Workbench!Spec => []Workbench!ControlIsNotLost
<1>1. WorkbenchIInv => Workbench!ControlIsNotLost
  BY DEF WorkbenchIInv, Tracked, Workbench!ControlIsNotLost
<1> QED
  BY <1>1, WorkbenchIInvInit, WorkbenchIInvNext, PTL DEF Workbench!Spec

-----------------------------------------------------------------------------
(* The Workbench's recordings.                                             *)

(* Those of the things in s that are chosen, passed one thing at a time.   *)
ChosenPassed(s, choice, f) ==
  /\ f[0] = <<>>
  /\ \A n \in 1..Len(s) :
       f[n] = IF s[n] \in choice THEN Append(f[n - 1], s[n]) ELSE f[n - 1]

(* Such a function exists, and Chosen is what it reaches at the end        *)
(* (workbench/recording.go:138-203).                                       *)
LEMMA ChosenIs ==
  ASSUME NEW A, NEW s \in Seq(A), NEW choice
  PROVE  \E f \in [0..Len(s) -> Seq(A)] :
           ChosenPassed(s, choice, f) /\ Workbench!Chosen(s, choice) = f[Len(s)]
<1> DEFINE S == Seq(A)
           step == [n \in 1..Len(s) |->
                      [o \in S |-> IF s[n] \in choice THEN Append(o, s[n]) ELSE o]]
           Loop(f) == f = [n \in 0..Len(s) |->
                             IF n = 0 THEN <<>>
                             ELSE IF s[n] \in choice THEN Append(f[n - 1], s[n])
                             ELSE f[n - 1]]
<1>n. Len(s) \in Nat /\ <<>> \in S
  OBVIOUS
<1>c. \A n \in 1..Len(s) : \A o \in S : Append(o, s[n]) \in S
  OBVIOUS
<1>1. step \in [1..Len(s) -> [S -> S]]
  <2> HIDE DEF S
  <2> QED
    BY <1>c
<1>2. PICK g \in [0..Len(s) -> S] : IsLoop(g, Len(s), <<>>, step)
  <2> HIDE DEF step, S
  <2> QED
    BY <1>n, <1>1, LoopDefined, ZenonT(30)
<1>3. ChosenPassed(s, choice, g)
  <2>1. ASSUME NEW n \in 1..Len(s)
        PROVE  g[n] = IF s[n] \in choice THEN Append(g[n - 1], s[n]) ELSE g[n - 1]
    <3>1. n - 1 \in 0..Len(s) /\ g[n - 1] \in S
      OBVIOUS
    <3>2. g[n] = step[n][g[n - 1]]
      BY <1>2 DEF IsLoop
    <3> HIDE DEF S
    <3> QED
      BY <3>1, <3>2
  <2> QED
    BY <1>2, <2>1 DEF IsLoop, ChosenPassed
<1>4. Loop(g)
  <2> DEFINE h == [n \in 0..Len(s) |->
                     IF n = 0 THEN <<>>
                     ELSE IF s[n] \in choice THEN Append(g[n - 1], s[n])
                     ELSE g[n - 1]]
  <2>1. \A n \in 0..Len(s) : n = 0 \/ n \in 1..Len(s)
    OBVIOUS
  <2>2. \A n \in 0..Len(s) : h[n] = g[n]
    BY <1>3, <2>1 DEF ChosenPassed
  <2> QED
    BY <2>2
<1>5. PICK f : f = CHOOSE x : Loop(x)
  OBVIOUS
<1>6. Loop(f)
  <2> HIDE DEF Loop
  <2> QED
    BY <1>4, <1>5
<1>7. Workbench!Chosen(s, choice) = f[Len(s)]
  BY <1>5 DEF Workbench!Chosen
<1>8. ChosenPassed(s, choice, f) /\ DOMAIN f = 0..Len(s)
  <2>1. DOMAIN f = 0..Len(s)
    BY <1>6
  <2>2. \A n \in 0..Len(s) :
          f[n] = IF n = 0 THEN <<>>
                 ELSE IF s[n] \in choice THEN Append(f[n - 1], s[n]) ELSE f[n - 1]
    BY <1>6
  <2>3. 0 \in 0..Len(s) /\ \A n \in 1..Len(s) : n \in 0..Len(s) /\ n # 0
    OBVIOUS
  <2> HIDE DEF Loop
  <2>4. f[0] = <<>>
    BY <2>2, <2>3
  <2>5. \A n \in 1..Len(s) :
          f[n] = IF s[n] \in choice THEN Append(f[n - 1], s[n]) ELSE f[n - 1]
    BY <2>2, <2>3
  <2> QED
    BY <2>1, <2>4, <2>5 DEF ChosenPassed
<1>9. \A n \in 0..Len(s) : f[n] \in S
  <2> DEFINE T == {n \in Nat : n <= Len(s) => f[n] \in S}
  <2>1. 0 \in T
    <3>1. f[0] = <<>>
      BY <1>8 DEF ChosenPassed
    <3> QED
      BY <1>n, <3>1
  <2>2. ASSUME NEW n \in Nat, n \in T PROVE n + 1 \in T
    <3> SUFFICES ASSUME n + 1 <= Len(s) PROVE f[n + 1] \in S
      OBVIOUS
    <3>1. n + 1 \in 1..Len(s) /\ n + 1 - 1 = n /\ f[n] \in S
      BY <2>2
    <3> HIDE DEF S
    <3> QED
      BY <1>8, <1>c, <3>1 DEF ChosenPassed
  <2>3. Nat \subseteq T
    <3> HIDE DEF T
    <3> QED
      BY <2>1, <2>2, SetInduction
  <2> QED
    BY <2>3
<1>10. f \in [0..Len(s) -> S]
  <2> HIDE DEF S
  <2> QED
    BY <1>6, <1>9
<1> QED
  BY <1>7, <1>8, <1>10

(* What is chosen of nothing, and of one thing more                        *)
(* (workbench/recording.go:138-203).                                       *)
LEMMA ChosenEmpty == ASSUME NEW choice PROVE Workbench!Chosen(<<>>, choice) = <<>>
<1>1. PICK f \in [0..Len(<<>>) -> Seq({})] :
        ChosenPassed(<<>>, choice, f) /\ Workbench!Chosen(<<>>, choice) = f[Len(<<>>)]
  <2>1. <<>> \in Seq({})
    OBVIOUS
  <2> QED
    BY <2>1, ChosenIs
<1>2. Len(<<>>) = 0
  OBVIOUS
<1> QED
  BY <1>1, <1>2 DEF ChosenPassed

(* The same (workbench/recording.go:138-203).                              *)
LEMMA ChosenAppend ==
  ASSUME NEW A, NEW s \in Seq(A), NEW x \in A, NEW choice
  PROVE  /\ Workbench!Chosen(s, choice) \in Seq(A)
         /\ Workbench!Chosen(Append(s, x), choice) =
              IF x \in choice THEN Append(Workbench!Chosen(s, choice), x)
              ELSE Workbench!Chosen(s, choice)
<1>t. PICK t \in Seq(A) : t = Append(s, x)
  <2>1. Append(s, x) \in Seq(A)
    BY AppendProperties
  <2> QED
    BY <2>1
<1>n. PICK n \in Nat : n = Len(s)
  OBVIOUS
<1>1. Len(t) = n + 1 /\ t[n + 1] = x /\ \A i \in 1..n : t[i] = s[i]
  BY <1>t, <1>n
<1>2. PICK f \in [0..Len(s) -> Seq(A)] :
        ChosenPassed(s, choice, f) /\ Workbench!Chosen(s, choice) = f[Len(s)]
  BY ChosenIs
<1>3. PICK g \in [0..Len(t) -> Seq(A)] :
        ChosenPassed(t, choice, g) /\ Workbench!Chosen(t, choice) = g[Len(t)]
  BY ChosenIs
<1> DEFINE T == {m \in Nat : m <= n => f[m] = g[m]}
<1>4. 0 \in T
  BY <1>2, <1>3 DEF ChosenPassed
<1>5. ASSUME NEW m \in Nat, m \in T PROVE m + 1 \in T
  <2> SUFFICES ASSUME m + 1 <= n PROVE f[m + 1] = g[m + 1]
    OBVIOUS
  <2>1. m + 1 \in 1..n /\ m + 1 \in 1..Len(s) /\ m + 1 \in 1..Len(t) /\ m + 1 - 1 = m /\ m <= n
    BY <1>n, <1>1
  <2>2. f[m] = g[m] /\ t[m + 1] = s[m + 1]
    BY <1>1, <1>5, <2>1
  <2>3. f[m + 1] = IF s[m + 1] \in choice THEN Append(f[m], s[m + 1]) ELSE f[m]
    <3>1. \A k \in 1..Len(s) :
            f[k] = IF s[k] \in choice THEN Append(f[k - 1], s[k]) ELSE f[k - 1]
      BY ONLY <1>2 DEF ChosenPassed
    <3> QED
      BY ONLY <2>1, <3>1
  <2>4. g[m + 1] = IF t[m + 1] \in choice THEN Append(g[m], t[m + 1]) ELSE g[m]
    <3>1. \A k \in 1..Len(t) :
            g[k] = IF t[k] \in choice THEN Append(g[k - 1], t[k]) ELSE g[k - 1]
      BY ONLY <1>3 DEF ChosenPassed
    <3> QED
      BY ONLY <2>1, <3>1
  <2> QED
    BY <2>2, <2>3, <2>4
<1>6. f[n] = g[n]
  <2>1. Nat \subseteq T
    <3> HIDE DEF T
    <3> QED
      BY <1>4, <1>5, SetInduction
  <2> QED
    BY <2>1
<1>7. g[n + 1] = IF x \in choice THEN Append(g[n], x) ELSE g[n]
  <2>1. n + 1 \in 1..Len(t) /\ n + 1 - 1 = n
    BY <1>1
  <2> QED
    BY <1>1, <1>3, <2>1 DEF ChosenPassed
<1>8. f[n] \in Seq(A)
  BY <1>n, <1>2
<1> QED
  BY <1>t, <1>n, <1>1, <1>2, <1>3, <1>6, <1>7, <1>8

(* What reached the session, by which control.                             *)
Inputs == [control : Nat, step : AnyStep]

(* One step more of a trace (workbench/recording.go:138-203).              *)
LEMMA SendingMore ==
  ASSUME NEW t \in Traced, NEW x \in AnyStep
  PROVE  /\ Workbench!Sending(<<>>) = <<>>
         /\ Workbench!Sending(t) \in Seq(AnyStep)
         /\ Workbench!Sending(Append(t, x)) =
              IF x \in Steps /\ Workbench!Sends(x) THEN Append(Workbench!Sending(t), x)
              ELSE Workbench!Sending(t)
<1>1. PICK choice : choice = {s \in Steps : Workbench!Sends(s)}
  OBVIOUS
<1>2. t \in Seq(AnyStep) /\ (x \in choice <=> x \in Steps /\ Workbench!Sends(x))
  BY <1>1 DEF Traced
<1>3. \A s : Workbench!Sending(s) = Workbench!Chosen(s, choice)
  BY <1>1 DEF Workbench!Sending
<1>4. /\ Workbench!Chosen(t, choice) \in Seq(AnyStep)
      /\ Workbench!Chosen(Append(t, x), choice) =
           IF x \in choice THEN Append(Workbench!Chosen(t, choice), x)
           ELSE Workbench!Chosen(t, choice)
  BY <1>2, ChosenAppend
<1> QED
  BY <1>2, <1>3, <1>4, ChosenEmpty

(* One input more (workbench/recording.go:138-203, 259-308).               *)
LEMMA SentMore ==
  ASSUME input \in Seq(Inputs), NEW e \in Inputs, input' = Append(input, e), NEW c \in Nat
  PROVE  Workbench!SentBy(c)' =
           IF e.control = c /\ e.step \in Steps THEN Append(Workbench!SentBy(c), e.step)
           ELSE Workbench!SentBy(c)
<1>1. PICK choice : choice = [control : {c}, step : Steps]
  OBVIOUS
<1>2. e \in choice <=> e.control = c /\ e.step \in Steps
  <2>1. e = [control |-> e.control, step |-> e.step]
    BY DEF Inputs
  <2> QED
    BY <1>1, <2>1
<1>3. PICK s \in Seq(Inputs) : s = Workbench!Chosen(input, choice)
  <2>1. Workbench!Chosen(input, choice) \in Seq(Inputs)
    BY ChosenAppend
  <2> QED
    BY <2>1
<1>4. Workbench!Chosen(input', choice) = IF e \in choice THEN Append(s, e) ELSE s
  <2>1. PICK i \in Seq(Inputs) : i = input
    OBVIOUS
  <2>2. Workbench!Chosen(Append(i, e), choice) =
          IF e \in choice THEN Append(Workbench!Chosen(i, choice), e)
          ELSE Workbench!Chosen(i, choice)
    BY ChosenAppend, SMTT(40)
  <2>3. PICK j : j = input'
    OBVIOUS
  <2>4. j = Append(i, e)
    BY <2>1, <2>3
  <2> QED
    BY <1>3, <2>1, <2>2, <2>3, <2>4
<1>5. /\ Workbench!SentBy(c) = Workbench!StepsOf(s)
      /\ Workbench!SentBy(c)' = Workbench!StepsOf(Workbench!Chosen(input', choice))
  BY <1>1, <1>3 DEF Workbench!SentBy
<1>6. Workbench!StepsOf(Append(s, e)) = Append(Workbench!StepsOf(s), e.step)
  <2>1. PICK n \in Nat : n = Len(s) /\ DOMAIN s = 1..n
    OBVIOUS
  <2>2. PICK a \in Seq(Inputs) : a = Append(s, e)
    <3>1. Append(s, e) \in Seq(Inputs)
      BY AppendProperties
    <3> QED
      BY <3>1
  <2>3. DOMAIN a = 1..(n + 1) /\ a[n + 1] = e /\ \A i \in 1..n : a[i] = s[i]
    BY <2>1, <2>2, AppendProperties
  <2>4. PICK b \in Seq(AnyStep) : b = [k \in 1..n |-> s[k].step]
    <3>1. \A k \in 1..n : s[k].step \in AnyStep
      <4>1. \A k \in 1..n : s[k] \in Inputs
        BY <2>1
      <4> QED
        BY <4>1 DEF Inputs
    <3>2. [k \in 1..n |-> s[k].step] \in Seq(AnyStep)
      BY <3>1
    <3> QED
      BY <3>2
  <2>5. Len(b) = n /\ e.step \in AnyStep /\ \A k \in 1..n : b[k] = s[k].step
    BY <2>4 DEF Inputs
  <2>6. PICK d : d = Append(b, e.step)
    OBVIOUS
  <2>7. /\ d = [k \in 1..(n + 1) |-> d[k]] /\ d[n + 1] = e.step
        /\ \A k \in 1..n : d[k] = b[k]
    BY <2>5, <2>6, AppendProperties
  <2>8. \A k \in 1..(n + 1) : a[k].step = d[k]
    <3>1. \A k \in 1..(n + 1) : k = n + 1 \/ k \in 1..n
      OBVIOUS
    <3> QED
      BY <2>3, <2>5, <2>7, <3>1
  <2>9. [k \in 1..(n + 1) |-> a[k].step] = [k \in 1..(n + 1) |-> d[k]]
    BY <2>8
  <2>10. /\ Workbench!StepsOf(s) = b
         /\ Workbench!StepsOf(a) = [k \in 1..(n + 1) |-> a[k].step]
    BY <2>1, <2>3, <2>4 DEF Workbench!StepsOf
  <2> QED
    BY <2>2, <2>6, <2>7, <2>9, <2>10
<1> QED
  BY <1>2, <1>4, <1>5, <1>6

(* A request that has a control and will use it.                           *)
InUse(u) == user[u].at \in {"install", "replaying"}

(* No control is handed out twice, and one that is handed out later has    *)
(* sent nothing.                                                           *)
ControlsDiffer ==
  /\ entry.owner <= grants
  /\ entry.active => entry.control = entry.owner /\ entry.owner # 0
  /\ \A u \in Users : user[u].control <= grants
  /\ \A u \in Users : InUse(u) => user[u].control # 0 /\ user[u].control # entry.owner
  /\ \A u, v \in Users : InUse(u) /\ InUse(v) /\ u # v => user[u].control # user[v].control

NothingSentYet ==
  /\ \A c \in Nat : c > grants => Workbench!SentBy(c) = <<>>
  /\ \A u \in Users : user[u].at = "install" => Workbench!SentBy(user[u].control) = <<>>

(* A step is sent and recorded under the lock of a recording that goes on. *)
LockHeld == \A u \in Users : user[u].at = "send" => lock = u /\ entry.active

(* Where a replay is in its trace.                                         *)
InTrace ==
  \A u \in Users :
    /\ user[u].at \notin {"replaying", "release"} => user[u].next = 1
    /\ user[u].at = "replaying" => user[u].next \in 1..(Len(user[u].trace) + 1)

TraceHolds ==
  /\ input \in Seq(Inputs)
  /\ ControlsDiffer /\ NothingSentYet /\ LockHeld /\ InTrace
  /\ Workbench!TraceIsWhatWasSent

(* What was sent is the same as long as nothing more is sent               *)
(* (workbench/recording.go:138-203, 259-308).                              *)
LEMMA SentStays ==
  ASSUME input' = input
  PROVE  \A c : Workbench!SentBy(c)' = Workbench!SentBy(c)
BY DEF Workbench!SentBy

(* Numbers that the argument compares (workbench/recording.go:102-308).    *)
LEMMA WorkbenchNumbers ==
  ASSUME WorkbenchTypes
  PROVE  /\ grants \in Nat /\ entry.owner \in Nat /\ entry.control \in Nat
         /\ entry.steps \in Traced /\ entry.active \in BOOLEAN
         /\ \A u \in Users : /\ user[u].control \in Nat /\ user[u].next \in Nat
                             /\ user[u].trace \in Traced /\ user[u].step \in AnyStep
BY DEF WorkbenchTypes, UserRequest

(* A step of one request that sends nothing and does not get a control     *)
(* (workbench/recording.go:102-308).                                       *)
LEMMA SendsNothing ==
  ASSUME WorkbenchTypes, TraceHolds, NEW u \in Users, NEW x \in UserRequest,
         Workbench!Moves(u, x), UNCHANGED <<input, grants>>,
         entry'.owner = entry.owner, entry'.steps = entry.steps,
         entry'.active => entry.active /\ entry'.control = entry.control,
         x.control <= grants, x.at \notin {"install", "replaying"},
         x.at # "release" => x.next = 1,
         x.at = "send" => lock' = u /\ entry'.active,
         \A v \in Users : v # u /\ user[v].at = "send" => lock' = v /\ entry'.active
  PROVE  TraceHolds'
<1>1. user'[u] = x /\ \A v \in Users : v # u => user'[v] = user[v]
  BY Moved
<1>2. \A v \in Users : InUse(v)' => InUse(v) /\ v # u /\ user'[v] = user[v]
  BY <1>1 DEF InUse
<1>3. ControlsDiffer'
  <2>1. /\ entry'.owner <= grants'
        /\ entry'.active => entry'.control = entry'.owner /\ entry'.owner # 0
    BY DEF TraceHolds, ControlsDiffer
  <2>2. \A v \in Users : user'[v].control <= grants'
    BY <1>1 DEF TraceHolds, ControlsDiffer
  <2> QED
    BY <1>2, <2>1, <2>2 DEF TraceHolds, ControlsDiffer
<1>4. NothingSentYet'
  <2>1. \A v \in Users : user'[v].at = "install" => user[v].at = "install" /\ user'[v] = user[v]
    BY <1>1
  <2> QED
    BY <2>1, SentStays DEF TraceHolds, NothingSentYet
<1>5. LockHeld'
  BY <1>1 DEF LockHeld
<1>6. InTrace'
  BY <1>1 DEF TraceHolds, InTrace
<1>7. Workbench!TraceIsWhatWasSent'
  <2>1. (Workbench!Sending(entry.steps) = Workbench!SentBy(entry.owner) \/ entry.owner = 0)'
    BY DEF TraceHolds, Workbench!TraceIsWhatWasSent, Workbench!SentBy
  <2>2. ASSUME NEW v \in Users, user'[v].at = "replaying"
        PROVE  (Workbench!SentBy(user[v].control) =
                  Workbench!Sending(SubSeq(user[v].trace, 1, user[v].next - 1)))'
    <3>1. user'[v] = user[v] /\ user[v].at = "replaying"
      BY <1>2, <2>2 DEF InUse
    <3> QED
      BY <3>1 DEF TraceHolds, Workbench!TraceIsWhatWasSent, Workbench!SentBy
  <2> QED
    BY <2>1, <2>2 DEF Workbench!TraceIsWhatWasSent
<1>8. input' \in Seq(Inputs)
  BY DEF TraceHolds
<1> QED
  BY <1>3, <1>4, <1>5, <1>6, <1>7, <1>8 DEF TraceHolds

(* What a step that is sent adds to what a control sent                    *)
(* (workbench/recording.go:138-203, 259-308).                              *)
LEMMA SentByStep ==
  ASSUME input \in Seq(Inputs), NEW c \in Nat, NEW st \in AnyStep,
         input' = Workbench!Sent(c, st)
  PROVE  /\ input' \in Seq(Inputs)
         /\ \A d \in Nat :
              Workbench!SentBy(d)' =
                IF d = c /\ st \in Steps /\ Workbench!Sends(st)
                THEN Append(Workbench!SentBy(d), st) ELSE Workbench!SentBy(d)
<1>1. CASE Workbench!Sends(st)
  <2>1. PICK e \in Inputs : e = [control |-> c, step |-> st]
    BY DEF Inputs
  <2>2. input' = Append(input, e)
    BY <1>1, <2>1 DEF Workbench!Sent
  <2>3. e.control = c /\ e.step = st
    BY <2>1
  <2>4. PICK i \in Seq(Inputs) : i = input
    OBVIOUS
  <2>5. input' \in Seq(Inputs)
    BY <2>2, <2>4, AppendProperties
  <2> QED
    BY <1>1, <2>2, <2>3, <2>5, SentMore
<1>2. CASE ~Workbench!Sends(st)
  <2>1. input' = input
    BY <1>2 DEF Workbench!Sent
  <2> QED
    BY <1>2, <2>1, SentStays
<1> QED
  BY <1>1, <1>2

(* While nobody holds the lock, nobody sends (workbench/recording.go:      *)
(* 138-203).                                                               *)
LEMMA NobodySends ==
  ASSUME TraceHolds, lock = Workbench!NoOne
  PROVE  \A v \in Users : user[v].at # "send"
BY UserAssumption DEF TraceHolds, LockHeld

(* A recording begins with nothing, under a control that has sent nothing  *)
(* (workbench/recording.go:102-134).                                       *)
LEMMA InstallTrace ==
  ASSUME WorkbenchTypes, TraceHolds, NEW u \in Users, Workbench!StartInstall(u), ~entry.active
  PROVE  TraceHolds'
<1>0. /\ user[u].at = "install" /\ lock = Workbench!NoOne
      /\ Workbench!Moves(u, Workbench!Idle)
      /\ entry' = [exists |-> TRUE, active |-> TRUE, control |-> user[u].control,
                   steps |-> <<>>, owner |-> user[u].control]
      /\ UNCHANGED <<input, grants, lock>>
  BY DEF Workbench!StartInstall, Workbench!Done
<1>1. user'[u] = Workbench!Idle /\ \A v \in Users : v # u => user'[v] = user[v]
  BY <1>0, IdleRequest, Moved
<1>2. \A v \in Users : InUse(v)' => InUse(v) /\ v # u /\ user'[v] = user[v]
  BY <1>1 DEF InUse, Workbench!Idle
<1>3. PICK c \in Nat : c = user[u].control
  BY WorkbenchNumbers
<1>4. entry'.owner = c /\ entry'.control = c /\ entry'.steps = <<>> /\ c # 0 /\ c <= grants
  BY <1>0, <1>3 DEF TraceHolds, ControlsDiffer, InUse
<1>5. ControlsDiffer'
  <2>1. \A v \in Users : user'[v].control <= grants'
    BY <1>0, <1>1, WorkbenchNumbers DEF TraceHolds, ControlsDiffer, Workbench!Idle
  <2>2. \A v \in Users : InUse(v)' => user'[v].control # 0 /\ user'[v].control # c
    BY <1>0, <1>2, <1>3 DEF TraceHolds, ControlsDiffer, InUse
  <2>3. \A v, w \in Users : InUse(v)' /\ InUse(w)' /\ v # w => user'[v].control # user'[w].control
    BY <1>2 DEF TraceHolds, ControlsDiffer
  <2> QED
    BY <1>0, <1>4, <2>1, <2>2, <2>3 DEF ControlsDiffer
<1>6. NothingSentYet'
  <2>1. \A v \in Users : user'[v].at = "install" => user[v].at = "install" /\ user'[v] = user[v]
    BY <1>1 DEF Workbench!Idle
  <2> QED
    BY <1>0, <2>1, SentStays DEF TraceHolds, NothingSentYet
<1>7. LockHeld'
  BY <1>0, <1>1, NobodySends DEF LockHeld, Workbench!Idle
<1>8. InTrace'
  BY <1>1 DEF TraceHolds, InTrace, Workbench!Idle
<1>9. Workbench!TraceIsWhatWasSent'
  <2>1. Workbench!SentBy(c)' = <<>>
    BY <1>0, <1>3, SentStays DEF TraceHolds, NothingSentYet
  <2>2. Workbench!Sending(<<>>) = <<>>
    BY ChosenEmpty DEF Workbench!Sending
  <2>3. (Workbench!Sending(entry.steps) = Workbench!SentBy(entry.owner))'
    BY <1>4, <2>1, <2>2 DEF Workbench!SentBy
  <2>4. ASSUME NEW v \in Users, user'[v].at = "replaying"
        PROVE  (Workbench!SentBy(user[v].control) =
                  Workbench!Sending(SubSeq(user[v].trace, 1, user[v].next - 1)))'
    <3>1. user'[v] = user[v] /\ user[v].at = "replaying"
      BY <1>2, <2>4 DEF InUse
    <3> QED
      BY <1>0, <3>1 DEF TraceHolds, Workbench!TraceIsWhatWasSent, Workbench!SentBy
  <2> QED
    BY <2>3, <2>4 DEF Workbench!TraceIsWhatWasSent
<1> QED
  BY <1>0, <1>5, <1>6, <1>7, <1>8, <1>9 DEF TraceHolds

(* A control is new when it is acquired (workbench/recording.go:102-134,   *)
(* 259-308).                                                               *)
LEMMA AcquireTrace ==
  ASSUME WorkbenchTypes, TraceHolds, NEW u \in Users, NEW at \in {"install", "replaying"},
         Workbench!Acquire(u, at), user[u].next = 1, UNCHANGED <<entry, lock, input>>
  PROVE  TraceHolds'
<1>c. PICK c \in Nat : c = grants + 1
  BY WorkbenchNumbers
<1>0. /\ Workbench!Moves(u, [user[u] EXCEPT !.at = at, !.control = c])
      /\ grants' = c /\ grants < c /\ c # 0
  BY <1>c, WorkbenchNumbers DEF Workbench!Acquire
<1>x. PICK x \in UserRequest : /\ x = [user[u] EXCEPT !.at = at, !.control = c]
                               /\ x.at = at /\ x.control = c /\ x.next = 1
                               /\ x.trace = user[u].trace
  <2>1. user[u] \in UserRequest /\ at \in UserPlaces
    BY UserPlaceNames DEF WorkbenchTypes
  <2>2. [user[u] EXCEPT !.at = at, !.control = c] \in UserRequest
    BY <2>1 DEF UserRequest
  <2> QED
    BY <2>1, <2>2 DEF UserRequest
<1>1. user'[u] = x /\ \A v \in Users : v # u => user'[v] = user[v]
  BY <1>0, <1>x, Moved
<1>u. /\ user'[u].at = at /\ user'[u].control = c /\ user'[u].next = 1 /\ user'[u].next - 1 = 0
      /\ user'[u].trace = user[u].trace /\ user'[u].trace \in Seq(AnyStep)
      /\ Len(user'[u].trace) \in Nat
  <2>1. user[u].trace \in Seq(AnyStep)
    BY WorkbenchNumbers DEF Traced
  <2>2. user'[u].trace = user[u].trace /\ Len(user[u].trace) \in Nat
    BY <1>1, <1>x, <2>1
  <2> QED
    BY <1>1, <1>x, <2>1, <2>2
<1>g. /\ c <= c /\ grants \in Nat
      /\ \A n \in Nat : n <= grants => n <= c /\ n # c /\ n < c
  BY <1>0, WorkbenchNumbers
<1>2. \A v \in Users :
        v # u => (InUse(v)' <=> InUse(v)) /\ user'[v].control <= c /\ user'[v].control # c
  <2>1. \A v \in Users : user[v].control \in Nat /\ user[v].control <= grants
    BY WorkbenchNumbers DEF TraceHolds, ControlsDiffer
  <2> QED
    BY <1>1, <1>g, <2>1 DEF InUse
<1>o. entry'.owner = entry.owner /\ entry.owner <= c /\ entry.owner # c
  BY <1>g, WorkbenchNumbers DEF TraceHolds, ControlsDiffer
<1>3. ControlsDiffer'
  <2>1. \A v \in Users : user'[v].control <= grants'
    BY <1>0, <1>2, <1>g, <1>u
  <2>2. \A v \in Users : InUse(v)' => user'[v].control # 0 /\ user'[v].control # entry'.owner
    BY <1>0, <1>1, <1>2, <1>o, <1>u DEF TraceHolds, ControlsDiffer
  <2>3. \A v, w \in Users : InUse(v)' /\ InUse(w)' /\ v # w => user'[v].control # user'[w].control
    BY <1>1, <1>2, <1>u DEF TraceHolds, ControlsDiffer
  <2>4. /\ entry'.owner <= grants'
        /\ entry'.active => entry'.control = entry'.owner /\ entry'.owner # 0
    BY <1>0, <1>o DEF TraceHolds, ControlsDiffer
  <2> QED
    BY <2>1, <2>2, <2>3, <2>4 DEF ControlsDiffer
<1>4. Workbench!SentBy(c)' = <<>> /\ \A d \in Nat : d > c => Workbench!SentBy(d)' = <<>>
  BY <1>0, WorkbenchNumbers, SentStays DEF TraceHolds, NothingSentYet
<1>5. NothingSentYet'
  <2>1. ASSUME NEW v \in Users, user'[v].at = "install"
        PROVE  (Workbench!SentBy(user[v].control) = <<>>)'
    <3>1. CASE v = u
      BY <1>4, <1>u, <3>1 DEF Workbench!SentBy
    <3>2. CASE v # u
      BY <1>1, <2>1, <3>2 DEF TraceHolds, NothingSentYet, Workbench!SentBy
    <3> QED
      BY <3>1, <3>2
  <2> QED
    BY <1>0, <1>4, <2>1 DEF NothingSentYet
<1>6. LockHeld'
  BY <1>1, <1>u DEF TraceHolds, LockHeld
<1>7. InTrace'
  <2>1. 1 \in 1..(Len(user'[u].trace) + 1)
    BY <1>u
  <2> QED
    BY <1>1, <1>u, <2>1 DEF TraceHolds, InTrace
<1>8. Workbench!TraceIsWhatWasSent'
  <2>1. (Workbench!Sending(entry.steps) = Workbench!SentBy(entry.owner) \/ entry.owner = 0)'
    BY DEF TraceHolds, Workbench!TraceIsWhatWasSent, Workbench!SentBy
  <2>2. ASSUME NEW v \in Users, user'[v].at = "replaying"
        PROVE  (Workbench!SentBy(user[v].control) =
                  Workbench!Sending(SubSeq(user[v].trace, 1, user[v].next - 1)))'
    <3>1. CASE v = u
      <4>1. user'[v].control = c /\ user'[v].next - 1 = 0
        BY <1>u, <3>1
      <4>2. SubSeq(user'[v].trace, 1, 0) = <<>>
        BY SubSeqEmpty
      <4>3. Workbench!Sending(<<>>) = <<>>
        BY ChosenEmpty DEF Workbench!Sending
      <4> QED
        BY <1>4, <4>1, <4>2, <4>3 DEF Workbench!SentBy
    <3>2. CASE v # u
      BY <1>1, <2>2, <3>2 DEF TraceHolds, Workbench!TraceIsWhatWasSent, Workbench!SentBy
    <3> QED
      BY <3>1, <3>2
  <2> QED
    BY <2>1, <2>2 DEF Workbench!TraceIsWhatWasSent
<1> QED
  BY <1>3, <1>5, <1>6, <1>7, <1>8 DEF TraceHolds

(* What is sent under one control is not sent under another                *)
(* (workbench/recording.go:138-203, 259-308).                              *)
LEMMA OthersSentNothing ==
  ASSUME WorkbenchTypes, TraceHolds, NEW c \in Nat, NEW st \in AnyStep,
         input' = Workbench!Sent(c, st), c <= grants, grants' = grants,
         \A v \in Users : user'[v].at = "install" =>
           user[v].at = "install" /\ user'[v] = user[v] /\ user[v].control # c
  PROVE  NothingSentYet'
<1>1. \A d \in Nat : d # c => Workbench!SentBy(d)' = Workbench!SentBy(d)
  BY SentByStep DEF TraceHolds
<1>2. \A d \in Nat : d > grants' => Workbench!SentBy(d)' = <<>>
  <2>1. \A d \in Nat : d > grants => d # c
    BY WorkbenchNumbers
  <2> QED
    BY <1>1, <2>1 DEF TraceHolds, NothingSentYet
<1>3. ASSUME NEW v \in Users, user'[v].at = "install"
      PROVE  (Workbench!SentBy(user[v].control) = <<>>)'
  <2>1. PICK d \in Nat : d = user[v].control /\ d = user'[v].control /\ d # c
    BY <1>3, WorkbenchNumbers
  <2>2. Workbench!SentBy(d) = <<>>
    BY <1>3, <2>1 DEF TraceHolds, NothingSentYet
  <2>3. Workbench!SentBy(d)' = <<>>
    BY <1>1, <2>1, <2>2
  <2> QED
    BY <2>1, <2>3 DEF Workbench!SentBy
<1> QED
  BY <1>2, <1>3 DEF NothingSentYet

(* The same for replays that go on with another control                    *)
(* (workbench/recording.go:138-203, 259-308).                              *)
LEMMA OthersReplayOn ==
  ASSUME WorkbenchTypes, TraceHolds, NEW c \in Nat, NEW st \in AnyStep,
         input' = Workbench!Sent(c, st),
         NEW v \in Users, user[v].at = "replaying", user'[v] = user[v], user[v].control # c
  PROVE  (Workbench!SentBy(user[v].control) =
            Workbench!Sending(SubSeq(user[v].trace, 1, user[v].next - 1)))'
<1>1. PICK d \in Nat : d = user[v].control /\ d = user'[v].control /\ d # c
  BY WorkbenchNumbers
<1>2. Workbench!SentBy(d)' = Workbench!SentBy(d)
  BY <1>1, SentByStep DEF TraceHolds
<1>3. Workbench!SentBy(d) = Workbench!Sending(SubSeq(user[v].trace, 1, user[v].next - 1))
  BY <1>1 DEF TraceHolds, Workbench!TraceIsWhatWasSent
<1> QED
  BY <1>1, <1>2, <1>3 DEF Workbench!SentBy

(* A step is recorded under the lock in which it was sent                  *)
(* (workbench/recording.go:138-203).                                       *)
LEMMA RecordTrace ==
  ASSUME WorkbenchTypes, TraceHolds, NEW u \in Users, Workbench!RecordStep(u)
  PROVE  TraceHolds'
<1>0. /\ user[u].at = "send" /\ lock' = Workbench!NoOne /\ Workbench!Moves(u, Workbench!Idle)
      /\ UNCHANGED grants
      /\ lock = u /\ entry.active /\ \A v \in Users : v # u => user[v].at # "send"
  BY DEF Workbench!RecordStep, Workbench!Unlocked, Workbench!Done, TraceHolds, LockHeld
<1>1. PICK did \in BOOLEAN :
        /\ input' = IF did THEN Workbench!Sent(entry.control, user[u].step) ELSE input
        /\ entry' = [entry EXCEPT !.steps = Workbench!Recorded(user[u].step, did)]
  BY DEF Workbench!RecordStep, Workbench!Accepted, WorkbenchTypes
<1>2. user'[u] = Workbench!Idle /\ \A v \in Users : v # u => user'[v] = user[v]
  BY <1>0, IdleRequest, Moved
<1>3. CASE ~did
  <2>1. entry'.owner = entry.owner /\ entry'.steps = entry.steps /\ entry' = entry
    BY <1>1, <1>3 DEF Workbench!Recorded, WorkbenchTypes
  <2>2. Workbench!Idle.control = 0 /\ Workbench!Idle.next = 1 /\ Workbench!Idle.at = "idle"
    BY DEF Workbench!Idle
  <2> QED
    BY <1>0, <1>1, <1>3, <2>1, <2>2, IdleRequest, SendsNothing, WorkbenchNumbers
<1>4. CASE did
  <2>1. PICK c \in Nat, st \in AnyStep : c = entry.control /\ st = user[u].step
    BY WorkbenchNumbers
  <2>2. PICK tr \in Traced : tr = entry.steps
    BY WorkbenchNumbers
  <2>3. /\ entry'.owner = c /\ entry.owner = c /\ c # 0 /\ entry'.control = c
        /\ entry'.active = entry.active /\ entry'.steps = Append(tr, st) /\ c <= grants
    BY <1>0, <1>1, <1>4, <2>1, <2>2
       DEF Workbench!Recorded, WorkbenchTypes, TraceHolds, ControlsDiffer
  <2>4. input' = Workbench!Sent(c, st)
    BY <1>1, <1>4, <2>1
  <2>5. \A v \in Users : InUse(v)' => InUse(v) /\ v # u /\ user'[v] = user[v] /\ user[v].control # c
    BY <1>2, <2>3 DEF InUse, Workbench!Idle, TraceHolds, ControlsDiffer
  <2>6. ControlsDiffer'
    <3>1. \A v \in Users : user'[v].control <= grants'
      BY <1>0, <1>2, WorkbenchNumbers DEF TraceHolds, ControlsDiffer, Workbench!Idle
    <3>2. \A v, w \in Users : InUse(v)' /\ InUse(w)' /\ v # w => user'[v].control # user'[w].control
      BY <2>5 DEF TraceHolds, ControlsDiffer
    <3>3. \A v \in Users : InUse(v)' => user'[v].control # 0 /\ user'[v].control # entry'.owner
      BY <2>3, <2>5 DEF TraceHolds, ControlsDiffer
    <3> QED
      BY <1>0, <2>3, <3>1, <3>2, <3>3 DEF ControlsDiffer
  <2>7. NothingSentYet'
    BY <1>0, <2>3, <2>4, <2>5, OthersSentNothing DEF InUse
  <2>8. LockHeld'
    BY <1>0, <1>2 DEF LockHeld, Workbench!Idle
  <2>9. InTrace'
    BY <1>2 DEF TraceHolds, InTrace, Workbench!Idle
  <2>10. (Workbench!Sending(entry.steps) = Workbench!SentBy(entry.owner))'
    <3>1. Workbench!Sending(tr) = Workbench!SentBy(c)
      BY <2>2, <2>3 DEF TraceHolds, Workbench!TraceIsWhatWasSent
    <3>2. Workbench!Sending(Append(tr, st)) = Workbench!SentBy(c)'
      <4>1. Workbench!SentBy(c)' = IF st \in Steps /\ Workbench!Sends(st)
                                   THEN Append(Workbench!SentBy(c), st) ELSE Workbench!SentBy(c)
        BY <2>4, SentByStep DEF TraceHolds
      <4> QED
        BY <3>1, <4>1, SendingMore
    <3> QED
      BY <2>3, <3>2 DEF Workbench!SentBy
  <2>11. ASSUME NEW v \in Users, user'[v].at = "replaying"
         PROVE  (Workbench!SentBy(user[v].control) =
                   Workbench!Sending(SubSeq(user[v].trace, 1, user[v].next - 1)))'
    <3>1. user[v].at = "replaying" /\ user'[v] = user[v] /\ user[v].control # c
      BY <2>5, <2>11 DEF InUse
    <3> QED
      BY <2>4, <3>1, OthersReplayOn
  <2>12. input' \in Seq(Inputs)
    BY <2>4, SentByStep DEF TraceHolds
  <2> QED
    BY <2>6, <2>7, <2>8, <2>9, <2>10, <2>11, <2>12 DEF TraceHolds, Workbench!TraceIsWhatWasSent
<1> QED
  BY <1>3, <1>4

(* A replay sends the next step of its trace (workbench/recording.go:      *)
(* 259-308).                                                               *)
LEMMA ReplayTrace ==
  ASSUME WorkbenchTypes, TraceHolds, NEW u \in Users, user[u].at = "replaying",
         user[u].next <= Len(user[u].trace),
         input' = Workbench!Sent(user[u].control, user[u].trace[user[u].next]),
         Workbench!Moves(u, [user[u] EXCEPT !.next = @ + 1]),
         UNCHANGED <<entry, lock, grants>>
  PROVE  TraceHolds'
<1>t. PICK t \in Seq(AnyStep) : t = user[u].trace
  BY WorkbenchNumbers DEF Traced
<1>n. PICK n \in 1..Len(t) : n = user[u].next
  <2>1. user[u].next \in 1..(Len(user[u].trace) + 1) /\ Len(t) \in Nat
    BY <1>t DEF TraceHolds, InTrace
  <2> QED
    BY <1>t, <2>1
<1>c. PICK c \in Nat, st \in AnyStep : c = user[u].control /\ st = t[n]
  BY WorkbenchNumbers
<1>x. PICK x \in UserRequest : x = [user[u] EXCEPT !.next = @ + 1]
  <2>1. user[u] \in UserRequest
    BY DEF WorkbenchTypes
  <2>2. [user[u] EXCEPT !.next = @ + 1] \in UserRequest
    BY <2>1 DEF UserRequest
  <2> QED
    BY <2>2
<1>1. user'[u] = x /\ \A v \in Users : v # u => user'[v] = user[v]
  BY <1>x, Moved
<1>2. x.at = "replaying" /\ x.control = c /\ x.trace = t /\ x.next = n + 1
  <2>1. user[u] \in UserRequest
    BY DEF WorkbenchTypes
  <2> QED
    BY <1>t, <1>n, <1>c, <1>x, <2>1 DEF UserRequest
<1>3. input' = Workbench!Sent(c, st)
  BY <1>t, <1>n, <1>c
<1>4. c <= grants /\ c # 0 /\ c # entry.owner
  BY <1>c DEF TraceHolds, ControlsDiffer, InUse
<1>5. \A v \in Users : InUse(v)' = InUse(v) /\ user'[v].control = user[v].control
  BY <1>1, <1>2, <1>c DEF InUse
<1>6. \A v \in Users : InUse(v) /\ v # u => user'[v] = user[v] /\ user[v].control # c
  BY <1>1, <1>c DEF TraceHolds, ControlsDiffer, InUse
<1>7. ControlsDiffer'
  BY <1>5 DEF TraceHolds, ControlsDiffer
<1>8. NothingSentYet'
  <2>1. \A v \in Users : user'[v].at = "install" =>
          user[v].at = "install" /\ user'[v] = user[v] /\ user[v].control # c
    BY <1>1, <1>2, <1>6 DEF InUse
  <2> QED
    BY <1>3, <1>4, <2>1, OthersSentNothing
<1>9. LockHeld'
  BY <1>1, <1>2 DEF TraceHolds, LockHeld
<1>10. InTrace'
  <2>1. n + 1 \in 1..(Len(t) + 1)
    BY <1>t
  <2> QED
    BY <1>1, <1>2, <2>1 DEF TraceHolds, InTrace
<1>11. (Workbench!Sending(entry.steps) = Workbench!SentBy(entry.owner) \/ entry.owner = 0)'
  <2>1. PICK o \in Nat : o = entry.owner /\ o = entry'.owner /\ o # c
    BY <1>4, WorkbenchNumbers
  <2>2. Workbench!SentBy(o)' = Workbench!SentBy(o)
    BY <1>3, <2>1, SentByStep DEF TraceHolds
  <2>3. Workbench!Sending(entry.steps) = Workbench!SentBy(o) \/ o = 0
    BY <2>1 DEF TraceHolds, Workbench!TraceIsWhatWasSent
  <2>4. Workbench!Sending(entry.steps) = Workbench!SentBy(o)' \/ o = 0
    BY <2>2, <2>3
  <2> QED
    BY <2>1, <2>4 DEF Workbench!SentBy
<1>12. ASSUME NEW v \in Users, user'[v].at = "replaying"
       PROVE  (Workbench!SentBy(user[v].control) =
                 Workbench!Sending(SubSeq(user[v].trace, 1, user[v].next - 1)))'
  <2>1. CASE v = u
    <3>1. PICK p \in Traced : p = SubSeq(t, 1, n - 1)
      <4>1. SubSeq(t, 1, n - 1) \in Seq(AnyStep)
        BY <1>t
      <4> QED
        BY <4>1 DEF Traced
    <3>2. SubSeq(t, 1, n) = Append(p, st)
      <4>1. /\ n \in Nat /\ n - 1 \in Nat /\ Len(p) = n - 1 /\ p \in Seq(AnyStep)
            /\ \A i \in 1..(n - 1) : p[i] = t[i]
        BY <3>1
      <4>2. PICK q : q = Append(p, st)
        OBVIOUS
      <4>3. /\ q \in Seq(AnyStep) /\ Len(q) = n /\ q[n] = st
            /\ \A i \in 1..(n - 1) : q[i] = p[i]
        BY <4>1, <4>2, AppendProperties
      <4>4. PICK r \in Seq(AnyStep) : r = SubSeq(t, 1, n)
        <5>1. \A i \in 1..n : t[i] \in AnyStep
          OBVIOUS
        <5>2. SubSeq(t, 1, n) \in Seq(AnyStep)
          BY <4>1, <5>1
        <5> QED
          BY <5>2
      <4>5. Len(r) = n /\ \A i \in 1..n : r[i] = t[i]
        BY <4>4
      <4>6. \A i \in 1..n : q[i] = r[i]
        <5>1. \A i \in 1..n : i = n \/ i \in 1..(n - 1)
          OBVIOUS
        <5> QED
          BY <1>c, <4>1, <4>3, <4>5, <5>1
      <4>7. q = r
        BY <4>3, <4>5, <4>6, SeqEqual
      <4> QED
        BY <4>2, <4>4, <4>7
    <3>3. Workbench!SentBy(c) = Workbench!Sending(p)
      BY <1>t, <1>n, <1>c, <3>1 DEF TraceHolds, Workbench!TraceIsWhatWasSent
    <3>4. Workbench!SentBy(c)' = Workbench!Sending(Append(p, st))
      <4>1. Workbench!SentBy(c)' = IF st \in Steps /\ Workbench!Sends(st)
                                   THEN Append(Workbench!SentBy(c), st) ELSE Workbench!SentBy(c)
        BY <1>3, SentByStep DEF TraceHolds
      <4> QED
        BY <3>3, <4>1, SendingMore
    <3>5. user'[v].control = c /\ user'[v].trace = t /\ user'[v].next - 1 = n
      BY <1>1, <1>2, <2>1, SMTT(40)
    <3> QED
      BY <3>2, <3>4, <3>5 DEF Workbench!SentBy
  <2>2. CASE v # u
    <3>1. user[v].at = "replaying" /\ user'[v] = user[v] /\ user[v].control # c
      BY <1>1, <1>6, <1>12, <2>2 DEF InUse
    <3> QED
      BY <1>3, <3>1, OthersReplayOn
  <2> QED
    BY <2>1, <2>2
<1>13. input' \in Seq(Inputs)
  BY <1>3, SentByStep DEF TraceHolds
<1> QED
  BY <1>7, <1>8, <1>9, <1>10, <1>11, <1>12, <1>13 DEF TraceHolds, Workbench!TraceIsWhatWasSent

(* A request somewhere else (workbench/recording.go:102-308).              *)
LEMMA Elsewhere ==
  ASSUME NEW q \in UserRequest, NEW at \in {"send", "release", "replay acquire"}
  PROVE  \E x \in UserRequest : /\ x = [q EXCEPT !.at = at] /\ x.at = at
                                /\ x.control = q.control /\ x.next = q.next
<1>0. at \in UserPlaces
  BY UserPlaceNames
<1>1. LET x == [q EXCEPT !.at = at]
      IN  x \in UserRequest /\ x.at = at /\ x.control = q.control /\ x.next = q.next
  BY <1>0 DEF UserRequest
<1> QED
  BY <1>1

(* A request that releases control c (workbench/recording.go:206-225).     *)
LEMMA Releasing ==
  ASSUME NEW q \in UserRequest, NEW c \in Nat
  PROVE  \E x \in UserRequest : /\ x = [q EXCEPT !.at = "release", !.control = c]
                                /\ x.at = "release" /\ x.control = c /\ x.next = q.next
<1>1. LET x == [q EXCEPT !.at = "release", !.control = c]
      IN  x \in UserRequest /\ x.at = "release" /\ x.control = c /\ x.next = q.next
  BY UserPlaceNames DEF UserRequest
<1> QED
  BY <1>1

(* A request that replays trace t (workbench/recording.go:259-275).        *)
AtReplay(q, t) == [q EXCEPT !.at = "replay acquire", !.trace = t]
LEMMA Replaying ==
  ASSUME NEW q \in UserRequest, NEW t \in Traced
  PROVE  \E x \in UserRequest : /\ x = AtReplay(q, t) /\ x.at = "replay acquire"
                                /\ x.control = q.control /\ x.next = q.next
<1>1. /\ AtReplay(q, t) \in UserRequest /\ AtReplay(q, t).at = "replay acquire"
      /\ AtReplay(q, t).control = q.control /\ AtReplay(q, t).next = q.next
  BY UserPlaceNames DEF UserRequest, AtReplay
<1> QED
  BY <1>1

(* The other steps of a handler send nothing (workbench/recording.go:      *)
(* 102-308).                                                               *)
LEMMA HandlerTrace ==
  ASSUME WorkbenchTypes, TraceHolds, NEW u \in Users, Workbench!UserStep(u)
  PROVE  TraceHolds'
<1>0. /\ user[u] \in UserRequest /\ user[u].control <= grants /\ grants \in Nat
      /\ user[u].at \notin {"replaying", "release"} => user[u].next = 1
  BY DEF WorkbenchTypes, TraceHolds, ControlsDiffer, InTrace
<1>i. /\ Workbench!Idle \in UserRequest /\ Workbench!Idle.control = 0
      /\ Workbench!Idle.next = 1 /\ Workbench!Idle.at = "idle"
      /\ Workbench!Idle.control <= grants
  BY <1>0, IdleRequest DEF Workbench!Idle
<1>l. \A v \in Users : user[v].at = "send" => lock = v /\ entry.active
  BY DEF TraceHolds, LockHeld
<1>1. ASSUME Workbench!Done(u), UNCHANGED <<entry, lock, input, grants>>
      PROVE  TraceHolds'
  BY <1>1, <1>i, <1>l, SendsNothing DEF Workbench!Done
<1>2. ASSUME NEW at \in {"send", "release", "replay acquire"}, NEW x \in UserRequest,
             Workbench!Moves(u, x), x.at = at, x.control <= grants,
             at # "release" => x.next = 1,
             entry'.owner = entry.owner, entry'.steps = entry.steps,
             entry'.active => entry.active /\ entry'.control = entry.control,
             UNCHANGED <<input, grants>>,
             at = "send" => lock' = u /\ entry'.active,
             lock = Workbench!NoOne
      PROVE  TraceHolds'
  BY <1>2, NobodySends, SendsNothing
<1>3. CASE Workbench!Release(u)
  BY <1>1, <1>3 DEF Workbench!Release
<1>4. CASE Workbench!StartAcquire(u)
  BY <1>0, <1>1, <1>4, AcquireTrace DEF Workbench!StartAcquire
<1>5. CASE Workbench!StartInstall(u)
  <2>1. CASE entry.active
    <3>1. PICK x \in UserRequest : /\ x = [user[u] EXCEPT !.at = "release"] /\ x.at = "release"
                                   /\ x.control = user[u].control /\ x.next = user[u].next
      BY <1>0, Elsewhere
    <3>2. Workbench!Moves(u, x)
      BY <1>5, <2>1, <3>1 DEF Workbench!StartInstall
    <3> QED
      BY <1>0, <1>2, <1>5, <2>1, <3>1, <3>2 DEF Workbench!StartInstall
  <2>2. CASE ~entry.active
    BY <1>5, <2>2, InstallTrace
  <2> QED
    BY <2>1, <2>2
<1>6. CASE Workbench!RecordLock(u)
  <2>1. CASE entry.active
    <3>1. PICK x \in UserRequest : /\ x = [user[u] EXCEPT !.at = "send"] /\ x.at = "send"
                                   /\ x.control = user[u].control /\ x.next = user[u].next
      BY <1>0, Elsewhere
    <3>2. Workbench!Moves(u, x)
      BY <1>6, <2>1, <3>1 DEF Workbench!RecordLock
    <3> QED
      BY <1>0, <1>2, <1>6, <2>1, <3>1, <3>2 DEF Workbench!RecordLock
  <2> QED
    BY <1>1, <1>6, <2>1 DEF Workbench!RecordLock
<1>7. CASE Workbench!Stop(u)
  <2>1. CASE entry.active
    <3>1. PICK c \in Nat : c = entry.control /\ c <= grants
      BY <2>1, WorkbenchNumbers DEF TraceHolds, ControlsDiffer
    <3>2. PICK x \in UserRequest : /\ x = [user[u] EXCEPT !.at = "release", !.control = c]
                                   /\ x.at = "release" /\ x.control = c /\ x.next = user[u].next
      BY <1>0, Releasing
    <3>3. Workbench!Moves(u, x)
      BY <1>7, <2>1, <3>1, <3>2 DEF Workbench!Stop
    <3>4. entry' = [entry EXCEPT !.active = FALSE, !.control = 0]
      BY <1>7, <2>1 DEF Workbench!Stop
    <3>5. /\ entry'.owner = entry.owner /\ entry'.steps = entry.steps
          /\ entry'.active => entry.active /\ entry'.control = entry.control
      BY <3>4 DEF WorkbenchTypes
    <3> QED
      BY <1>2, <1>7, <3>1, <3>2, <3>3, <3>5 DEF Workbench!Stop
  <2> QED
    BY <1>1, <1>7, <2>1 DEF Workbench!Stop
<1>8. CASE Workbench!ReplayCopy(u)
  <2>1. CASE ~entry.active
    <3>0. PICK t \in Traced : t = entry.steps
      BY WorkbenchNumbers
    <3>1. PICK x \in UserRequest :
            /\ x = AtReplay(user[u], t) /\ x.at = "replay acquire"
            /\ x.control = user[u].control /\ x.next = user[u].next
      BY <1>0, <3>0, Replaying
    <3>2. Workbench!Moves(u, x)
      BY <1>8, <2>1, <3>0, <3>1 DEF Workbench!ReplayCopy, AtReplay
    <3> QED
      BY <1>0, <1>2, <1>8, <2>1, <3>1, <3>2 DEF Workbench!ReplayCopy
  <2> QED
    BY <1>1, <1>8, <2>1 DEF Workbench!ReplayCopy
<1>9. CASE Workbench!ReplayAcquire(u)
  BY <1>0, <1>1, <1>9, AcquireTrace DEF Workbench!ReplayAcquire
<1>10. CASE Workbench!ReplayStep(u)
  <2>0. user[u].at = "replaying" /\ UNCHANGED <<entry, lock, grants>>
    BY <1>10 DEF Workbench!ReplayStep
  <2>1. CASE Workbench!Moves(u, [user[u] EXCEPT !.at = "release"]) /\ UNCHANGED input
    <3>1. PICK x \in UserRequest : /\ x = [user[u] EXCEPT !.at = "release"] /\ x.at = "release"
                                   /\ x.control = user[u].control /\ x.next = user[u].next
      BY <1>0, Elsewhere
    <3>2. Workbench!Moves(u, x)
      BY <2>1, <3>1
    <3> QED
      BY <1>0, <1>l, <2>0, <2>1, <3>1, <3>2, SendsNothing
  <2>2. CASE /\ user[u].next <= Len(user[u].trace)
             /\ input' = Workbench!Sent(user[u].control, user[u].trace[user[u].next])
             /\ Workbench!Moves(u, [user[u] EXCEPT !.next = @ + 1])
    BY <2>0, <2>2, ReplayTrace
  <2> QED
    BY <1>10, <2>1, <2>2 DEF Workbench!ReplayStep
<1>11. CASE Workbench!RecordStep(u)
  BY <1>11, RecordTrace
<1> QED
  BY <1>3, <1>4, <1>5, <1>6, <1>7, <1>8, <1>9, <1>10, <1>11 DEF Workbench!UserStep

(* A step of nobody leaves the requests and what was sent, and may only    *)
(* end the recording, when nobody records (workbench/recording.go:206-225, *)
(* driverui/server.go:107-116).                                            *)
LEMMA OtherTrace ==
  ASSUME TraceHolds, UNCHANGED <<user, input, grants, lock>>,
         entry'.owner = entry.owner, entry'.steps = entry.steps,
         \/ entry' = entry
         \/ lock = Workbench!NoOne /\ ~entry'.active
  PROVE  TraceHolds'
<1>1. \A u \in Users : InUse(u)' = InUse(u) /\ user'[u] = user[u]
  BY DEF InUse
<1>2. ControlsDiffer'
  BY <1>1 DEF TraceHolds, ControlsDiffer
<1>3. NothingSentYet'
  BY SentStays DEF TraceHolds, NothingSentYet
<1>4. LockHeld'
  BY NobodySends DEF TraceHolds, LockHeld
<1>5. InTrace'
  BY DEF TraceHolds, InTrace
<1>6. Workbench!TraceIsWhatWasSent'
  BY DEF TraceHolds, Workbench!TraceIsWhatWasSent, Workbench!SentBy
<1> QED
  BY <1>2, <1>3, <1>4, <1>5, <1>6 DEF TraceHolds

(* The invariant of traces holds at first (workbench/recording.go:80-100). *)
LEMMA TraceInit ==
  ASSUME Workbench!Init
  PROVE  TraceHolds
<1>1. /\ input = <<>> /\ input \in Seq(Inputs) /\ grants = 0 /\ grants \in Nat
      /\ entry.owner = 0 /\ ~entry.active
      /\ \A u \in Users : user[u].at = "idle" /\ user[u].control = 0 /\ user[u].next = 1
  BY DEF Workbench!Init, Workbench!Idle
<1>2. \A c \in Nat : Workbench!SentBy(c) = <<>>
  <2>1. Workbench!StepsOf(<<>>) = <<>>
    BY DEF Workbench!StepsOf
  <2> QED
    BY <1>1, <2>1, ChosenEmpty DEF Workbench!SentBy
<1> QED
  BY <1>1, <1>2 DEF TraceHolds, ControlsDiffer, NothingSentYet, LockHeld, InTrace, InUse,
                    Workbench!TraceIsWhatWasSent

(* Every step keeps it (workbench/recording.go:102-308,                    *)
(* driverui/server.go:107-116).                                            *)
LEMMA TraceNext ==
  ASSUME WorkbenchIInv, TraceHolds, [Workbench!Next]_(Workbench!workbenchVars)
  PROVE  TraceHolds'
<1>0. WorkbenchTypes
  BY DEF WorkbenchIInv
<1>1. CASE UNCHANGED Workbench!workbenchVars
  BY <1>1, OtherTrace DEF Workbench!workbenchVars
<1>2. CASE Workbench!SessionCloses \/ Workbench!ShutdownBegin \/ Workbench!ShutdownTimesOut
  BY <1>2, OtherTrace
     DEF Workbench!SessionCloses, Workbench!ShutdownBegin, Workbench!ShutdownTimesOut
<1>3. CASE Workbench!ManagerClose
  <2>1. /\ entry' = [entry EXCEPT !.active = FALSE, !.control = 0] /\ lock = Workbench!NoOne
        /\ UNCHANGED <<user, input, grants, lock>>
    BY <1>3 DEF Workbench!ManagerClose
  <2>2. entry'.owner = entry.owner /\ entry'.steps = entry.steps /\ ~entry'.active
    BY <1>0, <2>1 DEF WorkbenchTypes
  <2> QED
    BY <2>1, <2>2, OtherTrace
<1>4. ASSUME NEW u \in Users, Workbench!Begin(u)
      PROVE  TraceHolds'
  <2>0. UNCHANGED <<entry, lock, input, grants>> /\ user[u] = Workbench!Idle
    BY <1>4 DEF Workbench!Begin
  <2>1. \E x \in UserRequest : /\ Workbench!Moves(u, x) /\ x.control = 0 /\ x.next = 1
                               /\ x.at \in {"start", "stop", "replay", "record"}
    <3>1. ASSUME NEW at \in {"start", "stop", "replay"}
          PROVE  LET y == [Workbench!Idle EXCEPT !.at = at]
                 IN  y \in UserRequest /\ y.control = 0 /\ y.next = 1 /\ y.at = at
      BY IdleRequest DEF Workbench!Idle, UserRequest, UserPlaces
    <3>2. ASSUME NEW s \in Steps
          PROVE  LET y == [Workbench!Idle EXCEPT !.at = "record", !.step = s]
                 IN  y \in UserRequest /\ y.control = 0 /\ y.next = 1 /\ y.at = "record"
      BY IdleRequest DEF Workbench!Idle, UserRequest, UserPlaces, AnyStep
    <3>3. \/ \E at \in {"start", "stop", "replay"} :
               Workbench!Moves(u, [Workbench!Idle EXCEPT !.at = at])
          \/ \E s \in Steps :
               Workbench!Moves(u, [Workbench!Idle EXCEPT !.at = "record", !.step = s])
      BY <1>4 DEF Workbench!Begin
    <3> QED
      BY <3>1, <3>2, <3>3
  <2>2. PICK x \in UserRequest : /\ Workbench!Moves(u, x) /\ x.control = 0 /\ x.next = 1
                                 /\ x.at \in {"start", "stop", "replay", "record"}
    BY <2>1
  <2>3. \A v \in Users : user[v].at = "send" => lock' = v /\ entry'.active
    BY <2>0 DEF TraceHolds, LockHeld
  <2>4. x.control <= grants
    BY <1>0, <2>2, WorkbenchNumbers
  <2> QED
    BY <1>0, <2>0, <2>2, <2>3, <2>4, SendsNothing
<1> QED
  BY <1>0, <1>1, <1>2, <1>3, <1>4, HandlerTrace DEF Workbench!Next

(* A recording of the Workbench, for any number of users, steps and        *)
(* requests: its steps that send are those that reached the session under  *)
(* the recording's control, in the order they reached it, and a replay     *)
(* sends a prefix of its trace (workbench/recording.go:138-203, 259-308).  *)
THEOREM TracesAreTrue == Workbench!Spec => []Workbench!TraceIsWhatWasSent
<1>1. Workbench!Init => WorkbenchIInv /\ TraceHolds
  BY WorkbenchIInvInit, TraceInit
<1>2. WorkbenchIInv /\ TraceHolds /\ [Workbench!Next]_(Workbench!workbenchVars) =>
        WorkbenchIInv' /\ TraceHolds'
  BY WorkbenchIInvNext, TraceNext
<1>3. TraceHolds => Workbench!TraceIsWhatWasSent
  BY DEF TraceHolds
<1> QED
  BY <1>1, <1>2, <1>3, PTL DEF Workbench!Spec

-----------------------------------------------------------------------------
(* SdkClient.                                                              *)

Messages == [kind : {"response"}, of : Sdk!All] \cup [kind : {"event"}, of : Nat]
Channels == [channel : Seq(Nat), closed : BOOLEAN, unsubscribed : BOOLEAN]

(* Events stay events on their way from the driver to the channel. *)
SdkTypes ==
  /\ stream \in Channels
  /\ reader \in Seq(Nat) /\ queue \in Seq(Nat)
  /\ "queued" \in DOMAIN client /\ client.queued \in Seq(Nat)
  /\ output \in Seq(Messages) /\ sent \in Nat

(* What a step leaves of the subscription's channel is a channel, and      *)
(* nothing was put into a closed one.                                      *)
Respects(s, t) ==
  /\ t \in Channels
  /\ s.closed => t.closed /\ Len(t.channel) <= Len(s.channel)

(* An event is delivered (sdk/go/session.go:168-208).                      *)
LEMMA Delivers ==
  ASSUME NEW s \in Channels, NEW event \in Nat
  PROVE  Respects(s, Sdk!Deliver(s, event))
<1>1. CASE s.closed
  BY <1>1 DEF Sdk!Deliver, Respects, Channels
<1>2. CASE ~s.closed
  <2>1. PICK more \in Seq(Nat) : more = Append(s.channel, event)
    <3>1. Append(s.channel, event) \in Seq(Nat)
      BY DEF Channels
    <3> QED
      BY <3>1
  <2>2. \/ Sdk!Deliver(s, event) = [s EXCEPT !.channel = more]
        \/ Sdk!Deliver(s, event) = [s EXCEPT !.closed = TRUE]
    BY <1>2, <2>1 DEF Sdk!Deliver
  <2>3. [s EXCEPT !.channel = more] \in Channels /\ [s EXCEPT !.closed = TRUE] \in Channels
    BY DEF Channels
  <2> QED
    BY <1>2, <2>2, <2>3 DEF Respects
<1> QED
  BY <1>1, <1>2

(* A channel is closed (sdk/go/session.go:187-208).                        *)
Unsubscribed(s) == [s EXCEPT !.closed = TRUE, !.unsubscribed = TRUE]
LEMMA ClosesChannel ==
  ASSUME NEW s \in Channels
  PROVE  Respects(s, Unsubscribed(s))
<1> DEFINE t == Unsubscribed(s)
<1>1. t \in Channels
  BY DEF Channels, Unsubscribed
<1>2. t.closed /\ t.channel = s.channel /\ Len(s.channel) \in Nat
  BY DEF Channels, Unsubscribed
<1> HIDE DEF t
<1>3. Respects(s, t)
  BY <1>1, <1>2 DEF Respects
<1> QED
  BY <1>3 DEF t

(* The consumer takes an event (sdk/go/session.go:148-166).                *)
LEMMA Consumes ==
  ASSUME NEW s \in Channels, s.channel # <<>>
  PROVE  Respects(s, [s EXCEPT !.channel = Tail(s.channel)])
<1>1. /\ Tail(s.channel) \in Seq(Nat) /\ Len(Tail(s.channel)) <= Len(s.channel)
      /\ s = [channel |-> s.channel, closed |-> s.closed, unsubscribed |-> s.unsubscribed]
  BY DEF Channels
<1>2. PICK rest \in Seq(Nat) : rest = Tail(s.channel)
  BY <1>1
<1>3. [s EXCEPT !.channel = rest] \in Channels
  BY DEF Channels
<1>4. [s EXCEPT !.channel = rest].channel = rest /\ [s EXCEPT !.channel = rest].closed = s.closed
  BY DEF Channels
<1> QED
  BY <1>1, <1>2, <1>3, <1>4 DEF Respects

(* A step that reads a message leaves events where events were             *)
(* (sdk/go/client.go:200-270).                                             *)
LEMMA ReadsEvents ==
  ASSUME SdkTypes, Sdk!Read
  PROVE  SdkTypes'
<1>0. output \in Seq(Messages) /\ output # <<>> /\ sent \in Nat
  BY DEF SdkTypes, Sdk!Read
<1>1. Head(output) \in Messages /\ Tail(output) \in Seq(Messages)
  BY <1>0
<1>2. PICK message \in Messages : message = Head(output)
  BY <1>1
<1>3. output' \in Seq(Messages) /\ UNCHANGED <<stream, queue, sent>>
  BY <1>1 DEF Sdk!Read, Sdk!subscription
<1>4. reader' \in Seq(Nat) /\ "queued" \in DOMAIN client' /\ client'.queued \in Seq(Nat)
  <2>1. CASE message.kind = "response"
    <3>1. reader' = reader /\ \E p : client' = [client EXCEPT !.pending = p]
      BY <1>2, <2>1 DEF Sdk!Read
    <3> QED
      BY <3>1 DEF SdkTypes
  <2>2. CASE message.kind # "response"
    <3>1. message.of \in Nat
      BY <2>2 DEF Messages
    <3>2. CASE client.registered
      <4>1. reader' = <<message.of>> /\ client' = client
        BY <1>2, <2>2, <3>2 DEF Sdk!Read
      <4> QED
        BY <3>1, <4>1 DEF SdkTypes
    <3>3. CASE ~client.registered
      <4>1. reader' = <<>> /\ client' = [client EXCEPT !.queued = Sdk!Queued(message.of)]
        BY <1>2, <2>2, <3>3 DEF Sdk!Read
      <4>2. Sdk!Queued(message.of) \in Seq(Nat)
        BY <3>1 DEF SdkTypes, Sdk!Queued
      <4> QED
        BY <4>1, <4>2 DEF SdkTypes
    <3> QED
      BY <3>2, <3>3
  <2> QED
    BY <2>1, <2>2
<1> QED
  BY <1>0, <1>3, <1>4 DEF SdkTypes

(* What the driver writes are messages (driver/server.go:247-315).         *)
LEMMA WritesMessages ==
  ASSUME SdkTypes
  PROVE  /\ \A c \in Sdk!All : Append(output, Sdk!Response(c)) \in Seq(Messages)
         /\ Append(output, Sdk!Notification(sent + 1)) \in Seq(Messages)
<1>1. ASSUME NEW c \in Sdk!All
      PROVE  Append(output, Sdk!Response(c)) \in Seq(Messages)
  <2>1. Sdk!Response(c) \in Messages
    BY DEF Messages, Sdk!Response
  <2> QED
    BY <2>1 DEF SdkTypes
<1>2. Sdk!Notification(sent + 1) \in Messages
  <2>1. sent + 1 \in Nat
    BY DEF SdkTypes
  <2> QED
    BY <2>1 DEF Messages, Sdk!Notification
<1> QED
  BY <1>1, <1>2 DEF SdkTypes

(* Whoever takes a step, the channel is respected                          *)
(* (sdk/go/client.go:166-398, sdk/go/session.go:148-282).                  *)
LEMMA SdkStep ==
  ASSUME SdkTypes, Sdk!Next
  PROVE  SdkTypes' /\ Respects(stream, stream')
<1>0. stream \in Channels /\ Respects(stream, stream)
  BY DEF SdkTypes, Respects, Channels
<1>1. ASSUME UNCHANGED <<stream, reader, queue, client, output, sent>>
      PROVE  SdkTypes' /\ Respects(stream, stream')
  BY <1>0, <1>1 DEF SdkTypes
<1>2. ASSUME NEW c \in Sdk!All, Sdk!CallBegin(c)
      PROVE  SdkTypes' /\ Respects(stream, stream')
  <2>1. /\ UNCHANGED <<stream, reader, queue, output, sent>>
        /\ client' = client \/ \E p : client' = [client EXCEPT !.pending = p]
    BY <1>2 DEF Sdk!CallBegin, Sdk!subscription, Sdk!process
  <2> QED
    BY <1>0, <2>1 DEF SdkTypes
<1>3. ASSUME NEW c \in Sdk!All, Sdk!CallStep(c)
      PROVE  SdkTypes' /\ Respects(stream, stream')
  <2>1. /\ UNCHANGED <<stream, reader, queue, output, sent>>
        /\ client' = client \/ ("queued" \in DOMAIN client' /\ client'.queued = <<>>)
    <3>1. CASE Sdk!CallWrite(c)
      <4>1. UNCHANGED <<stream, reader, queue, output, sent>>
        BY <3>1 DEF Sdk!CallWrite, Sdk!subscription
      <4>2. \/ client' = client
            \/ \E r : client' = [reading |-> r, failed |-> TRUE, pending |-> {},
                                registered |-> FALSE, queued |-> <<>>]
        BY <3>1 DEF Sdk!CallWrite, Sdk!Fail
      <4> QED
        BY <4>1, <4>2
    <3>2. CASE Sdk!CallReply(c)
      BY <3>2 DEF Sdk!CallReply, Sdk!subscription, Sdk!process
    <3> QED
      BY <1>3, <3>1, <3>2 DEF Sdk!CallStep
  <2>2. "queued" \in DOMAIN client' /\ client'.queued \in Seq(Nat)
    <3>1. <<>> \in Seq(Nat)
      OBVIOUS
    <3>2. "queued" \in DOMAIN client /\ client.queued \in Seq(Nat)
      BY DEF SdkTypes
    <3> QED
      BY <2>1, <3>1, <3>2
  <2> QED
    BY <1>0, <2>1, <2>2 DEF SdkTypes
<1>4. ASSUME NEW c \in Sdk!All, Sdk!CallCancel(c)
      PROVE  SdkTypes' /\ Respects(stream, stream')
  <2>1. /\ UNCHANGED <<stream, reader, queue, output, sent>>
        /\ \E p : client' = [client EXCEPT !.pending = p]
    BY <1>4 DEF Sdk!CallCancel, Sdk!subscription, Sdk!process
  <2> QED
    BY <1>0, <2>1 DEF SdkTypes
<1>5. ASSUME NEW c \in Sdk!All, Sdk!Respond(c)
      PROVE  SdkTypes' /\ Respects(stream, stream')
  <2>1. /\ UNCHANGED <<stream, reader, queue, client, sent>>
        /\ output' = Append(output, Sdk!Response(c))
    BY <1>5 DEF Sdk!Respond, Sdk!subscription, Sdk!clientVars
  <2> QED
    BY <1>0, <2>1, WritesMessages DEF SdkTypes
<1>6. CASE Sdk!Read
  <2>1. stream' = stream
    BY <1>6 DEF Sdk!Read, Sdk!subscription
  <2> QED
    BY <1>0, <1>6, <2>1, ReadsEvents
<1>7. CASE Sdk!ReadFails
  <2>1. /\ UNCHANGED <<stream, reader, queue, output, sent>>
        /\ "queued" \in DOMAIN client' /\ client'.queued = <<>>
    BY <1>7 DEF Sdk!ReadFails, Sdk!Fail, Sdk!subscription, Sdk!process
  <2> QED
    BY <1>0, <2>1 DEF SdkTypes
<1>8. CASE Sdk!ReaderDelivers
  <2>1. /\ UNCHANGED <<queue, client, output, sent>> /\ reader # <<>> /\ reader' = <<>>
        /\ stream' = Sdk!Deliver(stream, Head(reader))
    BY <1>8 DEF Sdk!ReaderDelivers, Sdk!process
  <2>2. Head(reader) \in Nat
    BY <2>1 DEF SdkTypes
  <2>3. Respects(stream, stream')
    BY <1>0, <2>1, <2>2, Delivers
  <2> QED
    BY <2>1, <2>3 DEF SdkTypes, Respects
<1>9. CASE Sdk!AddSubscription
  <2>1. /\ UNCHANGED <<stream, reader, output, sent>> /\ queue' = client.queued
        /\ client' = [client EXCEPT !.registered = TRUE, !.queued = <<>>]
    BY <1>9 DEF Sdk!AddSubscription, Sdk!process
  <2>2. "queued" \in DOMAIN client' /\ client'.queued = <<>>
    BY <2>1 DEF SdkTypes
  <2> QED
    BY <1>0, <2>1, <2>2 DEF SdkTypes
<1>10. CASE Sdk!DeliverQueued
  <2>1. /\ UNCHANGED <<reader, client, output, sent>> /\ queue # <<>> /\ queue' = Tail(queue)
        /\ stream' = Sdk!Deliver(stream, Head(queue))
    BY <1>10 DEF Sdk!DeliverQueued, Sdk!process
  <2>2. Head(queue) \in Nat /\ queue' \in Seq(Nat)
    BY <2>1 DEF SdkTypes
  <2>3. Respects(stream, stream')
    BY <1>0, <2>1, <2>2, Delivers
  <2> QED
    BY <2>1, <2>2, <2>3 DEF SdkTypes, Respects
<1>11. CASE Sdk!Finish \/ Sdk!Unsubscribe
  <2>1. /\ UNCHANGED <<reader, queue, client, output, sent>>
        /\ stream' = Unsubscribed(stream)
    BY <1>11 DEF Sdk!Finish, Sdk!Unsubscribe, Sdk!process, Unsubscribed
  <2>2. Respects(stream, stream')
    BY <1>0, <2>1, ClosesChannel
  <2> QED
    BY <2>1, <2>2 DEF SdkTypes, Respects
<1>12. CASE Sdk!Forget
  <2>1. /\ UNCHANGED <<stream, reader, queue, output, sent>>
        /\ client' = [client EXCEPT !.registered = FALSE]
    BY <1>12 DEF Sdk!Forget, Sdk!subscription, Sdk!process
  <2> QED
    BY <1>0, <2>1 DEF SdkTypes
<1>13. CASE Sdk!Consume
  <2>1. /\ UNCHANGED <<reader, queue, client, output, sent>> /\ stream.channel # <<>>
        /\ stream' = [stream EXCEPT !.channel = Tail(stream.channel)]
    BY <1>13 DEF Sdk!Consume, Sdk!process
  <2>2. Respects(stream, stream')
    BY <1>0, <2>1, Consumes
  <2> QED
    BY <2>1, <2>2 DEF SdkTypes, Respects
<1>14. CASE Sdk!CloseStep \/ Sdk!CloseBegin \/ Sdk!Exit \/ Sdk!Hang
  BY <1>1, <1>14 DEF Sdk!CloseStep, Sdk!CloseInput, Sdk!CloseReturn, Sdk!Kill, Sdk!CloseBegin,
                     Sdk!Exit, Sdk!Hang, Sdk!subscription, Sdk!process, Sdk!clientVars
<1>15. CASE Sdk!Emit
  <2>1. /\ UNCHANGED <<stream, reader, queue, client>> /\ sent' = sent + 1
        /\ output' = Append(output, Sdk!Notification(sent + 1))
    BY <1>15 DEF Sdk!Emit, Sdk!subscription, Sdk!clientVars
  <2> QED
    BY <1>0, <2>1, WritesMessages DEF SdkTypes
<1>16. CASE Sdk!Reap
  <2>1. UNCHANGED <<stream, reader, queue, client, sent>> /\ output' = <<>>
    BY <1>16 DEF Sdk!Reap, Sdk!subscription, Sdk!clientVars
  <2> QED
    BY <1>0, <2>1 DEF SdkTypes
<1> QED
  BY <1>2, <1>3, <1>4, <1>5, <1>6, <1>7, <1>8, <1>9, <1>10, <1>11, <1>12, <1>13, <1>14, <1>15,
     <1>16 DEF Sdk!Next, Sdk!ClientStep

(* Nothing has happened yet (sdk/go/client.go:120-164).                    *)
LEMMA SdkStarts == Sdk!Init => SdkTypes
BY DEF Sdk!Init, SdkTypes, Channels

(* A step of the programs leaves the client's types                        *)
(* (sdk/go/client.go:166-398).                                             *)
LEMMA SdkTypesNext == SdkTypes /\ [Sdk!Next]_(Sdk!sdkVars) => SdkTypes'
<1>1. ASSUME SdkTypes, UNCHANGED Sdk!sdkVars PROVE SdkTypes'
  BY <1>1 DEF SdkTypes, Sdk!sdkVars, Sdk!process, Sdk!clientVars, Sdk!subscription
<1> QED
  BY <1>1, SdkStep

-----------------------------------------------------------------------------
(* The programs.                                                           *)

(* A step of a behavior is a step of each program, or leaves it alone      *)
(* (driver/server.go:119-468, workbench/recording.go:102-308,              *)
(* sdk/go/client.go:166-398, mcpserver/service.go:244-663).                *)
LEMMA StepOfEach ==
  ASSUME [Next]_vars
  PROVE  /\ [Driver!Next]_(Driver!driverVars)
         /\ [Sdk!Next]_(Sdk!sdkVars)
         /\ [Workbench!Next]_(Workbench!workbenchVars)
         /\ [Mcp!Next]_(Mcp!mcpVars)
BY DEF Next, vars, driverVars, sdkVars, workbenchVars, mcpVars, Driver!driverVars, Sdk!sdkVars,
       Sdk!process, Sdk!clientVars, Sdk!subscription, Workbench!workbenchVars, Mcp!mcpVars

(* A behavior begins like each of the programs (driver/server.go:77-115,   *)
(* workbench/recording.go:80-100, mcpserver/service.go:159-190).           *)
LEMMA BeginningOfEach ==
  ASSUME Init
  PROVE  Driver!Init /\ Sdk!Init /\ Workbench!Init /\ Mcp!Init
BY DEF Init

(* Whatever a client of the driver sends and whatever fails, no request is *)
(* answered twice and no notification is answered, and when Run has        *)
(* returned in order, what it took is answered (driver/server.go:119-175,  *)
(* 214-274).                                                               *)
THEOREM RequestsAreAnswered == Spec => []EveryRequestAnswered
<1>1. Init => DriverIInv /\ Tally
  BY BeginningOfEach, DriverIInvInit, TallyInit
<1>2. DriverIInv /\ Tally /\ [Next]_vars => DriverIInv' /\ Tally'
  BY StepOfEach, DriverIInvNext, TallyNext
<1>3. DriverIInv /\ Tally => EveryRequestAnswered
  BY TallyAnswers DEF EveryRequestAnswered
<1> QED
  BY <1>1, <1>2, <1>3, PTL DEF Spec

(* However requests and tool calls that open and close race, what the core *)
(* has open under the driver and under the MCP service can be closed or is *)
(* about to be registered or closed (driver/server.go:317-468,             *)
(* mcpserver/service.go:244-306, 609-663).                                 *)
THEOREM NothingLost == Spec => []NothingUnreachable
<1>1. Init => DriverIInv /\ McpIInv
  BY BeginningOfEach, DriverIInvInit, McpIInvInit
<1>2. DriverIInv /\ McpIInv /\ [Next]_vars => DriverIInv' /\ McpIInv'
  BY StepOfEach, DriverIInvNext, McpIInvNext
<1>3. DriverIInv /\ McpIInv => NothingUnreachable
  BY DEF DriverIInv, McpIInv, Owns, NothingUnreachable
<1> QED
  BY <1>1, <1>2, <1>3, PTL DEF Spec

(* For any number of users, steps and requests of the Workbench, whoever   *)
(* holds control of the session will release it (workbench/recording.go:   *)
(* 102-134, 206-308, driverui/server.go:107-116).                          *)
THEOREM ControlStays == Spec => []ControlIsNotLost
<1>1. Init => WorkbenchIInv
  BY BeginningOfEach, WorkbenchIInvInit
<1>2. WorkbenchIInv /\ [Next]_vars => WorkbenchIInv'
  BY StepOfEach, WorkbenchIInvNext
<1>3. WorkbenchIInv => ControlIsNotLost
  BY DEF WorkbenchIInv, Tracked, Workbench!ControlIsNotLost, ControlIsNotLost
<1> QED
  BY <1>1, <1>2, <1>3, PTL DEF Spec

(* Whatever is recorded was done, in the Workbench and in the MCP service, *)
(* for any number of users, requests and tool calls: in the order in which *)
(* it was done, and by a replay again, where the session has one holder    *)
(* (workbench/recording.go:138-203, 259-308), and once, on its session,    *)
(* where tools are called concurrently (mcpserver/service.go:524-663).     *)
THEOREM WhatIsRecordedWasDone == Spec => []RecordingsAreTrue
<1>1. Init => WorkbenchIInv /\ TraceHolds /\ McpIInv
  BY BeginningOfEach, WorkbenchIInvInit, TraceInit, McpIInvInit
<1>2. WorkbenchIInv /\ TraceHolds /\ McpIInv /\ [Next]_vars =>
        WorkbenchIInv' /\ TraceHolds' /\ McpIInv'
  BY StepOfEach, WorkbenchIInvNext, TraceNext, McpIInvNext
<1>3. TraceHolds /\ McpIInv => RecordingsAreTrue
  BY DEF TraceHolds, McpIInv, RecordingsAreTrue
<1> QED
  BY <1>1, <1>2, <1>3, PTL DEF Spec

(* Nothing is sent to a subscription's channel that was closed, by         *)
(* whichever of the reader, the subscriber, the failure and Close came     *)
(* first, for any number of calls, events and capacities                   *)
(* (sdk/go/session.go:168-208, sdk/go/client.go:244-270, 318-336).         *)
THEOREM ClosedStaysClosed == Spec => ClosedIsFinal
<1>1. Init => SdkTypes
  BY BeginningOfEach, SdkStarts
<1>2. SdkTypes /\ [Next]_vars => SdkTypes'
  BY StepOfEach, SdkTypesNext
<1>3. SdkTypes /\ [Next]_vars => [Sdk!NothingAfterClose]_sdkVars
  <2>1. ASSUME SdkTypes, Sdk!Next PROVE Sdk!NothingAfterClose
    BY <2>1, SdkStep DEF Respects, Sdk!NothingAfterClose
  <2>2. ASSUME UNCHANGED Sdk!sdkVars PROVE UNCHANGED sdkVars
    BY <2>2 DEF sdkVars, Sdk!sdkVars, Sdk!process, Sdk!clientVars, Sdk!subscription
  <2> QED
    BY <2>1, <2>2, StepOfEach
<1> QED
  BY <1>1, <1>2, <1>3, PTL DEF Spec, ClosedIsFinal

=============================================================================
