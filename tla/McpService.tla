----------------------------- MODULE McpService -----------------------------
(***************************************************************************)
(* The service of the MCP server, mcpserver/service.go: tools are called   *)
(* concurrently, and a call looks its connection or session up under the   *)
(* lock, works on it without the lock, and takes the lock again for what   *)
(* it leaves behind: a registered object, a recorded step, the failure of  *)
(* a wait.  The core is what Lifecycle shows of it.  Objects and pieces of *)
(* work are numbered in the order they come about.                         *)
(***************************************************************************)
EXTENDS Naturals, Sequences, FiniteSets, SequencesExt

CONSTANTS
  Callers,    \* the goroutines that serve tool calls
  MaxCalls    \* bound: how many calls are made

VARIABLES
  service,    \* closed, connections, sessions (id -> connection), recordings
              \* (session -> steps), failures (session -> step)
  core,       \* the open connections and sessions, and whether it is closing
  call,       \* each caller's call: its step, what it is about, what it did
  made,       \* how many calls were made
  done        \* history: the work done on each session, in order

mcpVars == <<service, core, call, made, done>>

Idle == [at |-> "idle", method |-> "none", about |-> 0, own |-> 0]
Looked == {"connect", "open session", "input", "wait"}
Methods == Looked \cup {"start", "stop", "close session", "close connection", "close"}

Init ==
  /\ service = [closed |-> FALSE, connections |-> {}, sessions |-> <<>>, recordings |-> <<>>,
                failures |-> <<>>]
  /\ core = [connections |-> {}, sessions |-> {}, closing |-> FALSE]
  /\ call = [c \in Callers |-> Idle]
  /\ made = 0
  /\ done = <<>>

Goes(c, fields) == call' = [call EXCEPT ![c] = fields]
Ends(c) == Goes(c, Idle)
To(c, at) == Goes(c, [call[c] EXCEPT !.at = at])
Without(f, gone) == [n \in DOMAIN f \ gone |-> f[n]]
With(f, n, value) == [m \in DOMAIN f \cup {n} |-> IF m = n THEN value ELSE f[m]]
Sessions == DOMAIN service.sessions

(* What a call is about is an object that some call opened, perhaps one    *)
(* that is gone; a step of its own number stands for an object it opens    *)
(* and for a piece of work it does.                                        *)
Begin(c) ==
  /\ call[c] = Idle /\ made < MaxCalls
  /\ made' = made + 1
  /\ \E method \in Methods, about \in 0..made :
       /\ method \in {"connect", "close"} => about = 0
       /\ Goes(c, [at |-> "look", method |-> method, about |-> about, own |-> made + 1])
  /\ UNCHANGED <<service, core, done>>

(* findSession, and the lookups of Connect and OpenSession. *)
Found(k) ==
  CASE k.method = "connect" -> TRUE
    [] k.method = "open session" -> k.about \in service.connections
    [] OTHER -> k.about \in Sessions

Look(c) ==
  /\ call[c].at = "look" /\ call[c].method \in Looked
  /\ IF Found(call[c]) /\ ~service.closed THEN To(c, "work") ELSE Ends(c)
  /\ UNCHANGED <<service, core, made, done>>

(* Server.Connect and Connection.NewSession. *)
CoreOpens(k) ==
  IF k.method = "connect" THEN [core EXCEPT !.connections = @ \cup {k.own}]
  ELSE [core EXCEPT !.sessions = @ \cup {[id |-> k.own, on |-> k.about]}]

Open(c) ==
  /\ call[c].at = "work" /\ call[c].method \in {"connect", "open session"}
  /\ \/ /\ IF call[c].method = "connect" THEN ~core.closing
           ELSE call[c].about \in core.connections
        /\ core' = CoreOpens(call[c])
        /\ To(c, "register")
     \/ Ends(c) /\ UNCHANGED core
  /\ UNCHANGED <<service, made, done>>

StillOpen(k) ==
  ~service.closed /\ (k.method = "connect" \/ k.about \in service.connections)

Register(c) ==
  LET k == call[c] IN
  /\ k.at = "register"
  /\ IF StillOpen(k)
     THEN /\ service' = IF k.method = "connect"
                        THEN [service EXCEPT !.connections = @ \cup {k.own}]
                        ELSE [service EXCEPT !.sessions = With(@, k.own, k.about)]
          /\ Ends(c)
     ELSE To(c, "shut") /\ UNCHANGED service
  /\ UNCHANGED <<core, made, done>>

(* Close of a core object, after the lock was released. *)
Closed(id) ==
  [core EXCEPT !.connections = @ \ {id}, !.sessions = {s \in @ : s.id # id /\ s.on # id}]

Shut(c) ==
  /\ call[c].at = "shut"
  /\ core' = Closed(call[c].own)
  /\ Ends(c)
  /\ UNCHANGED <<service, made, done>>

(* Type, Press and the waits: the work, and then what is left of it. *)
Alive(id) == \E s \in core.sessions : s.id = id

Work(c) ==
  /\ call[c].at = "work" /\ call[c].method \in {"input", "wait"}
  /\ \/ /\ Alive(call[c].about) \/ call[c].method = "wait"
        /\ done' = Append(done, [on |-> call[c].about, step |-> call[c].own])
        /\ To(c, "record")
     \/ /\ UNCHANGED done
        /\ IF call[c].method = "wait" THEN To(c, "remember") ELSE Ends(c)
  /\ UNCHANGED <<service, core, made>>

Recorded(session, step) ==
  IF session \in DOMAIN service.recordings
  THEN [service EXCEPT !.recordings[session] = Append(@, step)] ELSE service

Record(c) ==
  /\ call[c].at = "record"
  /\ service' = Recorded(call[c].about, call[c].own)
  /\ Ends(c)
  /\ UNCHANGED <<core, made, done>>

RememberFailure(c) ==
  /\ call[c].at = "remember"
  /\ service' = IF call[c].about \in Sessions
                THEN [service EXCEPT !.failures = With(@, call[c].about, call[c].own)] ELSE service
  /\ Ends(c)
  /\ UNCHANGED <<core, made, done>>

(* StartRecording and StopRecording *)
Start(c) ==
  LET s == call[c].about IN
  /\ call[c].at = "look" /\ call[c].method = "start"
  /\ IF ~service.closed /\ s \in Sessions \ DOMAIN service.recordings
     THEN service' = [service EXCEPT !.recordings = With(@, s, <<>>)]
     ELSE UNCHANGED service
  /\ Ends(c)
  /\ UNCHANGED <<core, made, done>>

Stop(c) ==
  /\ call[c].at = "look" /\ call[c].method = "stop"
  /\ service' = [service EXCEPT !.recordings = Without(@, {call[c].about})]
  /\ Ends(c)
  /\ UNCHANGED <<core, made, done>>

(* CloseSession and CloseConnection: what is registered goes at once. *)
(* mutant: the recording outlives its session *)
KeepingRecordings(gone) ==
  [service EXCEPT !.sessions = Without(@, gone), !.failures = Without(@, gone)]

Forgetting(gone) ==
  [service EXCEPT !.sessions = Without(@, gone), !.failures = Without(@, gone),
                  !.recordings = Without(@, gone)]

Close(c) ==
  LET k == call[c]
      onIt == {s \in Sessions : service.sessions[s] = k.about}
  IN
  /\ k.at = "look"
  /\ \/ /\ k.method = "close session" /\ k.about \in Sessions
        /\ service' = Forgetting({k.about})
        /\ Goes(c, [k EXCEPT !.at = "shut", !.own = k.about])
     \/ /\ k.method = "close connection" /\ k.about \in service.connections
        /\ service' = [Forgetting(onIt) EXCEPT !.connections = @ \ {k.about}]
        /\ Goes(c, [k EXCEPT !.at = "shut", !.own = k.about])
     \/ /\ \/ k.method = "close session" /\ k.about \notin Sessions
           \/ k.method = "close connection" /\ k.about \notin service.connections
        /\ UNCHANGED service
        /\ Ends(c)
  /\ UNCHANGED <<core, made, done>>

(* Service.Close: closeOnce makes later callers wait for the first. *)
Closing == \E c \in Callers : call[c].at \in {"core", "core closing"}

CloseService(c) ==
  /\ call[c].at = "look" /\ call[c].method = "close"
  /\ \/ /\ ~service.closed
        /\ service' = [Forgetting(Sessions) EXCEPT !.closed = TRUE, !.connections = {}]
        /\ To(c, "core")
     \/ /\ service.closed /\ ~Closing
        /\ Ends(c)
        /\ UNCHANGED service
  /\ UNCHANGED <<core, made, done>>

(* Server.Close: first nothing can be connected, then all is closed. *)
CoreCloseBegins(c) ==
  /\ call[c].at = "core"
  /\ core' = [core EXCEPT !.closing = TRUE]
  /\ To(c, "core closing")
  /\ UNCHANGED <<service, made, done>>

CoreCloses(c) ==
  /\ call[c].at = "core closing"
  /\ core' = [core EXCEPT !.connections = {}, !.sessions = {}]
  /\ Ends(c)
  /\ UNCHANGED <<service, made, done>>

CallStep(c) ==
  \/ Look(c) \/ Open(c) \/ Register(c) \/ Shut(c) \/ Work(c) \/ Record(c) \/ RememberFailure(c)
  \/ Start(c) \/ Stop(c) \/ Close(c) \/ CloseService(c)
  \/ CoreCloseBegins(c) \/ CoreCloses(c)

Next == \E c \in Callers : Begin(c) \/ CallStep(c)

Spec == Init /\ [][Next]_mcpVars

----------------------------------------------------------------------------
HeldBy(id) ==
  \E c \in Callers : call[c].own = id /\ call[c].at \in {"register", "shut"}

(* Tools that open and close the same connection race with each other and  *)
(* with the end of the server: what the core has open is registered, or a  *)
(* call is about to register or close it, and nothing is open any more     *)
(* when the service has closed (mcpserver/service.go:244-306, 609-663).    *)
ServiceOwnsAll ==
  /\ \A s \in Sessions : service.sessions[s] \in service.connections
  /\ \A id \in core.connections : id \in service.connections \/ HeldBy(id) \/ service.closed
  /\ \A s \in core.sessions :
       s.id \in Sessions \/ HeldBy(s.id) \/ HeldBy(s.on) \/ service.closed
  /\ service.closed /\ ~Closing => core.connections = {} /\ core.sessions = {}

(* Design/mcp.md:183-196: a recording is of successful operations; closing *)
(* its session discards it. So each of its steps was done on its session,  *)
(* once, and a recording has a registered session                          *)
(* (mcpserver/service.go:524-663).                                         *)
RecordingsAreTrue ==
  \A s \in DOMAIN service.recordings :
    LET steps == service.recordings[s] IN
    /\ s \in Sessions
    /\ IsInjective(steps)
    /\ \A i \in DOMAIN steps : \E d \in DOMAIN done : done[d] = [on |-> s, step |-> steps[i]]

(* Does not hold. Design/mcp.md:183-190: a recording captures a session's  *)
(* operations as a trace for a test. Its steps are in the order they were  *)
(* done; but a step is recorded after it was done and without the          *)
(* session's lock, so two steps of concurrent calls may change places      *)
(* (mcpserver/service.go:524-554, 600-606).                                *)
RecordedInOrder ==
  \A s \in DOMAIN service.recordings :
    LET steps == service.recordings[s]
        When(step) == CHOOSE d \in DOMAIN done : done[d].step = step
    IN  \A i, j \in DOMAIN steps : i < j => When(steps[i]) < When(steps[j])
=============================================================================
