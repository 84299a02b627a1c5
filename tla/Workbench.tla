------------------------------ MODULE Workbench ------------------------------
(***************************************************************************)
(* The Workbench of workbench/recording.go behind the Inspector's handlers *)
(* of driverui: several users start, extend, stop and replay the recording *)
(* of one session, each holding the session's exclusive control while it   *)
(* does.  Control is what the Control module shows of it: one holder at a  *)
(* time, and gone when the session is closed.                              *)
(***************************************************************************)
EXTENDS Naturals, Sequences

CONSTANTS
  Users,      \* the goroutines of the Inspector's HTTP server
  Steps,      \* the steps a user records: "assert" sends nothing
  MaxCalls    \* bound: how many requests are made

VARIABLES
  session,    \* the driver's session: open, and the control that holds it
  entry,      \* Manager.states' entry: whether it exists and its fields
  lock,       \* recordingState.mu: who holds it across a send
  user,       \* each user's request: its step, its control, its trace
  inspector,  \* the Inspector's shutdown
  grants,     \* how many controls were handed out
  calls,      \* how many requests were made
  input       \* history: what reached the session, by which control

workbenchVars == <<session, entry, lock, user, inspector, grants, calls, input>>

Idle == [at |-> "idle", control |-> 0, step |-> "none", trace |-> <<>>, next |-> 1]
NoOne == "no one"

Init ==
  /\ session = [open |-> TRUE, holder |-> 0]
  /\ entry = [exists |-> FALSE, active |-> FALSE, control |-> 0, steps |-> <<>>, owner |-> 0]
  /\ lock = NoOne
  /\ user = [u \in Users |-> Idle]
  /\ inspector = "serving"
  /\ grants = 0
  /\ calls = 0
  /\ input = <<>>

Moves(u, fields) == user' = [user EXCEPT ![u] = fields]
Done(u) == Moves(u, Idle)

(* A request comes in; without an entry only Start goes on. *)
Begin(u) ==
  /\ inspector = "serving" /\ user[u] = Idle /\ calls < MaxCalls
  /\ calls' = calls + 1
  /\ \/ Moves(u, [Idle EXCEPT !.at = "start"])
     \/ entry.exists /\ \E at \in {"stop", "replay"} : Moves(u, [Idle EXCEPT !.at = at])
     \/ entry.exists /\ \E s \in Steps : Moves(u, [Idle EXCEPT !.at = "record", !.step = s])
  /\ UNCHANGED <<session, entry, lock, inspector, grants, input>>

(* SessionControl: acquired by one at a time, released once. *)
Available == session.open /\ session.holder = 0
Acquire(u, at) ==
  /\ grants' = grants + 1
  /\ session' = [session EXCEPT !.holder = grants + 1]
  /\ Moves(u, [user[u] EXCEPT !.at = at, !.control = grants + 1])

(* mutant: Release is forgotten *)
NotReleased(control) == session

Released(control) ==
  [session EXCEPT !.holder = IF @ = control THEN 0 ELSE @]

Release(u) ==
  /\ user[u].at = "release"
  /\ session' = Released(user[u].control)
  /\ Done(u)
  /\ UNCHANGED <<entry, lock, inspector, grants, calls, input>>

(* Start: control first, then the entry under its lock. *)
StartAcquire(u) ==
  /\ user[u].at = "start"
  /\ IF Available THEN Acquire(u, "install") ELSE Done(u) /\ UNCHANGED <<session, grants>>
  /\ UNCHANGED <<entry, lock, inspector, calls, input>>

StartInstall(u) ==
  /\ user[u].at = "install" /\ lock = NoOne
  /\ IF entry.active
     THEN Moves(u, [user[u] EXCEPT !.at = "release"]) /\ UNCHANGED entry
     ELSE /\ entry' = [exists |-> TRUE, active |-> TRUE, control |-> user[u].control,
                       steps |-> <<>>, owner |-> user[u].control]
          /\ Done(u)
  /\ UNCHANGED <<session, lock, inspector, grants, calls, input>>

(* Type, Press and AssertText: the lock is held across the send.  An       *)
(* assertion only reads the screen, whoever holds the control.             *)
RecordLock(u) ==
  /\ user[u].at = "record" /\ lock = NoOne
  /\ IF entry.active THEN lock' = u /\ Moves(u, [user[u] EXCEPT !.at = "send"])
     ELSE Done(u) /\ UNCHANGED lock
  /\ UNCHANGED <<session, entry, inspector, grants, calls, input>>

Sends(step) == step # "assert"
Accepted(control) == session.open /\ session.holder = control
Sent(control, step) ==
  IF Sends(step) THEN Append(input, [control |-> control, step |-> step]) ELSE input

Recorded(step, sent) == IF sent THEN Append(entry.steps, step) ELSE entry.steps

Unlocked(sent) == NoOne

RecordStep(u) ==
  /\ user[u].at = "send"
  /\ \E sent \in {~Sends(user[u].step) \/ Accepted(entry.control), FALSE} :
       /\ input' = IF sent THEN Sent(entry.control, user[u].step) ELSE input
       /\ entry' = [entry EXCEPT !.steps = Recorded(user[u].step, sent)]
       /\ lock' = Unlocked(sent)
  /\ Done(u)
  /\ UNCHANGED <<session, inspector, grants, calls>>

(* Stop, and Close for the entry it finds: released after the lock. *)
Stop(u) ==
  /\ user[u].at = "stop" /\ lock = NoOne
  /\ IF entry.active
     THEN /\ entry' = [entry EXCEPT !.active = FALSE, !.control = 0]
          /\ Moves(u, [user[u] EXCEPT !.at = "release", !.control = entry.control])
     ELSE Done(u) /\ UNCHANGED entry
  /\ UNCHANGED <<session, lock, inspector, grants, calls, input>>

(* Replay: the trace is copied, then the control acquired.  A step that    *)
(* fails (or whose parameter is missing) ends the replay.                  *)
ReplayCopy(u) ==
  /\ user[u].at = "replay" /\ lock = NoOne
  /\ IF entry.active THEN Done(u)
     ELSE Moves(u, [user[u] EXCEPT !.at = "replay acquire", !.trace = entry.steps])
  /\ UNCHANGED <<session, entry, lock, inspector, grants, calls, input>>

ReplayAcquire(u) ==
  /\ user[u].at = "replay acquire"
  /\ IF Available THEN Acquire(u, "replaying") ELSE Done(u) /\ UNCHANGED <<session, grants>>
  /\ UNCHANGED <<entry, lock, inspector, calls, input>>

ReplayStep(u) ==
  LET r == user[u] IN
  /\ r.at = "replaying"
  /\ \/ /\ r.next <= Len(r.trace) /\ Accepted(r.control)
        /\ input' = Sent(r.control, r.trace[r.next])
        /\ Moves(u, [r EXCEPT !.next = @ + 1])
     \/ /\ Moves(u, [r EXCEPT !.at = "release"])
        /\ UNCHANGED input
  /\ UNCHANGED <<session, entry, lock, inspector, grants, calls>>

(* The driver closes the session and forgets who controls it. *)
SessionCloses ==
  /\ session.open
  /\ session' = [open |-> FALSE, holder |-> 0]
  /\ UNCHANGED <<entry, lock, user, inspector, grants, calls, input>>

(* Server.Shutdown: the handlers are awaited for a time, then the          *)
(* recordings are closed.                                                  *)
ShutdownBegin ==
  /\ inspector = "serving"
  /\ inspector' = "waiting"
  /\ UNCHANGED <<session, entry, lock, user, grants, calls, input>>

Drained == \A u \in Users : user[u] = Idle

ManagerClose ==
  /\ \/ inspector = "waiting" /\ Drained
     \/ inspector = "late"
  /\ lock = NoOne
  /\ entry' = [entry EXCEPT !.active = FALSE, !.control = 0]
  /\ session' = IF entry.active THEN Released(entry.control) ELSE session
  /\ inspector' = IF inspector = "late" THEN "down late" ELSE "down"
  /\ UNCHANGED <<lock, user, grants, calls, input>>

ShutdownTimesOut ==
  /\ inspector = "waiting" /\ ~Drained
  /\ inspector' = "late"
  /\ UNCHANGED <<session, entry, lock, user, grants, calls, input>>

UserStep(u) ==
  \/ Release(u) \/ StartAcquire(u) \/ StartInstall(u) \/ RecordLock(u) \/ RecordStep(u)
  \/ Stop(u) \/ ReplayCopy(u) \/ ReplayAcquire(u) \/ ReplayStep(u)

Next ==
  \/ \E u \in Users : Begin(u) \/ UserStep(u)
  \/ SessionCloses \/ ShutdownBegin \/ ManagerClose \/ ShutdownTimesOut

(* Handlers run and their sends return.                                    *)
Fairness ==
  (\A u \in Users : WF_workbenchVars(UserStep(u))) /\ WF_workbenchVars(ManagerClose)

Spec == Init /\ [][Next]_workbenchVars /\ Fairness

----------------------------------------------------------------------------
(* Those of the things in s that are chosen, in their order. *)
Chosen(s, choice) ==
  LET upTo[n \in 0..Len(s)] ==
        IF n = 0 THEN <<>>
        ELSE IF s[n] \in choice THEN Append(upTo[n - 1], s[n]) ELSE upTo[n - 1]
  IN  upTo[Len(s)]

Sending(steps) == Chosen(steps, {s \in Steps : Sends(s)})
StepsOf(inputs) == [k \in DOMAIN inputs |-> inputs[k].step]
SentBy(control) == StepsOf(Chosen(input, [control : {control}, step : Steps]))

(* The recording is a replay of what was done: the steps that send are     *)
(* those that reached the session under the recording's control, in the    *)
(* order they reached it, although several users record at once; and a     *)
(* replay sends a prefix of its trace (workbench/recording.go:138-203,     *)
(* 259-308).                                                               *)
TraceIsWhatWasSent ==
  /\ Sending(entry.steps) = SentBy(entry.owner) \/ entry.owner = 0
  /\ \A u \in Users : user[u].at = "replaying" =>
       SentBy(user[u].control) = Sending(SubSeq(user[u].trace, 1, user[u].next - 1))

(* Control is never lost: whoever holds it is a recording that can be      *)
(* stopped or a request that will release it, and none is left when the    *)
(* Inspector has drained its handlers (workbench/recording.go:102-134,     *)
(* 206-308, driverui/server.go:107-116).                                   *)
ControlIsNotLost ==
  /\ session.holder # 0 =>
       \/ entry.active /\ entry.control = session.holder
       \/ \E u \in Users : user[u].control = session.holder
  /\ inspector = "down" => session.holder = 0

(* Every request ends and the Inspector goes down: no lock is held by one  *)
(* who waits for another (workbench/recording.go:102-308,                  *)
(* driverui/server.go:107-116).                                            *)
ShutdownEnds == (inspector # "serving") ~> (inspector \in {"down", "down late"})
=============================================================================
