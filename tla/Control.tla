------------------------------- MODULE Control -------------------------------
(***************************************************************************)
(* Exclusive control of one registered session of the driver               *)
(* (driver/control.go), against the requests of JSON-RPC clients that      *)
(* mutate the session (getSessionForMutation, driver/server.go), against   *)
(* the close of the session, and against the close of the driver.          *)
(*                                                                         *)
(* Two mutexes are held across steps, the session's controlGate and the    *)
(* RWMutex of a control; neither is a variable, the pcs of their owners    *)
(* tell.  The driver's own mutex is never held across a call of the        *)
(* session: what happens under it is one step.                             *)
(***************************************************************************)
EXTENDS Naturals, FiniteSets

CONSTANTS
  Clients,      \* requests to send, press or resize
  Controls,     \* calls of AcquireSessionControl and the controls they return
  Operations,   \* calls of Send, Press and WaitFor of a control
  Releases,     \* calls of Release of a control
  None          \* no control

ASSUME ControlAssumption == None \notin Controls

VARIABLES
  driver,      \* registered: sessions[id] exists; controller: controls[id];
               \* closed
  running,     \* the session itself has not been closed
  client,      \* where each mutating request is
  control,     \* where each call of AcquireSessionControl is
  operation,   \* each operation, and its control
  once,        \* how far the body of each control's Release has come
  release      \* each call of Release, and its control

vars == <<driver, running, client, control, operation, once, release>>

Init ==
  /\ driver = [registered |-> TRUE, controller |-> None, closed |-> FALSE]
  /\ running = TRUE
  /\ client = [k \in Clients |-> "idle"]
  /\ control = [c \in Controls |-> "idle"]
  /\ operation = [o \in Operations |-> [pc |-> "idle", control |-> None]]
  /\ once = [c \in Controls |-> "new"]
  /\ release = [r \in Releases |-> [pc |-> "idle", control |-> None]]

(* Who holds controlGate. *)
GateFree ==
  /\ \A k \in Clients : client[k] \notin {"check", "mutating"}
  /\ \A c \in Controls : control[c] # "check" /\ once[c] # "delete"

(* Who holds c.mu for reading.  Go lets no new reader in while a writer    *)
(* holds the mutex or waits for it.                                        *)
ReadingRefused(o) == operation[o].pc \in {"check", "operating", "refused"}   \* mutant: no unlock
Reading(o) == operation[o].pc \in {"check", "operating"}
Readers(c) == {o \in Operations : Reading(o) /\ operation[o].control = c}
Readable(c) == once[c] \in {"new", "done"}

-----------------------------------------------------------------------------
(* session.send, session.press and session.resize.                         *)

ClientFrame == UNCHANGED <<driver, running, control, operation, once, release>>

ClientBegin(k) ==
  /\ client[k] = "idle"
  /\ client' = [client EXCEPT ![k] = IF driver.registered THEN "gate" ELSE "refused"]
  /\ ClientFrame

ClientLock(k) ==
  /\ client[k] = "gate" /\ GateFree
  /\ client' = [client EXCEPT ![k] = "check"]
  /\ ClientFrame

Allowed == driver.registered /\ driver.controller = None

(* The session and its control are looked up again under the gate. *)
ClientCheck(k) ==
  /\ client[k] = "check"
  /\ client' = [client EXCEPT ![k] = IF Allowed THEN "mutating" ELSE "refused"]
  /\ ClientFrame

(* The call of the session returns, and the gate is unlocked. *)
ClientEnd(k) ==
  /\ client[k] = "mutating"
  /\ client' = [client EXCEPT ![k] = "answered"]
  /\ ClientFrame

-----------------------------------------------------------------------------
(* AcquireSessionControl.                                                  *)

AcquireBegin(c) ==
  /\ control[c] = "idle"
  /\ control' = [control EXCEPT ![c] = IF driver.registered THEN "gate" ELSE "refused"]
  /\ UNCHANGED <<driver, running, client, operation, once, release>>

AcquireUnlocked(c) ==   \* mutant: control is acquired without the gate
  /\ control[c] = "gate"
  /\ control' = [control EXCEPT ![c] = "check"]
  /\ UNCHANGED <<driver, running, client, operation, once, release>>

AcquireLock(c) ==
  /\ control[c] = "gate" /\ GateFree
  /\ control' = [control EXCEPT ![c] = "check"]
  /\ UNCHANGED <<driver, running, client, operation, once, release>>

(* Refused when the session is gone or has a controller. *)
AcquireCheck(c) ==
  /\ control[c] = "check"
  /\ \/ /\ Allowed
        /\ driver' = [driver EXCEPT !.controller = c]
        /\ control' = [control EXCEPT ![c] = "granted"]
     \/ /\ ~Allowed
        /\ control' = [control EXCEPT ![c] = "refused"]
        /\ UNCHANGED driver
  /\ UNCHANGED <<running, client, operation, once, release>>

-----------------------------------------------------------------------------
(* Send, Press and WaitFor of a control.                                   *)

OperationFrame == UNCHANGED <<driver, running, client, control, once, release>>

OperationBegin(o, c) ==
  /\ operation[o].pc = "idle" /\ control[c] = "granted" /\ Readable(c)
  /\ operation' = [operation EXCEPT ![o] = [pc |-> "check", control |-> c]]
  /\ OperationFrame

Active(o) == driver.controller = operation[o].control

OperationCheck(o) ==
  /\ operation[o].pc = "check"
  /\ operation' = [operation EXCEPT ![o].pc = IF Active(o) THEN "operating" ELSE "refused"]
  /\ OperationFrame

(* The call of the session returns, and the control's mutex is unlocked. *)
OperationEnd(o) ==
  /\ operation[o].pc = "operating"
  /\ operation' = [operation EXCEPT ![o].pc = "returned"]
  /\ OperationFrame

-----------------------------------------------------------------------------
(* Release.  The first caller runs the body of once, the others wait.      *)

ReleaseFrame == UNCHANGED <<running, client, control, operation>>

ReleaseBegin(r, c) ==
  /\ release[r].pc = "idle" /\ control[c] = "granted"
  /\ release' = [release EXCEPT ![r] = [pc      |-> IF once[c] = "new" THEN "running"
                                                                       ELSE "joining",
                                        control |-> c]]
  /\ once' = [once EXCEPT ![c] = IF @ = "new" THEN "readers" ELSE @]
  /\ UNCHANGED driver /\ ReleaseFrame

NoneReading(c) == TRUE   \* mutant: operations under way are not waited for
NoReaders(c) == Readers(c) = {}

(* Lock the control: its operations have returned. *)
ReleaseLock(c) ==
  /\ once[c] = "readers" /\ NoReaders(c)
  /\ once' = [once EXCEPT ![c] = "gate"]
  /\ UNCHANGED <<driver, release>> /\ ReleaseFrame

ReleaseGate(c) ==
  /\ once[c] = "gate" /\ GateFree
  /\ once' = [once EXCEPT ![c] = "delete"]
  /\ UNCHANGED <<driver, release>> /\ ReleaseFrame

DeleteAnyway(c) == None   \* mutant: a control of somebody else is deleted
Remaining(c) == IF driver.controller = c THEN None ELSE driver.controller

ReleaseDelete(c) ==
  /\ once[c] = "delete"
  /\ driver' = [driver EXCEPT !.controller = Remaining(c)]
  /\ once' = [once EXCEPT ![c] = "done"]
  /\ UNCHANGED release /\ ReleaseFrame

ReleaseReturn(r) ==
  /\ release[r].pc \in {"running", "joining"} /\ once[release[r].control] = "done"
  /\ release' = [release EXCEPT ![r].pc = "returned"]
  /\ UNCHANGED <<driver, once>> /\ ReleaseFrame

-----------------------------------------------------------------------------
(* Closing.                                                                *)

CloseFrame == UNCHANGED <<client, control, operation, once, release>>

(* session.close, or connection.close of the session's connection: the     *)
(* session and its control are forgotten, without the gate.                *)
CloseSession ==
  /\ driver.registered
  /\ driver' = [driver EXCEPT !.registered = FALSE, !.controller = None]
  /\ UNCHANGED running /\ CloseFrame

(* Server.Close of the driver forgets the controls; the sessions stay      *)
(* registered.                                                             *)
CloseDriver ==
  /\ ~driver.closed
  /\ driver' = [driver EXCEPT !.closed = TRUE, !.controller = None]
  /\ UNCHANGED running /\ CloseFrame

(* The session ends: Session.Close, or the host. *)
EndSession ==
  /\ running
  /\ running' = FALSE
  /\ UNCHANGED driver /\ CloseFrame

-----------------------------------------------------------------------------
ReleaseNext(c) == ReleaseLock(c) \/ ReleaseGate(c) \/ ReleaseDelete(c)

Next ==
  \/ \E k \in Clients : ClientBegin(k) \/ ClientLock(k) \/ ClientCheck(k) \/ ClientEnd(k)
  \/ \E c \in Controls : \/ AcquireBegin(c) \/ AcquireLock(c) \/ AcquireCheck(c)
                         \/ ReleaseNext(c)
                         \/ \E o \in Operations : OperationBegin(o, c)
                         \/ \E r \in Releases : ReleaseBegin(r, c)
  \/ \E o \in Operations : OperationCheck(o) \/ OperationEnd(o)
  \/ \E r \in Releases : ReleaseReturn(r)
  \/ CloseSession \/ CloseDriver \/ EndSession

Spec == Init /\ [][Next]_vars

(* Fairness.  Goroutines run, a mutex that is free again and again is      *)
(* given to each goroutine that waits for it (sync.Mutex is not starved),  *)
(* and what closes a session goes on to end it.  A call of the session may *)
(* block for ever while the session runs, and returns when it has ended.   *)
FairSpec ==
  /\ Spec
  /\ WF_vars(~driver.registered /\ EndSession) /\ WF_vars(driver.closed /\ EndSession)
  /\ \A k \in Clients : /\ SF_vars(ClientLock(k)) /\ WF_vars(ClientCheck(k))
                        /\ WF_vars(~running /\ ClientEnd(k))
  /\ \A c \in Controls : /\ SF_vars(AcquireLock(c)) /\ WF_vars(AcquireCheck(c))
                         /\ WF_vars(ReleaseLock(c)) /\ SF_vars(ReleaseGate(c))
                         /\ WF_vars(ReleaseDelete(c))
  /\ \A o \in Operations : WF_vars(OperationCheck(o)) /\ WF_vars(~running /\ OperationEnd(o))
  /\ \A r \in Releases : WF_vars(ReleaseReturn(r))
=============================================================================
