---------------------------- MODULE ControlProofs ----------------------------
(***************************************************************************)
(* Exclusive control keeps everybody else out, for any number of requests, *)
(* controls, operations and releases.                                      *)
(*                                                                         *)
(* The two locks each carry one fact.  The gate: while a control is being  *)
(* granted no request is past the gate, so the grant finds nobody at work. *)
(* The control's mutex: while a Release is past it nobody operates, so the *)
(* control that is deleted is in nobody's use.                             *)
(***************************************************************************)
EXTENDS ControlProperties, TLAPS

(* While a control is being granted no request is past the gate            *)
(* (driver/control.go:30-31, driver/server.go:914).                        *)
GateKeepsOut ==
  \A c \in Controls :
    control[c] = "check" => \A k \in Clients : client[k] \notin {"check", "mutating"}

(* A control that operates is the session's, unless one of the closes has  *)
(* taken it away, and only a registered session has a control              *)
(* (driver/control.go:106-110, driver/server.go:455-459).                  *)
OperatesWhileHeld ==
  /\ driver.controller # None => driver.registered
  /\ \A o \in Operations :
       /\ Reading(o) => operation[o].control \in Controls
       /\ Operating(o) => \/ driver.controller = operation[o].control
                          \/ ~driver.registered \/ driver.closed

(* A Release past the control's mutex has no operation beside it, and none *)
(* starts after it (driver/control.go:93-101).                             *)
ReleaseWaits ==
  /\ \A c \in Controls :
       /\ once[c] \in {"gate", "delete"} =>
            \A o \in Operations : Reading(o) => operation[o].control # c
       /\ once[c] = "done" => /\ driver.controller # c
                              /\ \A o \in Operations : Operating(o) => operation[o].control # c
  /\ \A r \in Releases :
       release[r].pc # "idle" => release[r].control \in Controls /\ once[release[r].control] # "new"
  /\ \A r \in Releases : release[r].pc = "returned" => once[release[r].control] = "done"

IInv == TypeOK /\ GateKeepsOut /\ OperatesWhileHeld /\ ReleaseWaits /\ ExclusiveInput

(* Nobody has called anything (driver/server.go:100-115).                  *)
LEMMA InitHolds == Init => IInv
  BY ControlAssumption
  DEF Init, IInv, TypeOK, DriverType, ClientType, ControlType, OperationType, OnceType,
      ReleaseType, GateKeepsOut, OperatesWhileHeld, ReleaseWaits, ExclusiveInput, OperatesAlone,
      Reading, Operating, Mutating

(* Every step keeps the types (driver/control.go, driver/server.go).       *)
LEMMA NextTyped == TypeOK /\ [Next]_vars => TypeOK'
<1> SUFFICES ASSUME TypeOK, [Next]_vars PROVE TypeOK'
  OBVIOUS
<1> USE DEF TypeOK, DriverType, ClientType, ControlType, OperationType, OnceType, ReleaseType
<1>1. ASSUME NEW k \in Clients, ClientBegin(k) \/ ClientLock(k) \/ ClientCheck(k) \/ ClientEnd(k)
      PROVE TypeOK'
  BY <1>1 DEF ClientBegin, ClientLock, ClientCheck, ClientEnd, ClientFrame
<1>2. ASSUME NEW c \in Controls, AcquireBegin(c) \/ AcquireLock(c) \/ AcquireCheck(c)
      PROVE TypeOK'
  BY <1>2 DEF AcquireBegin, AcquireLock, AcquireCheck, Allowed
<1>3. ASSUME NEW c \in Controls, ReleaseNext(c) PROVE TypeOK'
  <2>1. CASE ReleaseLock(c) \/ ReleaseGate(c)
    BY <2>1 DEF ReleaseLock, ReleaseGate, ReleaseFrame
  <2>2. CASE ReleaseDelete(c)
    <3>1. Remaining(c) = driver.controller \/ Remaining(c) = None
      BY DEF Remaining
    <3>2. driver' \in DriverType /\ driver'.controller = Remaining(c)
      BY <2>2, <3>1 DEF ReleaseDelete
    <3> QED
      BY <2>2, <3>1, <3>2, ControlAssumption DEF ReleaseDelete, ReleaseFrame
  <2> QED
    BY <1>3, <2>1, <2>2 DEF ReleaseNext
<1>4. ASSUME NEW c \in Controls, NEW o \in Operations, OperationBegin(o, c) PROVE TypeOK'
  BY <1>4 DEF OperationBegin, OperationFrame
<1>5. ASSUME NEW c \in Controls, NEW r \in Releases, ReleaseBegin(r, c) PROVE TypeOK'
  BY <1>5 DEF ReleaseBegin, ReleaseFrame
<1>6. ASSUME NEW o \in Operations, OperationCheck(o) \/ OperationEnd(o) PROVE TypeOK'
  BY <1>6 DEF OperationCheck, OperationEnd, OperationFrame
<1>7. ASSUME NEW r \in Releases, ReleaseReturn(r) PROVE TypeOK'
  BY <1>7 DEF ReleaseReturn, ReleaseFrame
<1>8. ASSUME CloseSession \/ CloseDriver \/ EndSession PROVE TypeOK'
  <2>1. CASE CloseSession \/ CloseDriver
    <3>1. /\ driver' \in DriverType /\ \A c \in Controls : driver'.controller # c
          /\ UNCHANGED <<client, control, operation, once, release>>
          /\ running' = running
      <4>1. CASE CloseSession
        BY <4>1, ControlAssumption DEF CloseSession, CloseFrame
      <4>2. CASE CloseDriver
        BY <4>2, ControlAssumption DEF CloseDriver, CloseFrame
      <4> QED
        BY <2>1, <4>1, <4>2
    <3> QED
      BY <3>1
  <2>2. CASE EndSession
    BY <2>2 DEF EndSession, CloseFrame
  <2> QED
    BY <1>8, <2>1, <2>2
<1>9. CASE UNCHANGED vars
  BY <1>9 DEF vars
<1> QED
  BY <1>1, <1>2, <1>3, <1>4, <1>5, <1>6, <1>7, <1>8, <1>9 DEF Next

(* A request (driver/server.go:907-928) mutates the session only while it  *)
(* has no controller, and holds the gate until it is answered.             *)
LEMMA ClientHolds ==
  ASSUME IInv, TypeOK', NEW k \in Clients,
         ClientBegin(k) \/ ClientLock(k) \/ ClientCheck(k) \/ ClientEnd(k)
  PROVE  IInv'
<1>t. client \in [Clients -> ClientType] /\ client' \in [Clients -> ClientType]
  BY DEF IInv, TypeOK
<1>f. ClientFrame /\ \A l \in Clients : l # k => client'[l] = client[l]
  BY <1>t DEF ClientBegin, ClientLock, ClientCheck, ClientEnd
<1>1. GateKeepsOut'
  <2>1. ASSUME NEW c \in Controls, control[c] = "check"
        PROVE  client'[k] \notin {"check", "mutating"}
    <3>1. client[k] \notin {"check", "mutating"} /\ ~GateFree
      BY <2>1 DEF IInv, GateKeepsOut, GateFree
    <3> QED
      BY <1>t, <3>1 DEF ClientBegin, ClientLock, ClientCheck, ClientEnd
  <2> QED
    BY <1>f, <2>1 DEF IInv, GateKeepsOut, ClientFrame
<1>2. OperatesWhileHeld' /\ ReleaseWaits'
  BY <1>f DEF IInv, OperatesWhileHeld, ReleaseWaits, ClientFrame, Reading, Operating
<1>3. ExclusiveInput'
  <2>1. Mutating(k)' => Allowed
    BY <1>t DEF ClientBegin, ClientLock, ClientCheck, ClientEnd, Mutating
  <2>2. driver.controller # None => \A l \in Clients : ~Mutating(l)'
    BY <1>f, <2>1 DEF IInv, ExclusiveInput, Mutating, Allowed
  <2>3. ASSUME ~driver.closed, NEW o \in Operations, Operating(o), Mutating(k)' PROVE FALSE
    BY <2>1, <2>3, ControlAssumption
    DEF IInv, OperatesWhileHeld, Reading, Operating, Allowed
  <2> QED
    BY <1>f, <2>2, <2>3
    DEF IInv, ExclusiveInput, OperatesAlone, Operating, Mutating, ClientFrame
<1> QED
  BY <1>1, <1>2, <1>3 DEF IInv

(* AcquireSessionControl (driver/control.go:24-45) grants the session to   *)
(* one control, while nobody is at work on it.                             *)
LEMMA AcquireHolds ==
  ASSUME IInv, TypeOK', NEW c \in Controls,
         AcquireBegin(c) \/ AcquireLock(c) \/ AcquireCheck(c)
  PROVE  IInv'
<1>t. /\ control \in [Controls -> ControlType] /\ once \in [Controls -> OnceType]
      /\ driver \in DriverType
      /\ \A d \in Controls : once[d] # "new" => control[d] = "granted"
  BY DEF IInv, TypeOK
<1>f. /\ UNCHANGED <<running, client, operation, once, release>>
      /\ \A d \in Controls : d # c => control'[d] = control[d]
  BY <1>t DEF AcquireBegin, AcquireLock, AcquireCheck
<1>d. \/ UNCHANGED driver
      \/ /\ control[c] = "check" /\ Allowed
         /\ driver' = [driver EXCEPT !.controller = c]
  BY DEF AcquireBegin, AcquireLock, AcquireCheck
<1>1. GateKeepsOut'
  <2>1. control'[c] = "check" => GateFree
    BY <1>t DEF AcquireBegin, AcquireLock, AcquireCheck, ControlType
  <2> QED
    BY <1>f, <2>1 DEF IInv, GateKeepsOut, GateFree
<1>2. OperatesWhileHeld'
  BY <1>d, <1>f, <1>t, ControlAssumption
  DEF IInv, OperatesWhileHeld, Reading, Operating, Allowed, DriverType
<1>3. ReleaseWaits'
  BY <1>d, <1>f, <1>t DEF IInv, ReleaseWaits, Reading, Operating, DriverType
<1>4. ExclusiveInput'
  BY <1>d, <1>f, <1>t
  DEF IInv, ExclusiveInput, OperatesAlone, GateKeepsOut, Operating, Mutating, DriverType
<1> QED
  BY <1>1, <1>2, <1>3, <1>4 DEF IInv

(* Send, Press and WaitFor of a control (driver/control.go:47-84) run      *)
(* while it is the session's.                                              *)
LEMMA OperationHolds ==
  ASSUME IInv, TypeOK', NEW o \in Operations,
         \/ \E c \in Controls : OperationBegin(o, c)
         \/ OperationCheck(o) \/ OperationEnd(o)
  PROVE  IInv'
<1>t. operation \in [Operations -> OperationType]
  BY DEF IInv, TypeOK
<1>f. OperationFrame /\ \A p \in Operations : p # o => operation'[p] = operation[p]
  BY <1>t DEF OperationBegin, OperationCheck, OperationEnd
<1>r. Reading(o)' => \/ Reading(o) /\ operation'[o].control = operation[o].control
                     \/ \E c \in Controls : operation'[o].control = c /\ Readable(c)
  BY <1>t DEF OperationBegin, OperationCheck, OperationEnd, Reading, OperationType
<1>a. Operating(o)' => /\ driver.controller = operation[o].control /\ Reading(o)
                       /\ operation'[o].control = operation[o].control
  BY <1>t DEF OperationBegin, OperationCheck, OperationEnd, Operating, Reading, Active,
              OperationType
<1>1. GateKeepsOut'
  BY <1>f DEF IInv, GateKeepsOut, OperationFrame
<1>2. OperatesWhileHeld'
  BY <1>a, <1>f, <1>r DEF IInv, OperatesWhileHeld, OperationFrame, Reading, Operating
<1>3. ReleaseWaits'
  BY <1>a, <1>f, <1>r DEF IInv, ReleaseWaits, OperationFrame, Reading, Operating, Readable
<1>4. ExclusiveInput'
  <2>1. Operating(o)' => driver.controller # None
    BY <1>a, ControlAssumption DEF IInv, OperatesWhileHeld
  <2>2. ASSUME ~driver.closed, NEW p \in Operations, p # o, Operating(p), Operating(o)'
        PROVE operation[p].control = operation'[o].control
    BY <1>a, <2>1, <2>2 DEF IInv, OperatesWhileHeld
  <2> QED
    BY <1>f, <2>1, <2>2
    DEF IInv, ExclusiveInput, OperatesAlone, OperationFrame, Operating, Mutating
<1> QED
  BY <1>1, <1>2, <1>3, <1>4 DEF IInv

(* Release (driver/control.go:92-104) takes the control away when nobody   *)
(* uses it.                                                                *)
LEMMA ReleaseHolds ==
  ASSUME IInv, TypeOK',
         \/ \E c \in Controls : ReleaseNext(c) \/ \E r \in Releases : ReleaseBegin(r, c)
         \/ \E r \in Releases : ReleaseReturn(r)
  PROVE  IInv'
<1>t. /\ once \in [Controls -> OnceType] /\ release \in [Releases -> ReleaseType]
      /\ driver \in DriverType
  BY DEF IInv, TypeOK
<1>1. ASSUME NEW c \in Controls, ReleaseLock(c) PROVE IInv'
  <2>1. \A o \in Operations : Reading(o) => operation[o].control # c
    BY <1>1 DEF ReleaseLock, NoReaders, Readers
  <2> QED
    BY <1>1, <1>t, <2>1
    DEF ReleaseLock, ReleaseFrame, IInv, GateKeepsOut, OperatesWhileHeld, ReleaseWaits,
        ExclusiveInput, OperatesAlone, Reading, Operating, Mutating
<1>2. ASSUME NEW c \in Controls, ReleaseGate(c) PROVE IInv'
  BY <1>2, <1>t
  DEF ReleaseGate, ReleaseFrame, IInv, GateKeepsOut, OperatesWhileHeld, ReleaseWaits,
      ExclusiveInput, OperatesAlone, Reading, Operating, Mutating
<1>3. ASSUME NEW c \in Controls, ReleaseDelete(c) PROVE IInv'
  <2>1. \A o \in Operations : Reading(o) => operation[o].control # c
    BY <1>3 DEF ReleaseDelete, IInv, ReleaseWaits
  <2>2. /\ driver'.registered = driver.registered /\ driver'.closed = driver.closed
        /\ driver'.controller = Remaining(c)
    BY <1>3, <1>t DEF ReleaseDelete, DriverType
  <2>3. Remaining(c) # c /\ (Remaining(c) = driver.controller \/ driver.controller = c)
    BY ControlAssumption DEF Remaining
  <2>4. Remaining(c) = driver.controller \/ Remaining(c) = None
    BY DEF Remaining
  <2>5. GateKeepsOut' /\ OperatesWhileHeld'
    BY <1>3, <2>1, <2>2, <2>3, <2>4
    DEF ReleaseDelete, ReleaseFrame, IInv, GateKeepsOut, OperatesWhileHeld, Reading, Operating
  <2>6. ReleaseWaits'
    BY <1>3, <1>t, <2>1, <2>2, <2>3, <2>4, ControlAssumption
    DEF ReleaseDelete, ReleaseFrame, IInv, ReleaseWaits, Reading, Operating
  <2>7. ExclusiveInput'
    BY <1>3, <2>2, <2>4
    DEF ReleaseDelete, ReleaseFrame, IInv, ExclusiveInput, OperatesAlone, Operating, Mutating
  <2> QED
    BY <2>5, <2>6, <2>7 DEF IInv
<1>4. ASSUME NEW c \in Controls, NEW r \in Releases, ReleaseBegin(r, c) PROVE IInv'
  <2>1. UNCHANGED <<driver, running, client, control, operation>>
    BY <1>4 DEF ReleaseBegin, ReleaseFrame
  <2>2. \A d \in Controls : \/ once'[d] = once[d]
                            \/ d = c /\ once[d] = "new" /\ once'[d] = "readers"
    BY <1>4, <1>t DEF ReleaseBegin
  <2>3. once'[c] # "new"
    BY <1>4, <1>t DEF ReleaseBegin
  <2>4. \A q \in Releases : q # r => release'[q] = release[q]
    BY <1>4, <1>t DEF ReleaseBegin
  <2>5. release'[r].control = c /\ release'[r].pc \in {"running", "joining"}
    BY <1>4, <1>t DEF ReleaseBegin
  <2> QED
    BY <2>1, <2>2, <2>3, <2>4, <2>5
    DEF IInv, GateKeepsOut, OperatesWhileHeld, ReleaseWaits, ExclusiveInput, OperatesAlone,
        Reading, Operating, Mutating
<1>5. ASSUME NEW r \in Releases, ReleaseReturn(r) PROVE IInv'
  BY <1>5, <1>t
  DEF ReleaseReturn, ReleaseFrame, ReleaseType, IInv, GateKeepsOut, OperatesWhileHeld,
      ReleaseWaits, ExclusiveInput, OperatesAlone, Reading, Operating, Mutating
<1> QED
  BY <1>1, <1>2, <1>3, <1>4, <1>5 DEF ReleaseNext

(* The closes (driver/server.go:178-199, 361-388, 446-468) take a control  *)
(* away while it may operate.                                              *)
LEMMA CloseHolds ==
  ASSUME IInv, TypeOK', CloseSession \/ CloseDriver \/ EndSession
  PROVE  IInv'
<1>t. driver \in DriverType
  BY DEF IInv, TypeOK
<1>1. CloseFrame /\ (UNCHANGED driver \/ driver'.controller = None)
  BY <1>t DEF CloseSession, CloseDriver, EndSession, DriverType
<1>2. /\ ~driver.registered => ~driver'.registered
      /\ driver.closed => driver'.closed
      /\ UNCHANGED driver \/ ~driver'.registered \/ driver'.closed
  BY <1>t DEF CloseSession, CloseDriver, EndSession, DriverType
<1>3. GateKeepsOut' /\ OperatesWhileHeld'
  BY <1>1, <1>2
  DEF IInv, CloseFrame, GateKeepsOut, OperatesWhileHeld, Reading, Operating
<1>4. ReleaseWaits'
  BY <1>1, ControlAssumption DEF IInv, CloseFrame, ReleaseWaits, Reading, Operating
<1>5. ExclusiveInput'
  BY <1>1, <1>2 DEF IInv, CloseFrame, ExclusiveInput, OperatesAlone, Operating, Mutating
<1> QED
  BY <1>3, <1>4, <1>5 DEF IInv

(* All of Next (driver/control.go:24-110).                                 *)
LEMMA StepHolds == IInv /\ [Next]_vars => IInv'
<1> SUFFICES ASSUME IInv, [Next]_vars PROVE IInv'
  OBVIOUS
<1>t. TypeOK'
  BY NextTyped DEF IInv
<1>1. CASE UNCHANGED vars
  BY <1>1, <1>t
  DEF vars, IInv, GateKeepsOut, OperatesWhileHeld, ReleaseWaits, ExclusiveInput, OperatesAlone,
      Reading, Operating, Mutating
<1> QED
  BY <1>1, <1>t, ClientHolds, AcquireHolds, OperationHolds, ReleaseHolds, CloseHolds DEF Next

LEMMA Holds == Spec => []IInv
  BY InitHolds, StepHolds, PTL DEF Spec

(* From its grant on a control keeps the requests of clients out, and      *)
(* until the driver closes it operates alone (driver/control.go:30-43,     *)
(* driver/server.go:907-928).                                              *)
THEOREM InputExclusive == Spec => []ExclusiveInput
<1>1. IInv => ExclusiveInput
  BY DEF IInv
<1> QED
  BY <1>1, Holds, PTL

(* A Release that has returned leaves no operation of its control behind   *)
(* (driver/control.go:91-104).                                             *)
THEOREM ReleaseFinal == Spec => []ReleaseIsFinal
<1>1. IInv => ReleaseIsFinal
  BY DEF IInv, ReleaseWaits, ReleaseIsFinal
<1> QED
  BY <1>1, Holds, PTL

(* A control is lost only to its own Release or to a close                 *)
(* (driver/control.go:97-101, driver/server.go:178-199, 361-388, 446-468). *)
THEOREM KeptUntilReleased == Spec => ControlKept
<1>1. IInv /\ [Next]_vars =>
        [\A c \in Controls :
           driver.controller = c /\ driver'.controller # c
             => \/ once[c] = "delete" /\ once'[c] = "done"
                \/ driver.registered /\ ~driver'.registered
                \/ ~driver.closed /\ driver'.closed]_vars
  <2> SUFFICES ASSUME IInv, Next, NEW c \in Controls,
                      driver.controller = c, driver'.controller # c
               PROVE  \/ once[c] = "delete" /\ once'[c] = "done"
                      \/ driver.registered /\ ~driver'.registered
                      \/ ~driver.closed /\ driver'.closed
    OBVIOUS
  <2>t. driver \in DriverType /\ once \in [Controls -> OnceType]
    BY DEF IInv, TypeOK
  <2>1. ASSUME NEW d \in Controls, AcquireCheck(d) PROVE FALSE
    BY <2>1, ControlAssumption DEF AcquireCheck, Allowed
  <2>2. ASSUME NEW d \in Controls, ReleaseDelete(d) PROVE once[c] = "delete" /\ once'[c] = "done"
    BY <2>2, <2>t DEF ReleaseDelete, Remaining, DriverType
  <2>3. CASE CloseSession
    BY <2>3, <2>t DEF CloseSession, DriverType
  <2>4. CASE CloseDriver
    BY <2>4, <2>t DEF CloseDriver, DriverType
  <2> QED
    BY <2>1, <2>2, <2>3, <2>4
    DEF Next, ClientBegin, ClientLock, ClientCheck, ClientEnd, ClientFrame, AcquireBegin,
        AcquireLock, ReleaseNext, ReleaseLock, ReleaseGate, OperationBegin, ReleaseBegin,
        OperationCheck, OperationEnd, OperationFrame, ReleaseReturn, EndSession, CloseFrame
<1> QED
  BY <1>1, Holds, PTL DEF Spec, ControlKept
=============================================================================
