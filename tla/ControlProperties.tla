-------------------------- MODULE ControlProperties --------------------------
(***************************************************************************)
(* What exclusive control of a session promises.                           *)
(***************************************************************************)
EXTENDS Control

(* The types of the variables. *)
DriverType == [registered : BOOLEAN, controller : Controls \cup {None}, closed : BOOLEAN]
ClientType == {"idle", "gate", "check", "mutating", "answered", "refused"}
ControlType == {"idle", "gate", "check", "granted", "refused"}
OperationType ==
  [pc : {"idle", "check", "operating", "returned", "refused"}, control : Controls \cup {None}]
OnceType == {"new", "readers", "gate", "delete", "done"}
ReleaseType == [pc : {"idle", "running", "joining", "returned"}, control : Controls \cup {None}]

(* Every variable keeps its type, and only a control that was granted is   *)
(* the session's and is released (driver/control.go:24-45, 92-104).        *)
TypeOK ==
  /\ driver \in DriverType
  /\ running \in BOOLEAN
  /\ client \in [Clients -> ClientType]
  /\ control \in [Controls -> ControlType]
  /\ operation \in [Operations -> OperationType]
  /\ once \in [Controls -> OnceType]
  /\ release \in [Releases -> ReleaseType]
  /\ \A c \in Controls : once[c] # "new" \/ driver.controller = c => control[c] = "granted"

Operating(o) == operation[o].pc = "operating"
Mutating(k) == client[k] = "mutating"

(* While a control operates, no client and no other control does           *)
(* (driver/control.go:33-43, driver/server.go:914-927).                    *)
OperatesAlone ==
  \A o \in Operations :
    Operating(o) => /\ \A k \in Clients : ~Mutating(k)
                    /\ \A p \in Operations : Operating(p) => operation[p].control
                                                             = operation[o].control

(* From the grant of a control on no request of a client reaches the       *)
(* session (driver/control.go:30-43), and until the driver closes a        *)
(* control operates alone.                                                 *)
ExclusiveInput ==
  /\ driver.controller # None => \A k \in Clients : ~Mutating(k)
  /\ ~driver.closed => OperatesAlone

(* "JSON-RPC clients may continue observing its screens but cannot send    *)
(* input or resize it until recording stops" (design/workbench.md:22-23):  *)
(* a control operates alone, the close of the driver or not.               *)
ExclusiveUntilReleased == OperatesAlone

(* When Release has returned, to its first caller or another, no operation *)
(* of the control is under way, and the control is not the session's any   *)
(* more (driver/control.go:91-104).                                        *)
ReleaseIsFinal ==
  \A r \in Releases :
    release[r].pc = "returned" =>
      /\ driver.controller # release[r].control
      /\ \A o \in Operations : Operating(o) => operation[o].control # release[r].control

(* A control is taken away only by its own Release or by a close: no       *)
(* Release ends the control of another caller (driver/control.go:97-101).  *)
ControlKept ==
  [][\A c \in Controls :
       driver.controller = c /\ driver'.controller # c
         => \/ once[c] = "delete" /\ once'[c] = "done"
            \/ driver.registered /\ ~driver'.registered
            \/ ~driver.closed /\ driver'.closed]_vars

Closing == ~driver.registered \/ driver.closed \/ ~running

(* Closing the session "always remains available for lifecycle cleanup"    *)
(* (design/workbench.md:23-24): whoever waits for the gate or the control  *)
(* of a session that is closed gets an answer (driver/control.go:92-104,   *)
(* driver/server.go:907-928), no two of them wait for each other: again    *)
(* and again there is nobody that waits.                                   *)
EveryoneAnswered ==
  []<>(Closing => /\ \A k \in Clients : client[k] \in {"idle", "answered", "refused"}
                  /\ \A c \in Controls : control[c] \in {"idle", "granted", "refused"}
                  /\ \A r \in Releases : release[r].pc \in {"idle", "returned"})
=============================================================================
