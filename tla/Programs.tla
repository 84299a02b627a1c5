------------------------------ MODULE Programs ------------------------------
(***************************************************************************)
(* The programs around the core side by side: Driver, SdkClient, Workbench *)
(* and McpService have nothing to do with each other, and a behavior is    *)
(* one of them, as `part` says, while the variables of the others stay as  *)
(* they are.                                                               *)
(***************************************************************************)
EXTENDS Naturals, Sequences

CONSTANTS
  Parts,                            \* the programs that may run
  Scripts, Failures,                \* of Driver
  Calling,                          \* the goroutines that call SdkClient
  Events, Queue, Buffer,
  MayCrash, MayHang,                \* of SdkClient
  Users, Steps,                     \* of Workbench
  Callers,                          \* of McpService
  MaxCalls                          \* of Workbench and McpService

(* A client of the driver sends calls and notifications of any method.     *)
ASSUME ScriptAssumption == Scripts \subseteq Seq([method : STRING, target : Nat, named : BOOLEAN])

VARIABLES
  part,
  script, run, closed, connections, sessions, numbers, core, request, shutdown,
    writer,                                                           \* of Driver
  driver, requested, output, streaming, sent, client, call, reader, finishing, stream, queue,
    closing, received,                                                \* of SdkClient
  session, entry, lock, user, inspector, grants, calls, input,        \* of Workbench
  service, mcpCore, mcpCall, made, done                               \* of McpService

Driver == INSTANCE Driver
Sdk == INSTANCE SdkClient WITH Callers <- Calling
Workbench == INSTANCE Workbench
Mcp == INSTANCE McpService WITH core <- mcpCore, call <- mcpCall

(* The lock of a recording that nobody holds is not held by a user.        *)
ASSUME UserAssumption == Workbench!NoOne \notin Users

driverVars ==
  <<script, run, closed, connections, sessions, numbers, core, request, shutdown, writer>>
sdkVars ==
  <<driver, requested, output, streaming, sent, client, call, reader, finishing, stream, queue,
    closing, received>>
workbenchVars == <<session, entry, lock, user, inspector, grants, calls, input>>
mcpVars == <<service, mcpCore, mcpCall, made, done>>
vars == <<part, driverVars, sdkVars, workbenchVars, mcpVars>>

Init ==
  /\ part \in Parts
  /\ Driver!Init /\ Sdk!Init /\ Workbench!Init /\ Mcp!Init
  /\ part # "driver" => script = CHOOSE s \in Scripts : TRUE

Next ==
  \/ /\ part = "driver" /\ Driver!Next
     /\ UNCHANGED <<part, sdkVars, workbenchVars, mcpVars>>
  \/ /\ part = "sdk" /\ Sdk!Next
     /\ UNCHANGED <<part, driverVars, workbenchVars, mcpVars>>
  \/ /\ part = "workbench" /\ Workbench!Next
     /\ UNCHANGED <<part, driverVars, sdkVars, mcpVars>>
  \/ /\ part = "mcp" /\ Mcp!Next
     /\ UNCHANGED <<part, driverVars, sdkVars, workbenchVars>>

(* The fairness of Driver, SdkClient and Workbench, for the one that runs. *)
Fairness ==
  /\ \A r \in UNION {DOMAIN s : s \in Scripts} :
       WF_driverVars(part = "driver" /\ r \in DOMAIN script /\ Driver!RequestStep(r))
  /\ WF_driverVars(part = "driver" /\ Driver!RunStep)
  /\ WF_driverVars(part = "driver" /\ Driver!Stop("shutdown"))
  /\ WF_driverVars(part = "driver" /\ Driver!Stop("output"))
  /\ \A c \in Calling \cup {"subscribe", "shutdown"} :
       WF_sdkVars(part = "sdk" /\ Sdk!CallGoesOn(c))
  /\ WF_sdkVars(part = "sdk" /\ closing = "shutdown" /\ Sdk!CallBegin("shutdown"))
  /\ WF_sdkVars(part = "sdk" /\ Sdk!CallCancel("shutdown"))
  /\ WF_sdkVars(part = "sdk" /\ Sdk!ClientStep)
  /\ WF_sdkVars(part = "sdk" /\ Sdk!CloseStep)
  /\ WF_sdkVars(part = "sdk" /\ Sdk!Reap)
  /\ \A u \in Users : WF_workbenchVars(part = "workbench" /\ Workbench!UserStep(u))
  /\ WF_workbenchVars(part = "workbench" /\ Workbench!ManagerClose)

Spec == Init /\ [][Next]_vars /\ Fairness

(* See Driver: every request is answered once, a notification never        *)
(* (driver/server.go:119-175, 214-274).                                    *)
EveryRequestAnswered == Driver!EveryRequestAnswered

(* See Driver and McpService: calls that open and close the same           *)
(* connection race, and nothing the core has open is out of reach          *)
(* (driver/server.go:317-468, mcpserver/service.go:244-306, 609-663).      *)
NothingUnreachable == Driver!NothingUnreachable /\ Mcp!ServiceOwnsAll

(* See SdkClient: nothing is sent to a channel that was closed             *)
(* (sdk/go/session.go:168-208, sdk/go/client.go:244-270, 318-336).         *)
ClosedIsFinal == [][Sdk!NothingAfterClose]_sdkVars

(* See Workbench and McpService: a recording is what was done              *)
(* (workbench/recording.go:138-203, 259-308,                               *)
(* mcpserver/service.go:524-663).                                          *)
RecordingsAreTrue == Workbench!TraceIsWhatWasSent /\ Mcp!RecordingsAreTrue

(* See Workbench: whoever controls the session will release it             *)
(* (workbench/recording.go:102-134, 206-308, driverui/server.go:107-116).  *)
ControlIsNotLost == Workbench!ControlIsNotLost

(* See Driver, SdkClient and Workbench: Run, calls, Close and Shutdown     *)
(* return (driver/server.go:119-197, sdk/go/client.go:272-398,             *)
(* workbench/recording.go:102-308, driverui/server.go:107-116).            *)
CallersReturn == Driver!RunReturns /\ Sdk!CallsReturn /\ Workbench!ShutdownEnds

(* See SdkClient: "EventSubscription delivers terminal events in order on  *)
(* Events" (sdk/go/session.go:150).                                        *)
EventsInOrder == Sdk!EventsInOrder
=============================================================================
