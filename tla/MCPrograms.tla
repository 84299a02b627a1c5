----------------------------- MODULE MCPrograms ------------------------------
(***************************************************************************)
(* Small instances of Driver, SdkClient, Workbench and McpService for TLC, *)
(* chosen by Programs.                                                     *)
(***************************************************************************)
EXTENDS Programs

(* Driver: a connection closed while its session is, a wait met by a       *)
(* shutdown, and a connection closed twice by a client that also sends     *)
(* what is not a request.  Everything that can fail may.                   *)
Call(method, target) == [method |-> method, target |-> target, named |-> TRUE]
Notify(method, target) == [method |-> method, target |-> target, named |-> FALSE]
Opening == <<Call("connection.open", 0), Call("session.open", 1)>>

ThreeScripts ==
  {Opening \o <<Call("connection.close", 1), Notify("session.close", 1)>>,
   Opening \o <<Call("session.wait", 1), Call("driver.shutdown", 0)>>,
   <<Call("connection.open", 0), Call("connection.close", 1), Call("connection.close", 1),
     Call("", 0), Notify("driver.ping", 0)>>}
=============================================================================
