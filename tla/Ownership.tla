----------------------------- MODULE Ownership ------------------------------
(***************************************************************************)
(* What a terminal server promises about the objects it owns: it is the    *)
(* parent of connections, and they are the parents of sessions.  Nothing   *)
(* is born to a parent that is closing, and a parent ends after all its    *)
(* children: "Closing is idempotent and proceeds from sessions to          *)
(* connections" (design/session-lifecycle.md:19).                          *)
(***************************************************************************)
CONSTANTS Connections, Sessions, None

VARIABLES
  server,       \* "open", "closing" or "closed"
  closing,      \* the connections somebody is closing
  life,         \* of a connection or a session: "absent", "live" or "ended"
  parent        \* the connection of a session, None while it is absent

vars == <<server, closing, life, parent>>

Children(c) == {s \in Sessions : parent[s] = c}

Init ==
  /\ server = "open" /\ closing = {}
  /\ life = [x \in Connections \cup Sessions |-> "absent"]
  /\ parent = [s \in Sessions |-> None]

Connect(c) ==
  /\ server = "open" /\ life[c] = "absent"
  /\ life' = [life EXCEPT ![c] = "live"]
  /\ UNCHANGED <<server, closing, parent>>

OpenSession(s, c) ==
  /\ life[s] = "absent" /\ life[c] = "live" /\ c \notin closing
  /\ life' = [life EXCEPT ![s] = "live"]
  /\ parent' = [parent EXCEPT ![s] = c]
  /\ UNCHANGED <<server, closing>>

(* A session ends by itself or because it is closed. *)
EndSession(s) ==
  /\ life[s] = "live"
  /\ life' = [life EXCEPT ![s] = "ended"]
  /\ UNCHANGED <<server, closing, parent>>

CloseConnection(c) ==
  /\ life[c] = "live" /\ c \notin closing
  /\ closing' = closing \cup {c}
  /\ UNCHANGED <<server, life, parent>>

EndConnection(c) ==
  /\ life[c] = "live" /\ c \in closing
  /\ \A s \in Children(c) : life[s] = "ended"
  /\ life' = [life EXCEPT ![c] = "ended"]
  /\ UNCHANGED <<server, closing, parent>>

CloseServer == server = "open" /\ server' = "closing" /\ UNCHANGED <<closing, life, parent>>

EndServer ==
  /\ server = "closing"
  /\ \A c \in Connections : life[c] # "live"
  /\ server' = "closed"
  /\ UNCHANGED <<closing, life, parent>>

Next ==
  \/ CloseServer \/ EndServer
  \/ \E c \in Connections : Connect(c) \/ CloseConnection(c) \/ EndConnection(c)
  \/ \E s \in Sessions : EndSession(s) \/ \E c \in Connections : OpenSession(s, c)

Spec == Init /\ [][Next]_vars
=============================================================================
