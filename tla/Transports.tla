----------------------------- MODULE Transports ------------------------------
(***************************************************************************)
(* The transports side by side: Telnet and Ssh have nothing to do with     *)
(* each other, and a behavior is one of them, as `part` says, while the    *)
(* variables of the other stay as they are.                                *)
(***************************************************************************)
EXTENDS Naturals, Sequences

CONSTANTS
  Parts,                 \* the transports that may run
  OpenSize, Scenarios,   \* of Telnet
  Sizes, Output          \* of Ssh

Negotiations == {"DO", "DONT", "WILL", "WONT"}

(* A greeting is made of commands; all else are bytes, none of which is    *)
(* special but the ones that Telnet names.                                 *)
ASSUME TelnetAssumption ==
  /\ OpenSize \in Seq(STRING)
  /\ \A p \in Scenarios :
       /\ p \in [greeting : Seq(Seq(STRING)), typed : Seq(Seq(STRING)),
                shown : Seq(Seq(STRING)), resizes : Seq(Seq(STRING)),
                closers : SUBSET {"client", "host"}]
       /\ \A i \in DOMAIN p.greeting :
            LET command == p.greeting[i] IN
            /\ Len(command) \in {2, 3} /\ command[1] = "IAC"
            /\ Len(command) = 3 => command[2] \in Negotiations
            /\ Len(command) = 2 => command[2] \notin Negotiations \cup {"SB", "IAC"}

VARIABLES
  part,
  plan, wire, open, client, reader, resizer, host, log,           \* of Telnet
  raw, connect, opening, channel, stream, resized, server, application, shown   \* of Ssh

Telnet == INSTANCE Telnet
Ssh == INSTANCE Ssh

telnetVars == <<plan, wire, open, client, reader, resizer, host, log>>
sshVars == <<raw, connect, opening, channel, stream, resized, server, application, shown>>
vars == <<part, telnetVars, sshVars>>

Init ==
  /\ part \in Parts
  /\ Telnet!Init /\ Ssh!Init
  /\ part # "telnet" => plan = CHOOSE p \in Scenarios : TRUE

Next ==
  \/ part = "telnet" /\ Telnet!Next /\ UNCHANGED <<part, sshVars>>
  \/ part = "ssh" /\ Ssh!Next /\ UNCHANGED <<part, telnetVars>>

(* The fairness of Telnet and of Ssh, for the one that runs. *)
Fairness ==
  /\ WF_telnetVars(part = "telnet" /\ Telnet!ClientStep)
  /\ WF_telnetVars(part = "telnet" /\ Telnet!HostStep)
  /\ WF_telnetVars(part = "telnet" /\ Telnet!SendSize)
  /\ WF_telnetVars(part = "telnet" /\ Telnet!ApplicationResized)
  /\ WF_sshVars(part = "ssh" /\ Ssh!ConnectStep)
  /\ WF_sshVars(part = "ssh" /\ raw = "closed" /\ Ssh!Handshake)
  /\ WF_sshVars(part = "ssh" /\ Ssh!ClientStep)
  /\ WF_sshVars(part = "ssh" /\ Ssh!ServerStep)
  /\ WF_sshVars(part = "ssh" /\ Ssh!ApplicationResized)

Spec == Init /\ [][Next]_vars /\ Fairness

(* See Telnet: what was written is what is read, in both directions, and   *)
(* the end comes after the data (telnet/stream.go:73-205).                 *)
DataIntact == Telnet!DataIntact /\ Telnet!EndAfterData

(* See Telnet: options are not acknowledged for ever                       *)
(* (telnet/stream.go:207-254).                                             *)
AnswersAlternate == Telnet!AnswersAlternate

(* See Ssh: what fails leaves nothing open, the end comes after the        *)
(* output, and the host has the newest size (ssh/connector.go:76-185,      *)
(* 224-273, reference/ssh/server.go:101-173).                              *)
OutputThenEnd == Ssh!FailuresLeaveNothing /\ Ssh!OutputThenEnd

(* See both: whoever waits for a connection that has ended is told         *)
(* (telnet/stream.go:73-107, ssh/connector.go:106-132, 247-260).           *)
CallersReturn == Telnet!ReaderEnds /\ Ssh!CallersReturn

(* See Telnet: "SSH PTY window changes and Telnet NAWS updates are         *)
(* forwarded to Bubble Tea" (design/reference-tui.md:59).                  *)
UpdatesAreForwarded == Telnet!UpdatesAreForwarded
=============================================================================
