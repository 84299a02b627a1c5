---------------------------- MODULE MCTransports -----------------------------
(***************************************************************************)
(* Small instances of Telnet and Ssh for TLC, chosen by Transports.        *)
(***************************************************************************)
EXTENDS Transports

(* Telnet: a size of two bytes, and a host that negotiates like the        *)
(* reference server, one that insists on the size, and one that turns an   *)
(* option on and off.  Data and sizes hold an IAC.                         *)
TwoBytes == <<"8", "2">>

Command(c, option) == <<"IAC", c, option>>
Reference ==
  <<Command("WILL", "ECHO"), Command("WILL", "SGA"), Command("DO", "TTYPE"), Command("DO", "NAWS")>>
Insists == <<Command("DO", "NAWS"), Command("DO", "NAWS"), Command("DONT", "NAWS")>>
Changes ==
  <<Command("WILL", "ECHO"), Command("WILL", "ECHO"), Command("WONT", "ECHO"),
    Command("DO", "ECHO"), Command("WILL", "ECHO"), <<"IAC", "NOP">>>>

FourScenarios ==
  {[greeting |-> Reference, typed |-> <<<<"a">>>>, shown |-> <<>>, closers |-> {},
    resizes  |-> <<<<"5", "IAC">>, <<>>, <<"9", "9">>>>],
   [greeting |-> Reference, typed |-> <<<<"a", "IAC">>>>, shown |-> <<<<"IAC", "x">>>>,
    closers  |-> {"client", "host"}, resizes |-> <<>>],
   [greeting |-> Insists, typed |-> <<>>, shown |-> <<<<"x">>>>, closers |-> {"host"},
    resizes  |-> <<<<"9", "9">>>>],
   [greeting |-> Changes, typed |-> <<<<"a">>>>, shown |-> <<>>, closers |-> {"client"},
    resizes  |-> <<>>]}

(* Ssh: the sizes asked for. *)
ThreeSizes == <<1, 2, 3>>
=============================================================================
