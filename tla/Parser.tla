------------------------------- MODULE Parser -------------------------------
(***************************************************************************)
(* The incremental byte-stream parser of parsing/parser.go: the library it *)
(* wraps decodes UTF-8 only outside of control strings, and the wrapper    *)
(* disguises the bytes inside them so that text does not end a string      *)
(* early.  Every byte is a Write of its own, so a character, an escape     *)
(* sequence and a string may be cut anywhere.                              *)
(*                                                                         *)
(* A byte is one of the classes the code tells apart: "A" (ASCII), "BEL",  *)
(* "ESC", the leads "L2", "L3", "L4" of characters of two to four bytes,   *)
(* "ST" (0x9C, both a continuation byte and the 8-bit string terminator),  *)
(* "K" (every other continuation byte) and "FE" (the placeholder).  "OSC", *)
(* "DCS" and "SOS" stand for what follows the ESC of an opener up to the   *)
(* string's first byte of data, and "\\" for the end of ESC \.             *)
(***************************************************************************)
EXTENDS Naturals, Sequences

CONSTANTS MaxBytes          \* bound: how much the host sends

VARIABLES
  parser,       \* the library's parser: its state, and what it has collected
  continuation, \* Parser.continuation
  printed,      \* what the handler was given to print
  delivered,    \* the strings the handler was given
  host          \* what the host has sent, as the host means it

parserVars == <<parser, continuation, printed, delivered, host>>

Leads == {"L2", "L3", "L4"}
Continuations == {"K", "ST"}
Length(lead) == CASE lead = "L2" -> 1 [] lead = "L3" -> 2 [] lead = "L4" -> 3
Delivered == {"OSC", "DCS"}         \* strings whose data the handler gets
Strings == Delivered \cup {"SOS"}   \* "SOS" stands for PM and APC too

(* The string the library's parser hands over, and what the handler gets   *)
(* of it: placeholders are continuation bytes again; SOS data is dropped.  *)
RestorePlaceholders(data) ==
  [i \in DOMAIN data |-> IF data[i] = "FE" THEN "ST" ELSE data[i]]
Handed(kind, data) ==
  [kind |-> kind, data |-> IF kind \in Delivered THEN RestorePlaceholders(data) ELSE <<>>]

(* What protectString makes of a byte, and of the continuation count. *)
ContinuationAfter(b) ==
  IF parser.state \notin Strings THEN 0
  ELSE CASE continuation > 0 /\ b \in Continuations -> continuation - 1
         [] b \in Leads -> Length(b)
         [] OTHER -> 0

(* mutant: the byte 0x9C is never disguised *)
SosOnly(b) == IF parser.state = "SOS" /\ b \in Leads \cup Continuations THEN "A" ELSE b

Protected(b) ==
  LET inText == (continuation > 0 /\ b \in Continuations) \/ b \in Leads IN
  IF parser.state \notin Strings \/ ~inText THEN b
  ELSE IF parser.state = "SOS" THEN "A"
  ELSE IF b = "ST" THEN "FE"
  ELSE b

Ends(kind, b) ==
  CASE kind = "OSC" -> b \in {"BEL", "ESC", "ST"}
    [] kind = "DCS" -> b \in {"ESC", "ST"}
    [] kind = "SOS" -> b \in {"ESC"} \cup Leads \cup Continuations

Shift(state, data) == [state |-> state, data |-> data]

(* The library: one byte, and what it makes of it. *)
Advance(b) ==
  LET s == parser.state IN
  /\ parser' =
       CASE s = "ground" /\ b = "ESC" -> Shift("escape", <<>>)
         [] s = "ground" /\ b \in Leads -> Shift("utf8", <<b>>)
         [] s = "utf8" /\ Len(parser.data) < Length(parser.data[1]) ->
              Shift("utf8", Append(parser.data, b))
         [] s = "escape" /\ b \in Strings -> Shift(b, <<>>)
         [] s \in Strings /\ ~Ends(s, b) -> Shift(s, Append(parser.data, b))
         [] s \in Strings /\ b = "ESC" -> Shift("escape", <<>>)
         [] OTHER -> Shift("ground", <<>>)
  /\ printed' =
       CASE s = "ground" /\ b = "A" -> Append(printed, b)
         [] s = "utf8" /\ parser'.state = "ground" -> printed \o Append(parser.data, b)
         [] OTHER -> printed
  /\ delivered' =
       IF s \in Strings /\ Ends(s, b) THEN Append(delivered, Handed(s, parser.data))
       ELSE delivered

Init ==
  /\ parser = [state |-> "ground", data |-> <<>>]
  /\ continuation = 0
  /\ printed = <<>>
  /\ delivered = <<>>
  /\ host = [in |-> "text", more |-> 0, data |-> <<>>, text |-> <<>>, strings |-> <<>>, sent |-> 0]

(* Parser.Write with one byte. *)
Write(b) ==
  /\ continuation' = ContinuationAfter(b)
  /\ Advance(Protected(b))

(* A host that sends valid UTF-8, outside of strings and inside of them.   *)
HostText(b) ==
  /\ IF host.more > 0 THEN b \in Continuations ELSE b \in {"A"} \cup Leads
  /\ LET more == IF host.more > 0 THEN host.more - 1 ELSE IF b = "A" THEN 0 ELSE Length(b) IN
     host' = [host EXCEPT !.sent = @ + 1, !.more = more,
                          !.text = IF host.in = "text" THEN Append(@, b) ELSE @,
                          !.data = IF host.in \in Strings THEN Append(@, b) ELSE @]
  /\ host.in \in {"text"} \cup Strings

HostOpens(b) ==
  /\ host.more = 0
  /\ \/ host.in = "text" /\ b = "ESC" /\ host' = [host EXCEPT !.sent = @ + 1, !.in = "opening"]
     \/ /\ host.in = "opening" /\ b \in Strings
        /\ host' = [host EXCEPT !.sent = @ + 1, !.in = b]

Closed(kind) ==
  Append(host.strings, [kind |-> kind, data |-> IF kind \in Delivered THEN host.data ELSE <<>>])

HostCloses(b) ==
  /\ host.more = 0
  /\ \/ /\ host.in \in Strings
        /\ b = "ST" \/ (b = "BEL" /\ host.in = "OSC") \/ b = "ESC"
        /\ host' = [host EXCEPT !.sent = @ + 1, !.strings = Closed(host.in), !.data = <<>>,
                                !.in = IF b = "ESC" THEN "closing" ELSE "text"]
     \/ /\ host.in = "closing" /\ b = "\\"
        /\ host' = [host EXCEPT !.sent = @ + 1, !.in = "text"]

Bytes == {"A", "BEL", "ESC", "\\"} \cup Leads \cup Continuations \cup Strings

Next ==
  /\ host.sent < MaxBytes
  /\ \E b \in Bytes :
       /\ HostText(b) \/ HostOpens(b) \/ HostCloses(b)
       /\ Write(b)

Spec == Init /\ [][Next]_parserVars

(* What the host meant as text is printed, and nothing else is: the bytes  *)
(* of a control string never reach the screen, wherever a string, a        *)
(* character or a sequence was cut (parsing/parser.go:106-149).            *)
TextIsPrinted ==
  /\ Len(printed) <= Len(host.text)
  /\ \A i \in DOMAIN printed : printed[i] = host.text[i]
  /\ host.more = 0 => printed = host.text

(* Every string the host sent is handed over once, in order, with the text *)
(* it carried (parsing/parser.go:57-102, 118-156).                         *)
StringsAreDelivered == delivered = host.strings
=============================================================================
