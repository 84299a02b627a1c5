------------------------------ MODULE Displays ------------------------------
(***************************************************************************)
(* What shows and is shown, side by side: the emulator, the parser before  *)
(* it, and the reference application.  A behavior is one of them, as       *)
(* `part` says, while the variables of the others stay as they are.        *)
(***************************************************************************)
EXTENDS TerminalProperties

CONSTANTS
  Parts,                 \* the parts that may run
  MaxBytes,              \* of Parser
  Widths, Heights, InitialEvents, MaxGeneration, MaxTicks, MaxExtra   \* of Reference

ASSUME DisplaysAssumption ==
  /\ InitialEvents \in Nat \ {0} /\ MaxGeneration \in Nat
  /\ Widths \subseteq Nat /\ Heights \subseteq Nat

VARIABLES
  part,
  parser, continuation, printed, delivered, host,     \* of Parser
  running, page, login, selected, size, model, ticks  \* of Reference

Parser == INSTANCE Parser
Reference == INSTANCE Reference

parserVars == <<parser, continuation, printed, delivered, host>>
referenceVars == <<running, page, login, selected, size, model, ticks>>
displayVars == <<part, vars, parserVars, referenceVars>>

DisplayInit ==
  /\ part \in Parts
  /\ Init /\ Parser!Init /\ Reference!Init
  /\ part # "terminal" => terminal.profile = CHOOSE p \in Profiles : TRUE
  /\ part # "reference" =>
       size = CHOOSE s \in [width : Widths \ {0}, height : Heights \ {0}] : TRUE

DisplayNext ==
  \/ part = "terminal" /\ Next /\ UNCHANGED <<part, parserVars, referenceVars>>
  \/ part = "parser" /\ Parser!Next /\ UNCHANGED <<part, vars, referenceVars>>
  \/ part = "reference" /\ Reference!Next /\ UNCHANGED <<part, vars, parserVars>>

DisplaySpec == DisplayInit /\ [][DisplayNext]_displayVars

(* See Parser: control strings are handed over whole and never reach the   *)
(* screen, wherever the host's output was cut (parsing/parser.go:57-156).  *)
StringsStayApart == Parser!TextIsPrinted /\ Parser!StringsAreDelivered

(* See Reference: a timed scenario that goes on has its timer              *)
(* (reference/long_running.go:45-152, reference/partial.go:40-93,          *)
(* reference/scrolling.go:36-93).                                          *)
NeverStalls == Reference!NeverStalls

(* See Reference: what every update leaves on a page is true, no update of *)
(* a page lets two timers drive its scenario, and a resize forgets no      *)
(* selection (reference/form.go:66-220, table.go:58-207,                   *)
(* scrolling.go:36-162, cursor.go:30-115, partial.go:40-93,                *)
(* long_running.go:45-152).                                                *)
PagesAreTrue ==
  [][/\ Reference!PagesAreTrue'
     /\ Reference!SelectionKept
     /\ Reference!TimersStayApart]_referenceVars
=============================================================================
