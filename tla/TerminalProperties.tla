------------------------- MODULE TerminalProperties -------------------------
(***************************************************************************)
(* What the emulation engine of ansi/terminal.go must never do to a screen.*)
(***************************************************************************)
EXTENDS Terminal

OnScreen(t, c) ==
  c.row \in 0..(t.height - 1) /\ c.column \in 0..(t.width - 1) /\ c.visible \in BOOLEAN

(* The buffer has one cell for each position, and its cursors are inside. *)
BufferFits(t, b) ==
  /\ DOMAIN b.cells = Positions(t.width, t.height)
  /\ \A p \in DOMAIN b.cells : b.cells[p].width \in 0..2
  /\ OnScreen(t, b.cursor) /\ OnScreen(t, b.saved)

(* The type of the engine. The code indexes its cells by cursors, saved    *)
(* cursors and margins without a check: outside of these bounds it panics  *)
(* (ansi/terminal.go:569-586, 757-860), whatever the host sent and         *)
(* whatever size the caller chose in between.                              *)
TypeOK ==
  LET t == terminal IN
  /\ t.width > 0 /\ t.height > 0
  /\ BufferFits(t, t.buffer.main)
  /\ t.buffer.alternate.cells # <<>> => BufferFits(t, t.buffer.alternate)
  /\ t.active = "alternate" => t.buffer.alternate.cells # <<>>
  /\ 0 <= t.scrollTop /\ t.scrollTop <= t.scrollBottom /\ t.scrollBottom < t.height
  /\ t.revision \in 0..calls

(* Every wide character of the buffers has both of its halves. *)
CharactersWhole(t) ==
  \A b \in DOMAIN t.buffer : \A p \in DOMAIN t.buffer[b].cells :
    ~Unpaired(t.buffer[b].cells, t.width, p)

CSI(f, finals) == f.kind = "csi" /\ f.final \in finals
Carries(data, finals) == \E i \in DOMAIN data : CSI(data[i], finals)

(* Only the erase functions (ED, EL, ECH) may cut a wide character in two: *)
(* printing, insertion, deletion, scrolling and a resize keep or clear     *)
(* both halves (ansi/terminal.go:371-384, 414-472, 492-524, 812-830).      *)
OnlyErasureSplits ==
  [][CharactersWhole(terminal) /\ ~CharactersWhole(terminal')
       => \E data \in Writes : Carries(data, {"J", "K", "X"}) /\ Write(data)]_vars

(* Whoever compares revisions sees every change of the screen: a call that *)
(* leaves the revision as it was (ansi/terminal.go:306-319, 410-412)       *)
(* leaves the screen as it was, unless it switched an xterm's buffers,     *)
(* where a repeated 1047 or 1049 clears or moves without a new revision    *)
(* (ansi/terminal.go:914-955).                                             *)
RevisionTellsScreen ==
  [][Screen(terminal) # Screen(terminal') /\ terminal'.revision = terminal.revision
       => XTerm(terminal) /\ \E data \in Writes : Carries(data, {"h", "l"}) /\ Write(data)]_vars

(* Does not hold. What design/terminal-behavior.md:109 takes for granted:  *)
(* visible state advances the revision when it changes. A 1047 or 1049     *)
(* that is repeated clears the screen or moves the cursor and leaves the   *)
(* revision (ansi/terminal.go:914-955).                                    *)
RevisionAlwaysTellsScreen ==
  [][Screen(terminal) # Screen(terminal') => terminal'.revision # terminal.revision]_vars

(* Does not hold. Design/terminal-behavior.md:29-32: a wide character is a *)
(* cell of width two followed by a continuation. The erase functions blank *)
(* one half of it (ansi/terminal.go:757-810).                              *)
WideCharactersWhole == CharactersWhole(terminal)

(* RIS, the escape sequence that resets the terminal. *)
Resets(f) == f.kind = "escape" /\ f.intermediate = "" /\ f.final = "c"

Rows(t, rows) == [p \in {q \in DOMAIN Cells(t) : q[1] \in rows} |-> Cells(t)[p]]

(* The lines outside the margins are a fixed header and footer: scrolling  *)
(* either way, by a line feed, a wrap, an index or a reverse index, and    *)
(* the insertion and deletion of lines (ansi/terminal.go:545-586, 832-860) *)
(* leave them alone. Only a write on the cursor's own line, an erasure of  *)
(* the display, a reset, a switch of buffers or a resize may change them.  *)
OutsideMarginsKept ==
  [][LET t == terminal
         outside == 0..(t.height - 1) \ ((t.scrollTop..t.scrollBottom)
                                         \cup {Cursor(t).row, Cursor(terminal').row})
     IN  \/ Screen(t).width # terminal'.width \/ Screen(t).height # terminal'.height
         \/ t.active # terminal'.active
         \/ Rows(t, outside) = Rows(terminal', outside)
         \/ \E data \in Writes :
              /\ Carries(data, {"J", "h"}) \/ \E i \in DOMAIN data : Resets(data[i])
              /\ Write(data)]_vars
=============================================================================
