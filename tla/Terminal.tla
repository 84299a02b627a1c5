------------------------------ MODULE Terminal ------------------------------
(***************************************************************************)
(* The emulation engine of both terminal profiles (ansi/terminal.go): what *)
(* each control function the parser recognises does to the screen buffers, *)
(* the cursor, the modes and the revision.                                 *)
(*                                                                         *)
(* A terminal is a record, and every method of the code is an operator     *)
(* from a terminal to a terminal.  A position is a pair <<row, column>>.   *)
(* The text of a cell is a sequence of runes: a combining mark is appended *)
(* to it.  Colours and attributes are the few names that the parameters of *)
(* SGR stand for; what an unsupported report says is left out.             *)
(***************************************************************************)
EXTENDS Integers, Sequences, SequencesExt, FiniteSets

CONSTANTS
  Profiles,     \* subset of {"VT220", "xterm"}
  InitSize,     \* [width, height] of a new terminal
  Sizes,        \* sizes a caller may ask for
  Writes,       \* what a write may carry: sequences of control functions
  Wide,         \* runes two columns wide
  Marks,        \* combining runes, no column wide
  Answerbacks,  \* answerback messages a caller may configure
  MaxCalls      \* bound on the calls of Write, Resize and SetAnswerback

Dimension == [width : Nat, height : Nat]

(* The control functions the parser recognises, with their parameters. *)
Parameter == [value : Nat, present : BOOLEAN, more : BOOLEAN]
ControlFunction ==
  [kind : {"print"}, rune : STRING] \cup [kind : {"execute"}, control : STRING]
  \cup [kind : {"escape"}, intermediate : STRING, final : STRING]
  \cup [kind : {"osc"}, command : Int, data : STRING] \cup [kind : {"string"}]
  \cup [kind : {"csi"}, prefix : STRING, intermediate : STRING, final : STRING,
        parameters : Seq(Parameter)]

ASSUME TerminalAssumption ==
  /\ Profiles \subseteq {"VT220", "xterm"}
  /\ InitSize \in Dimension /\ InitSize.width > 0 /\ InitSize.height > 0
  /\ Sizes \subseteq Dimension
  /\ Writes \subseteq Seq(ControlFunction)
  /\ Wide \cap Marks = {} /\ MaxCalls \in Nat

VARIABLES
  terminal,  \* the engine
  calls      \* number of calls so far

vars == <<terminal, calls>>

Smaller(a, b) == IF a < b THEN a ELSE b
Larger(a, b) == IF a > b THEN a ELSE b

Positions(width, height) == (0..(height - 1)) \X (0..(width - 1))

DefaultColor == -1
DefaultStyle ==
  [attributes |-> {}, foreground |-> DefaultColor, background |-> DefaultColor]
Blank(style) == [text |-> <<" ">>, width |-> 1, style |-> style]

Home == [row |-> 0, column |-> 0, visible |-> TRUE]
NoCursor == [Home EXCEPT !.visible = FALSE]      \* Cursor{}, the zero value

(* A screenBuffer; that of an alternate buffer never used has no cells. *)
NewBuffer(width, height, style, cursor) ==
  [cells |-> [p \in Positions(width, height) |-> Blank(style)],
   cursor |-> cursor, saved |-> NoCursor]
NoBuffer == [cells |-> <<>>, cursor |-> NoCursor, saved |-> NoCursor]

New(size, profile) ==
  [profile |-> profile, width |-> size.width, height |-> size.height,
   buffer |-> [main |-> NewBuffer(size.width, size.height, DefaultStyle, Home),
               alternate |-> NoBuffer],
   active |-> "main", style |-> DefaultStyle, revision |-> 0,
   wrapPending |-> FALSE, autoWrap |-> TRUE, insertMode |-> FALSE, applicationCursor |-> FALSE,
   scrollTop |-> 0, scrollBottom |-> size.height - 1,
   charsets |-> <<FALSE, FALSE>>, charset |-> 1,
   title |-> "", answerback |-> "", events |-> <<>>]

XTerm(t) == t.profile = "xterm"
Cells(t) == t.buffer[t.active].cells
Cursor(t) == t.buffer[t.active].cursor
BlankCell(t) == Blank(t.style)

(* What Snapshot copies besides the revision. *)
Screen(t) == [width |-> t.width, height |-> t.height, cells |-> Cells(t),
              cursor |-> Cursor(t), title |-> t.title]

-----------------------------------------------------------------------------
(* Small steps that the methods share.                                     *)

Changed(t) == [t EXCEPT !.revision = @ + 1]

MoveTo(t, row, column) ==
  [t EXCEPT !.buffer[t.active].cursor = [@ EXCEPT !.row = row, !.column = column]]

SetCells(t, cells) == [t EXCEPT !.buffer[t.active].cells = cells]

NoWrap(t) == [t EXCEPT !.wrapPending = FALSE]
CursorChanged(t) == Changed(NoWrap(t))

Report(t, type, data) == [t EXCEPT !.events = Append(@, [type |-> type, data |-> data])]
Unsupported(t) == Report(t, "unsupported", "")

Erase(t, where) ==
  SetCells(t, [p \in DOMAIN Cells(t) |-> IF p \in where THEN BlankCell(t) ELSE Cells(t)[p]])

(* Rows first..last take the rows `by` further down; rows that would come  *)
(* from outside first..last are cleared.                                   *)
ShiftRows(t, first, last, by) ==
  SetCells(t, [p \in DOMAIN Cells(t) |->
                 IF p[1] \notin first..last THEN Cells(t)[p]
                 ELSE IF p[1] + by \in first..last THEN Cells(t)[p[1] + by, p[2]]
                 ELSE BlankCell(t)])

(* In row, the columns from `first` on take the cells `by` further right. *)
ShiftColumns(t, row, first, by) ==
  SetCells(t, [p \in DOMAIN Cells(t) |->
                 IF p[1] # row \/ p[2] < first THEN Cells(t)[p]
                 ELSE IF p[2] + by \in first..(t.width - 1) THEN Cells(t)[row, p[2] + by]
                 ELSE BlankCell(t)])

(* Half of a wide character without the other half. *)
Unpaired(cells, width, p) ==
  \/ cells[p].width = 0 /\ (p[2] = 0 \/ cells[p[1], p[2] - 1].width # 2)
  \/ cells[p].width = 2 /\ (p[2] + 1 >= width \/ cells[p[1], p[2] + 1].width # 0)

UncheckedCells(cells, width, rows, blank) == cells   \* mutant: nothing is mended

(* normalizeCells on some rows: the loop replaces what was unpaired in the *)
(* row it was given.                                                       *)
NormalizeCells(cells, width, rows, blank) ==
  [p \in DOMAIN cells |->
     IF p[1] \in rows /\ Unpaired(cells, width, p) THEN blank ELSE cells[p]]

(* clearWideCharacterAt: the halves of a wide character at row, column. *)
WideCharacterAt(t, row, column) ==
  LET cells == Cells(t)
      Is(c, width) == c \in 0..(t.width - 1) /\ cells[row, c].width = width
  IN  IF Is(column, 0)
        THEN {<<row, column>>} \cup {p \in {<<row, column - 1>>} : Is(column - 1, 2)}
      ELSE IF Is(column, 2)
        THEN {<<row, column>>} \cup {p \in {<<row, column + 1>>} : Is(column + 1, 0)}
      ELSE {}

ClearWideCharacterAt(t, row, column) == Erase(t, WideCharacterAt(t, row, column))

-----------------------------------------------------------------------------
(* Lines and columns.                                                      *)

ScrollUp(t) == ShiftRows(t, t.scrollTop, t.scrollBottom, 1)

LineFeed(t) ==
  Changed(IF Cursor(t).row = t.scrollBottom THEN ScrollUp(t)
          ELSE IF Cursor(t).row < t.height - 1
            THEN MoveTo(t, Cursor(t).row + 1, Cursor(t).column) ELSE t)

ReverseScreen(t) ==   \* mutant: reverseIndex forgets the upper margin
  Changed(IF Cursor(t).row = t.scrollTop THEN ShiftRows(t, 0, t.scrollBottom, -1)
          ELSE IF Cursor(t).row > 0
            THEN MoveTo(t, Cursor(t).row - 1, Cursor(t).column) ELSE t)

ReverseIndex(t) ==
  Changed(IF Cursor(t).row = t.scrollTop THEN ShiftRows(t, t.scrollTop, t.scrollBottom, -1)
          ELSE IF Cursor(t).row > 0
            THEN MoveTo(t, Cursor(t).row - 1, Cursor(t).column) ELSE t)

(* insertLines and deleteLines do nothing outside the scrolling region. *)
ShiftLines(t, count, downwards) ==
  LET row == Cursor(t).row
      n == Smaller(Larger(1, count), t.scrollBottom - row + 1)
  IN  IF row \notin t.scrollTop..t.scrollBottom THEN t
      ELSE Changed(ShiftRows(t, row, t.scrollBottom, IF downwards THEN -n ELSE n))

InsertLines(t, count) == ShiftLines(t, count, TRUE)
DeleteLines(t, count) == ShiftLines(t, count, FALSE)

(* insertCharacters and deleteCharacters: shift the rest of the line, and  *)
(* mend what the shift cut.                                                *)
Columns(t, count) == Smaller(Larger(1, count), t.width - Cursor(t).column)

ShiftCharacters(t, by) ==
  LET shifted == ShiftColumns(t, Cursor(t).row, Cursor(t).column, by)
  IN  Changed(SetCells(shifted, NormalizeCells(Cells(shifted), t.width, {Cursor(t).row},
                                               BlankCell(t))))

InsertCharacters(t, count) == ShiftCharacters(t, -Columns(t, count))
DeleteCharacters(t, count) == ShiftCharacters(t, Columns(t, count))

EraseCharacters(t, count) ==
  LET c == Cursor(t)
  IN  Changed(Erase(t, {c.row} \X (c.column..(c.column + Columns(t, count) - 1))))

(* eraseLine and eraseDisplay, by mode; other modes do nothing. *)
EraseLine(t, mode) ==
  LET c == Cursor(t)
      columns == CASE mode = 0 -> c.column..(t.width - 1)
                   [] mode = 1 -> 0..c.column
                   [] OTHER    -> 0..(t.width - 1)
  IN  IF mode \notin 0..2 THEN t ELSE Changed(Erase(t, {c.row} \X columns))

Before(p, c) == p[1] < c.row \/ (p[1] = c.row /\ p[2] <= c.column)
After(p, c) == p[1] > c.row \/ (p[1] = c.row /\ p[2] >= c.column)

EraseDisplay(t, mode) ==
  LET where == {p \in DOMAIN Cells(t) : \/ mode = 0 /\ After(p, Cursor(t))
                                        \/ mode = 1 /\ Before(p, Cursor(t))
                                        \/ mode \in {2, 3}}
  IN  IF mode \in 0..2 \/ (mode = 3 /\ XTerm(t)) THEN Changed(Erase(t, where)) ELSE t

-----------------------------------------------------------------------------
(* print and execute.                                                      *)

DecSpecialGraphics(rune) == IF rune = "q" THEN "line" ELSE rune
RuneWidth(rune) == IF rune \in Wide THEN 2 ELSE IF rune \in Marks THEN 0 ELSE 1

(* appendCombining: to the nearest cell before the cursor (or under it     *)
(* when a wrap is pending) that is no continuation.                        *)
AppendCombining(t, rune) ==
  LET column == Cursor(t).column - (IF t.wrapPending THEN 0 ELSE 1)
      bases == {p \in DOMAIN Cells(t) :
                  /\ Before(p, [row |-> Cursor(t).row, column |-> column])
                  /\ Cells(t)[p].width # 0}
      base == CHOOSE p \in bases :
                \A q \in bases : Before(q, [row |-> p[1], column |-> p[2]])
  IN  IF column < 0 \/ bases = {} THEN t
      ELSE Changed(SetCells(t, [Cells(t) EXCEPT ![base].text = Append(@, rune)]))

(* The deferred wrap, and the wrap of a wide character that does not fit. *)
Wrap(t, width) ==
  LET wraps == t.wrapPending \/ (width = 2 /\ Cursor(t).column = t.width - 1 /\ t.autoWrap)
      wrapped == IF t.autoWrap THEN LineFeed(MoveTo(t, Cursor(t).row, 0)) ELSE t
  IN  IF wraps THEN NoWrap(wrapped) ELSE t

(* The cells of a character of this width, and the cursor after it. *)
Draw(t, rune, width) ==
  LET row == Cursor(t).row
      column == Cursor(t).column
      halves == {<<row, column>>} \cup {p \in {<<row, column + 1>>} : width = 2}
      here == ClearWideCharacterAt(t, row, column)
      cleared == IF width = 2 THEN ClearWideCharacterAt(here, row, column + 1) ELSE here
      cell(p) == [text  |-> IF p[2] = column THEN <<rune>> ELSE <<>>,
                  width |-> IF p[2] = column THEN width ELSE 0,
                  style |-> t.style]
      drawn == SetCells(t, [p \in DOMAIN Cells(t) |->
                              IF p \in halves THEN cell(p) ELSE Cells(cleared)[p]])
      atEnd == column + width >= t.width
  IN  Changed([MoveTo(drawn, row, IF atEnd THEN t.width - 1 ELSE column + width)
                 EXCEPT !.wrapPending = IF atEnd THEN t.autoWrap ELSE @])

PrintRune(t, r) ==
  LET rune == IF t.charsets[t.charset] THEN DecSpecialGraphics(r) ELSE r
      asked == IF XTerm(t) THEN RuneWidth(rune) ELSE 1
      wanted == IF asked > t.width THEN 1 ELSE asked
      placed == Wrap(t, wanted)
      width == IF wanted = 2 /\ Cursor(placed).column = t.width - 1 THEN 1 ELSE wanted
      open == IF t.insertMode THEN InsertCharacters(placed, width) ELSE placed
  IN  IF asked = 0 THEN AppendCombining(t, rune) ELSE Draw(open, rune, width)

Execute(t, control) ==
  LET c == Cursor(t) IN
  CASE control = "ENQ" -> Report(t, "enquiry", t.answerback)
    [] control = "BEL" -> Report(t, "bell", "")
    [] control = "BS"  -> CursorChanged(MoveTo(t, c.row, Larger(0, c.column - 1)))
    [] control = "HT"  -> CursorChanged(MoveTo(t, c.row, Smaller(((c.column \div 8) + 1) * 8,
                                                                 t.width - 1)))
    [] control = "LF"  -> NoWrap(LineFeed(t))
    [] control = "CR"  -> CursorChanged(MoveTo(t, c.row, 0))
    [] control = "SO"  -> [t EXCEPT !.charset = 2]
    [] control = "SI"  -> [t EXCEPT !.charset = 1]
    [] control = "C1"  -> Unsupported(t)
    [] OTHER           -> t                     \* NUL and the other C0 controls

-----------------------------------------------------------------------------
(* Escape sequences and operating system commands.                         *)

Reset(t) ==
  Changed([New([width |-> t.width, height |-> t.height], t.profile)
             EXCEPT !.revision = t.revision, !.title = t.title,
                    !.answerback = t.answerback, !.events = t.events])

Restored(t) == [t EXCEPT !.buffer[t.active].cursor = t.buffer[t.active].saved]

HandleEscape(t, intermediate, final) ==
  CASE intermediate = "(" /\ final \in {"0", "B"} -> [t EXCEPT !.charsets[1] = (final = "0")]
    [] intermediate = ")" /\ final \in {"0", "B"} -> [t EXCEPT !.charsets[2] = (final = "0")]
    [] intermediate = "" /\ final = "7" -> [t EXCEPT !.buffer[t.active].saved = Cursor(t)]
    [] intermediate = "" /\ final = "8" -> CursorChanged(Restored(t))
    [] intermediate = "" /\ final = "D" -> LineFeed(t)
    [] intermediate = "" /\ final = "E" -> LineFeed(MoveTo(t, Cursor(t).row, 0))
    [] intermediate = "" /\ final = "M" -> ReverseIndex(t)
    [] intermediate = "" /\ final = "c" -> Reset(t)
    [] intermediate = "" /\ final \in {"=", ">", "\\"} -> t
    [] OTHER -> Unsupported(t)

HandleOSC(t, command, data) ==
  CASE XTerm(t) /\ command \in {0, 2} ->
         IF data = t.title THEN t ELSE Changed([t EXCEPT !.title = data])
    [] XTerm(t) /\ command = 1 -> t
    [] OTHER -> Unsupported(t)

-----------------------------------------------------------------------------
(* Control sequences.  A parameter is [value, present, more].              *)

Param(parameters, index, fallback) ==
  IF index \notin DOMAIN parameters \/ ~parameters[index].present
     \/ parameters[index].value = 0
    THEN fallback ELSE parameters[index].value

(* setScrollRegion: the margins must enclose two lines at least. *)
SetScrollRegion(t, parameters) ==
  LET top == Param(parameters, 1, 1) - 1
      bottom == Param(parameters, 2, t.height) - 1
  IN  IF top < 0 \/ bottom >= t.height \/ top >= bottom THEN t
      ELSE CursorChanged(MoveTo([t EXCEPT !.scrollTop = top, !.scrollBottom = bottom], 0, 0))

EnterAlternate(t, clear) ==
  LET buffer(visible) == NewBuffer(t.width, t.height, t.style, [Home EXCEPT !.visible = visible])
      old == t.buffer.alternate
      fresh == old.cells = <<>> \/ clear
  IN  IF t.active = "alternate"
        THEN IF clear THEN [t EXCEPT !.buffer.alternate = [buffer(TRUE) EXCEPT !.saved = old.saved]]
                      ELSE t
      ELSE CursorChanged(
             [t EXCEPT !.active = "alternate",
                       !.buffer.alternate = IF fresh THEN buffer(t.buffer.main.cursor.visible)
                                                     ELSE @])

ExitAlternate(t) ==
  IF t.active # "alternate" THEN t ELSE CursorChanged([t EXCEPT !.active = "main"])

(* setXTermPrivateMode. *)
MainSaved(t) == [t EXCEPT !.buffer.main.saved = t.buffer.main.cursor]
MainRestored(t) ==
  LET main == t.buffer.main
  IN  [t EXCEPT !.buffer.main.cursor = [main.saved EXCEPT !.visible = main.cursor.visible]]

SetXTermPrivateMode(t, mode, enabled) ==
  IF enabled THEN EnterAlternate(IF mode = 1049 THEN MainSaved(t) ELSE t, mode # 47)
  ELSE IF mode = 1049 THEN MainRestored(ExitAlternate(t)) ELSE ExitAlternate(t)

IgnoredPrivateModes == {12, 1000, 1002, 1003, 1004, 1005, 1006, 1015, 2004}

ShowCursor(t, visible) ==
  [t EXCEPT !.buffer.main.cursor.visible = visible,
            !.buffer.alternate.cursor.visible =
              IF t.buffer.alternate.cells = <<>> THEN @ ELSE visible]

SetPrivateMode(t, mode, enabled) ==
  CASE mode = 1 -> [t EXCEPT !.applicationCursor = enabled]
    [] mode = 7 -> NoWrap([t EXCEPT !.autoWrap = enabled])
    [] mode = 25 -> Changed(ShowCursor(t, enabled))
    [] mode \in IgnoredPrivateModes -> t
    [] XTerm(t) /\ mode \in {47, 1047, 1049} -> SetXTermPrivateMode(t, mode, enabled)
    [] OTHER -> Unsupported(t)

SetMode(t, mode, enabled) ==
  IF mode = 4 THEN [t EXCEPT !.insertMode = enabled] ELSE Unsupported(t)

(* The loops of setModes and setPrivateModes over the present parameters. *)
SetModes(t, command, parameters) ==
  LET enabled == command.final = "h"
      after[n \in 0..Len(parameters)] ==
        IF n = 0 THEN t
        ELSE IF ~parameters[n].present THEN after[n - 1]
        ELSE IF command.prefix = "?"
          THEN SetPrivateMode(after[n - 1], parameters[n].value, enabled)
        ELSE SetMode(after[n - 1], parameters[n].value, enabled)
  IN  after[Len(parameters)]

Styled(t, style) == [t EXCEPT !.style = style]

(* setExtendedColor: where the parameters of a 38 or 48 at index end, and  *)
(* what they select.                                                       *)
SetExtendedColor(t, parameters, index, ground) ==
  LET last == Len(parameters)
      Value(i) == IF i <= last THEN parameters[i].value ELSE -1
      group == {i \in index..last : \A j \in index..(i - 1) : parameters[j].more}
      end == CHOOSE i \in group : \A j \in group : j <= i
      color == Value(index + 2)
  IN  IF ~XTerm(t) THEN [terminal |-> Unsupported(t), index |-> index]
      ELSE IF Value(index + 1) = 2
        THEN [terminal |-> Unsupported(t),
              index |-> IF parameters[index].more THEN end ELSE Smaller(index + 4, last)]
      ELSE IF index + 2 > last \/ Value(index + 1) # 5 \/ ~parameters[index + 2].present
        THEN [terminal |-> t, index |-> index]
      ELSE [terminal |-> IF color \in 0..255 THEN Styled(t, [t.style EXCEPT ![ground] = color])
                         ELSE t,
            index |-> index + 2]

Attribute == (1 :> "bold") @@ (4 :> "underline") @@ (5 :> "blink") @@ (7 :> "reverse")
             @@ (8 :> "conceal")

(* One parameter of SGR that stands alone. *)
SetAttribute(t, value) ==
  LET old == t.style
      off == Attribute[IF value = 22 THEN 1 ELSE value - 20]
  IN
  CASE value = 0 -> Styled(t, DefaultStyle)
    [] value \in DOMAIN Attribute ->
         Styled(t, [old EXCEPT !.attributes = @ \cup {Attribute[value]}])
    [] value \in {22, 24, 25, 27, 28} -> Styled(t, [old EXCEPT !.attributes = @ \ {off}])
    [] value \in 30..37 -> Styled(t, [old EXCEPT !.foreground = value - 30])
    [] value = 39       -> Styled(t, [old EXCEPT !.foreground = DefaultColor])
    [] value \in 40..47 -> Styled(t, [old EXCEPT !.background = value - 40])
    [] value = 49       -> Styled(t, [old EXCEPT !.background = DefaultColor])
    [] XTerm(t) /\ value \in 90..97   -> Styled(t, [old EXCEPT !.foreground = value - 82])
    [] XTerm(t) /\ value \in 100..107 -> Styled(t, [old EXCEPT !.background = value - 92])
    [] OTHER -> Unsupported(t)

(* setRendition: the loop's turn at parameter n, and after[n], the         *)
(* terminal after the first n turns with the index of the parameter that   *)
(* the last one stopped at.                                                *)
Turn(s, parameters, n) ==
  LET value == IF parameters[n].present THEN parameters[n].value ELSE 0 IN
  IF n <= s.index THEN s
  ELSE IF value \in {38, 48}
    THEN SetExtendedColor(s.terminal, parameters, n,
                          IF value = 38 THEN "foreground" ELSE "background")
  ELSE [terminal |-> SetAttribute(s.terminal, value), index |-> n]

SetRendition(t, parameters) ==
  LET after[n \in 0..Len(parameters)] ==
        IF n = 0 THEN [terminal |-> t, index |-> 0] ELSE Turn(after[n - 1], parameters, n)
  IN  IF parameters = <<>> THEN SetAttribute(t, 0) ELSE after[Len(parameters)].terminal

HandleCSI(t, command, parameters) ==
  LET c == Cursor(t)
      n == Param(parameters, 1, 1)
      Row(r) == Smaller(t.height - 1, Larger(0, r))
      Column(k) == Smaller(t.width - 1, Larger(0, k))
      Move(r, k) == CursorChanged(MoveTo(t, Row(r), Column(k)))
      final == command.final
  IN
  CASE command.prefix = "?" /\ command.intermediate = "" /\ final \in {"h", "l"} ->
         SetModes(t, command, parameters)
    [] ~(command.prefix = "?" /\ command.intermediate = "" /\ final \in {"h", "l"})
       /\ (command.prefix # "" \/ command.intermediate # "") -> Unsupported(t)
    [] command.prefix = "" /\ command.intermediate = "" ->
         CASE final = "@" -> InsertCharacters(t, n)
           [] final = "A" -> Move(c.row - n, c.column)
           [] final = "B" -> Move(c.row + n, c.column)
           [] final = "C" -> Move(c.row, c.column + n)
           [] final = "D" -> Move(c.row, c.column - n)
           [] final = "G" -> Move(c.row, n - 1)
           [] final \in {"H", "f"} -> Move(n - 1, Param(parameters, 2, 1) - 1)
           [] final = "J" -> EraseDisplay(t, Param(parameters, 1, 0))
           [] final = "K" -> EraseLine(t, Param(parameters, 1, 0))
           [] final = "L" -> InsertLines(t, n)
           [] final = "M" -> DeleteLines(t, n)
           [] final = "P" -> DeleteCharacters(t, n)
           [] final = "X" -> EraseCharacters(t, n)
           [] final \in {"h", "l"} -> SetModes(t, command, parameters)
           [] final = "m" -> SetRendition(t, parameters)
           [] final = "r" -> SetScrollRegion(t, parameters)
           [] OTHER -> Unsupported(t)

-----------------------------------------------------------------------------
(* The calls of the session.                                               *)

(* What the parser's handler does with one control function. *)
Apply(t, f) ==
  CASE f.kind = "print"   -> PrintRune(t, f.rune)
    [] f.kind = "execute" -> Execute(t, f.control)
    [] f.kind = "escape"  -> HandleEscape(t, f.intermediate, f.final)
    [] f.kind = "osc"     -> HandleOSC(t, f.command, f.data)
    [] f.kind = "csi"     -> HandleCSI(t, f, f.parameters)
    [] f.kind = "string"  -> Unsupported(t)           \* DCS, PM, APC and SOS

Applied(t, data) ==
  LET after[n \in 0..Len(data)] == IF n = 0 THEN t ELSE Apply(after[n - 1], data[n])
  IN  [after[Len(data)] EXCEPT !.revision = IF @ = t.revision THEN @ ELSE t.revision + 1]

Write(data) ==
  /\ calls < MaxCalls
  /\ terminal' = Applied(terminal, data)
  /\ calls' = calls + 1

Inside(c, width, height) ==
  [c EXCEPT !.row = Smaller(@, height - 1), !.column = Smaller(@, width - 1)]
ResizeBuffer(t, b, width, height) ==
  LET copied == [p \in Positions(width, height) |->
                   IF p \in Positions(t.width, t.height) THEN b.cells[p] ELSE BlankCell(t)]
  IN  [cells  |-> NormalizeCells(copied, width, 0..(height - 1), BlankCell(t)),
       cursor |-> Inside(b.cursor, width, height), saved |-> Inside(b.saved, width, height)]

Resized(t, width, height) ==
  [t EXCEPT !.buffer = [b \in DOMAIN @ |-> IF @[b].cells = <<>> THEN @[b]
                                           ELSE ResizeBuffer(t, @[b], width, height)],
            !.width = width, !.height = height, !.wrapPending = FALSE, !.revision = @ + 1,
            !.scrollTop = 0, !.scrollBottom = height - 1]

Resize(size) ==
  /\ calls < MaxCalls
  /\ size.width > 0 /\ size.height > 0          \* otherwise an error and no change
  /\ terminal' = IF size.width = terminal.width /\ size.height = terminal.height
                   THEN terminal ELSE Resized(terminal, size.width, size.height)
  /\ calls' = calls + 1

DrainEvents ==
  /\ terminal.events # <<>>
  /\ terminal' = [terminal EXCEPT !.events = <<>>]
  /\ UNCHANGED calls

SetAnswerback(message) ==
  /\ calls < MaxCalls
  /\ terminal' = [terminal EXCEPT !.answerback = message]
  /\ calls' = calls + 1

Init == calls = 0 /\ \E profile \in Profiles : terminal = New(InitSize, profile)

Next ==
  \/ \E data \in Writes : Write(data)
  \/ \E size \in Sizes : Resize(size)
  \/ \E message \in Answerbacks : SetAnswerback(message)
  \/ DrainEvents

Spec == Init /\ [][Next]_vars
=============================================================================
