------------------------------ MODULE Reference ------------------------------
(***************************************************************************)
(* The reference application, package reference: one Bubble Tea model that *)
(* shows a page at a time.  Opening a page makes its model anew, and only  *)
(* the page that is shown is updated, so one variable holds the model of   *)
(* the page.  Bubble Tea is external: it hands the messages of keys, sizes *)
(* and timers to Update one by one, and a timer's message may come after   *)
(* any number of others.  Colors, Function Keys and Unicode only show what *)
(* they are given and are left out.                                        *)
(***************************************************************************)
EXTENDS Integers, Sequences, FiniteSets, Bags

CONSTANTS
  Widths, Heights,   \* the sizes a remote protocol may report
  InitialEvents,     \* the rows of the scrolling page at first (100)
  MaxGeneration,     \* bound: how often a page's timers are started or stopped
  MaxTicks,          \* bound: timers in flight
  MaxExtra           \* bound: events, keys or beats of what has no end of its own

VARIABLES
  running,    \* the program
  page,       \* Application.page
  login,      \* loginInputs and loginFocus
  selected,   \* the menu's selection
  size,       \* width and height
  model,      \* the model of the page that is shown; <<>> for login and menu
  ticks       \* the timers in flight: a bag of pages with generations

referenceVars == <<running, page, login, selected, size, model, ticks>>

Pages == <<"form", "table", "scrolling", "colors", "cursor", "keys", "partial",
           "longRunning", "resize", "unicode", "bellENQ">>
Modelled == {"form", "table", "scrolling", "cursor", "partial", "longRunning", "resize", "bellENQ"}
MenuItems == 13
VTTest == MenuItems - 1

Lower(a, b) == IF a < b THEN a ELSE b
Higher(a, b) == IF a > b THEN a ELSE b
Clamp(low, n, high) == Higher(low, Lower(n, high))

----------------------------------------------------------------------------
(* The receiving form: four inputs, notes, a priority and two buttons.  An *)
(* input is blank, right, or (the quantity) not a positive number.         *)
Fields == 0..3
Quantity == 2
Submit == 6
Cancel == 7
Controls == 8
Valid(value) == value = "right"

NewForm ==
  [focus |-> 0, inputs |-> [f \in Fields |-> "blank"], priority |-> 0, errors |-> {},
   submitted |-> FALSE]

Smallest(S) == CHOOSE n \in S : \A m \in S : n <= m

Submitted(m) ==
  LET invalid == {f \in Fields : ~Valid(m.inputs[f])} IN
  IF invalid = {} THEN [m EXCEPT !.errors = {}, !.submitted = TRUE]
  ELSE [m EXCEPT !.errors = invalid, !.focus = Smallest(invalid)]

Edited(m, value) ==
  [m EXCEPT !.inputs[m.focus] = value, !.errors = @ \ {m.focus}]

FormSteps(m) ==
  IF m.submitted THEN {m, NewForm}
  ELSE {[m EXCEPT !.focus = (@ + delta) % Controls] : delta \in {1, Controls - 1}}
       \cup (IF m.focus = Submit THEN {Submitted(m)} ELSE {})
       \cup (IF m.focus = 5 THEN {[m EXCEPT !.priority = 1 - @]} ELSE {})
       \cup (IF m.focus \in Fields
             THEN {Edited(m, v) : v \in {"blank", "right"}
                                    \cup (IF m.focus = Quantity THEN {"not a number"} ELSE {})}
             ELSE {})

(* The order table.  Three orders stand for the thirty; a filter is the    *)
(* set of orders it matches.                                               *)
Orders == 1..3
SortedBy == << <<1, 2, 3>>, <<2, 3, 1>>, <<3, 1, 2>> >>   \* by order, status, quantity

RowsOf(m) == SelectSeq(SortedBy[m.sort + 1], LAMBDA o : o \in m.filter)
SelectedOrder(m) == IF m.cursor \in 0..(Len(RowsOf(m)) - 1) THEN RowsOf(m)[m.cursor + 1] ELSE 0

(* applyRows, after the table dropped a cursor that is past the new rows. *)
WithRows(m) ==
  LET last == Len(RowsOf(m)) - 1 IN
  [m EXCEPT !.cursor = IF last >= 0 THEN Clamp(0, @, last) ELSE -1]

NewTable ==
  [sort |-> 0, filter |-> Orders, filtering |-> FALSE, detail |-> FALSE, cursor |-> 0]

TableSteps(m) ==
  IF m.detail THEN {[m EXCEPT !.detail = FALSE]}
  ELSE IF m.filtering
  THEN {WithRows([m EXCEPT !.filter = f]) : f \in SUBSET Orders}
       \cup {[m EXCEPT !.filtering = FALSE],
             WithRows([m EXCEPT !.filtering = FALSE, !.filter = Orders])}
  ELSE {[m EXCEPT !.filtering = TRUE], WithRows([m EXCEPT !.sort = (@ + 1) % 3])}
       \cup {[m EXCEPT !.cursor = c] : c \in 0..(Len(RowsOf(m)) - 1)}
       \cup (IF SelectedOrder(m) # 0 THEN {[m EXCEPT !.detail = TRUE]} ELSE {})

(* resize: the rows are removed before the columns change, and the order   *)
(* that was selected is found again.                                       *)
FirstRow(m) == IF RowsOf(m) = <<>> THEN -1 ELSE 0
ResizedTable(m) ==
  LET rows == RowsOf(m)
      order == SelectedOrder(m)
  IN  [m EXCEPT !.cursor = IF order = 0 THEN FirstRow(m)
                           ELSE (CHOOSE i \in DOMAIN rows : rows[i] = order) - 1]

----------------------------------------------------------------------------
(* The event log.  Its cursor follows appended events or is moved. *)
NewScrolling ==
  [events |-> InitialEvents, cursor |-> 0, follow |-> FALSE, streaming |-> FALSE,
   remaining |-> 0, generation |-> 1]

Appended(m) ==
  [m EXCEPT !.events = @ + 1, !.cursor = IF m.follow THEN m.events ELSE @]

(* move: leaving the last row ends following. *)
Moved(m, delta) ==
  LET cursor == Clamp(0, m.cursor + delta, m.events - 1) IN
  [m EXCEPT !.cursor = cursor, !.follow = @ /\ cursor = m.events - 1]

ScrollingSteps(m, s) ==
  {Moved(m, d) : d \in {-1, 1, -Higher(1, s.height - 8), Higher(1, s.height - 8)}}
  \cup {[m EXCEPT !.cursor = 0, !.follow = FALSE], [m EXCEPT !.cursor = m.events - 1],
        [m EXCEPT !.follow = ~@, !.cursor = IF m.follow THEN @ ELSE m.events - 1],
        [NewScrolling EXCEPT !.generation = m.generation + 1]}
  \cup (IF m.events < InitialEvents + MaxExtra THEN {Appended(m)} ELSE {})

ScrollingTicked(m) ==
  [Appended(m) EXCEPT !.remaining = @ - 1, !.streaming = m.remaining > 1]

(* The cursor page: a position, and a saved one (0 is not saved). *)
NewCursor(s) ==
  [column |-> (s.width - 1) \div 2, row |-> (s.height - 1) \div 2, saved |-> <<>>, visible |-> TRUE]

At(m, column, row, s) ==
  [m EXCEPT !.column = Clamp(0, column, s.width - 1), !.row = Clamp(0, row, s.height - 1)]

CursorSteps(m, s) ==
  {At(m, m.column + d, m.row, s) : d \in {-1, 1}}
  \cup {At(m, m.column, m.row + d, s) : d \in {-1, 1}}
  \cup {NewCursor(s), [m EXCEPT !.saved = <<m.column, m.row>>], [m EXCEPT !.visible = ~@]}
  \cup (IF m.saved # <<>> THEN {At(m, m.saved[1], m.saved[2], s)} ELSE {})
  \cup {LET a == At(m, m.column + 1, m.row, s)
            b == At(a, a.column, a.row + 1, s)
            c == At(b, b.column, b.row + 1, s)
        IN  At(c, c.column - 1, c.row, s)}

ResizedCursor(m, s) ==
  [At(m, m.column, m.row, s) EXCEPT
     !.saved = IF @ = <<>> THEN @
               ELSE <<Clamp(0, @[1], s.width - 1), Clamp(0, @[2], s.height - 1)>>]

(* The resize page: a target, a selection and a count of sizes. *)
NewResize == [target |-> 80, selected |-> 0, count |-> 0]
ResizeSteps(m) ==
  {[m EXCEPT !.target = IF @ = 80 THEN 132 ELSE 80]}
  \cup {[m EXCEPT !.selected = (@ + d) % 3] : d \in {1, 2}}

(* BEL once, then ENQ once; text after ENQ is the answerback. *)
NewBell == [waiting |-> FALSE, events |-> <<>>]
Emitted(m, what) == \E i \in DOMAIN m.events : m.events[i] = what
CanBell(m) == ~Emitted(m, "BEL")
CanEnquire(m) == Emitted(m, "BEL") /\ ~Emitted(m, "ENQ")
BellSteps(m) ==
  IF m.waiting /\ Len(m.events) < MaxExtra THEN {[m EXCEPT !.events = Append(@, "answer")]}
  ELSE (IF ~m.waiting /\ CanBell(m) THEN {[m EXCEPT !.events = Append(@, "BEL")]} ELSE {})
       \cup (IF ~m.waiting /\ CanEnquire(m)
             THEN {[waiting |-> TRUE, events |-> Append(m.events, "ENQ")]} ELSE {})

----------------------------------------------------------------------------
(* The timed scenarios: starting, stopping and pausing change the          *)
(* generation, and only the current generation's timer is obeyed.          *)
NewPartial ==
  [mode |-> "none", step |-> 0, running |-> FALSE, generation |-> 0, ignored |-> 0, accepted |-> 0]
LastStep(m) ==
  CASE m.mode = "ready" -> 4 [] m.mode = "regions" -> 5 [] m.mode = "progress" -> 10 [] OTHER -> 0

PartialTicked(m) == [m EXCEPT !.step = @ + 1, !.running = m.step + 1 < LastStep(m)]

(* A key is ignored while the screen is drawn, and input afterwards. *)
Gated(m) == m.running \/ m.step < LastStep(m)

PartialSteps(m) ==
  IF m.mode = "ready" /\ m.ignored + m.accepted < MaxExtra
  THEN {IF Gated(m) THEN [m EXCEPT !.ignored = @ + 1] ELSE [m EXCEPT !.accepted = @ + 1]}
  ELSE {}

NewLongRunning ==
  [mode |-> "none", running |-> FALSE, paused |-> FALSE, generation |-> 0, heartbeats |-> 0,
   processed |-> 0, succeeded |-> 0, failed |-> 0, remaining |-> 0, status |-> "", events |-> 0]

Stopped(m, status) ==
  [m EXCEPT !.running = FALSE, !.paused = FALSE, !.generation = @ + 1, !.status = status]

(* advance: one heartbeat. *)
Beaten(m) == [m EXCEPT !.heartbeats = @ + 1]
Logged(m) == IF m.heartbeats % 4 = 0 THEN [m EXCEPT !.events = Lower(8, @ + 1)] ELSE m

FiniteBeat(m) ==
  LET batch == Lower(3, m.remaining)
      processed == m.processed + batch
      next == Logged([Beaten(m) EXCEPT !.processed = processed, !.remaining = @ - batch,
                                       !.failed = processed \div 30,
                                       !.succeeded = processed - processed \div 30])
  IN  IF next.remaining = 0 THEN Stopped(next, "COMPLETE") ELSE next

FailureBeat(m) ==
  LET next == [Beaten(m) EXCEPT !.processed = @ + 10, !.remaining = @ - 10,
                                !.succeeded = m.processed + 10]
  IN  IF next.processed = 60
      THEN Stopped([next EXCEPT !.failed = 1, !.succeeded = 59], "FAILED") ELSE next

LongRunningTicked(m) ==
  CASE m.mode = "finite" -> FiniteBeat(m)
    [] m.mode = "failure" -> FailureBeat(m)
    [] m.mode = "continuous" ->
         Logged([Beaten(m) EXCEPT !.processed = @ + 1, !.succeeded = m.processed + 1])

LongRunningStops(m) ==
  IF m.running
  THEN {Stopped(m, "CANCELED"),
        [m EXCEPT !.paused = TRUE, !.generation = @ + 1, !.status = "PAUSED"]}
  ELSE {}

(* What starts a timer: a model with a new generation. *)
Total(mode) == CASE mode = "finite" -> 120 [] mode = "failure" -> 100 [] OTHER -> -1

(* mutant: a stream that is started again obeys the timer of the one before *)
StreamedAgain(m) == [m EXCEPT !.streaming = TRUE, !.remaining = 5]
Streamed(m) == [m EXCEPT !.streaming = TRUE, !.remaining = 5, !.generation = @ + 1]

Starts(p, m) ==
  CASE p = "scrolling" ->
         {Streamed(m)}
    [] p = "partial" ->
         {[NewPartial EXCEPT !.mode = mode, !.running = TRUE, !.generation = m.generation + 1] :
            mode \in {"ready", "regions", "progress"}}
    [] p = "longRunning" ->
         {[NewLongRunning EXCEPT !.mode = mode, !.running = TRUE, !.status = "RUNNING",
                                 !.generation = m.generation + 1, !.remaining = Total(mode)] :
            mode \in {"finite", "continuous", "failure"}}
         \cup (IF m.running /\ m.paused
               THEN {[m EXCEPT !.paused = FALSE, !.generation = @ + 1, !.status = "RUNNING"]}
               ELSE {})
    [] OTHER -> {}

Timed == {"scrolling", "partial", "longRunning"}
Active(p, m) ==
  CASE p = "scrolling" -> m.streaming
    [] p = "partial" -> m.running
    [] p = "longRunning" -> m.running /\ ~m.paused
    [] OTHER -> FALSE

Ticked(p, m) ==
  CASE p = "scrolling" -> ScrollingTicked(m)
    [] p = "partial" -> PartialTicked(m)
    [] p = "longRunning" -> LongRunningTicked(m)

NewModel(p, s) ==
  CASE p = "form" -> NewForm [] p = "table" -> NewTable [] p = "scrolling" -> NewScrolling
    [] p = "cursor" -> NewCursor(s) [] p = "partial" -> NewPartial
    [] p = "longRunning" -> NewLongRunning [] p = "resize" -> NewResize [] p = "bellENQ" -> NewBell

Steps(p, m, s) ==
  CASE p = "form" -> FormSteps(m) [] p = "table" -> TableSteps(m)
    [] p = "scrolling" -> ScrollingSteps(m, s) [] p = "cursor" -> CursorSteps(m, s)
    [] p = "partial" -> PartialSteps(m) [] p = "longRunning" -> LongRunningStops(m)
    [] p = "resize" -> ResizeSteps(m) [] p = "bellENQ" -> BellSteps(m)

Resized(p, m, s) ==
  CASE p = "table" -> ResizedTable(m)
    [] p = "cursor" -> ResizedCursor(m, s)
    [] p = "scrolling" -> [m EXCEPT !.cursor = Clamp(0, @, m.events - 1)]
    [] p = "resize" -> [m EXCEPT !.count = Lower(MaxExtra, @ + 1)]
    [] OTHER -> m

----------------------------------------------------------------------------
NewLogin == [focus |-> 0, user |-> "", password |-> ""]

Init ==
  /\ running = TRUE
  /\ page = "login"
  /\ login = NewLogin
  /\ selected = 0
  /\ size \in [width : Widths \ {0}, height : Heights \ {0}]
  /\ model = <<>>
  /\ ticks = EmptyBag

(* updateLogin: the focused input is edited, or the focus moves. *)
LoginKey ==
  /\ running /\ page = "login"
  /\ \/ login' = [login EXCEPT !.focus = 1 - @]
     \/ login' = NewLogin
     \/ \E text \in {"", "right", "wrong"} :
          login' = IF login.focus = 0 THEN [login EXCEPT !.user = text]
                   ELSE [login EXCEPT !.password = text]
  /\ UNCHANGED <<running, page, selected, size, model, ticks>>

Matches == login.user = "right" /\ login.password = "right"

(* authenticate, by F1 anywhere or Enter in the password. *)
Authenticate ==
  /\ running /\ page = "login"
  /\ IF Matches
     THEN page' = "menu" /\ selected' = 0 /\ UNCHANGED login
     ELSE login' = [login EXCEPT !.password = "", !.focus = 0] /\ UNCHANGED <<page, selected>>
  /\ UNCHANGED <<running, size, model, ticks>>

(* updateMenu *)
MenuKey ==
  /\ running /\ page = "menu"
  /\ \/ selected' \in {(selected + 1) % MenuItems, (selected + MenuItems - 1) % MenuItems} \cup 0..8
        /\ UNCHANGED <<page, login, model>>
     \/ page' = "login" /\ login' = NewLogin /\ UNCHANGED <<selected, model>>
     \/ /\ selected \in 1..(VTTest - 1) /\ Pages[selected] \in Modelled
        /\ page' = Pages[selected]
        /\ model' = NewModel(page', size)
        /\ UNCHANGED <<selected, login>>
  /\ UNCHANGED <<running, size, ticks>>

(* The program ends, and its timers with it. *)
End ==
  /\ running' = FALSE /\ model' = <<>> /\ ticks' = EmptyBag
  /\ UNCHANGED <<page, login, selected, size>>

(* VTTEST suspends the program; a terminal that cannot be restored ends it. *)
VTTestRuns ==
  /\ running /\ page = "menu" /\ selected = VTTest
  /\ \/ End
     \/ UNCHANGED referenceVars

(* A key of the page that is shown, and the one that leaves it. *)
PageKey ==
  /\ running /\ page \in Modelled
  /\ model' \in Steps(page, model, size)
  /\ page \in Timed => model'.generation <= MaxGeneration
  /\ UNCHANGED <<running, page, login, selected, size, ticks>>

Timer(p, generation) == SetToBag({<<p, generation>>})

(* mutant: the timer is started for the generation before *)
StartKeyStale ==
  /\ running /\ page \in Timed
  /\ model' \in Starts(page, model)
  /\ model'.generation <= MaxGeneration /\ BagCardinality(ticks) < MaxTicks
  /\ ticks' = ticks (+) Timer(page, model.generation)
  /\ UNCHANGED <<running, page, login, selected, size>>

StartKey ==
  /\ running /\ page \in Timed
  /\ model' \in Starts(page, model)
  /\ model'.generation <= MaxGeneration /\ BagCardinality(ticks) < MaxTicks
  /\ ticks' = ticks (+) Timer(page, model'.generation)
  /\ UNCHANGED <<running, page, login, selected, size>>

CanLeave ==
  CASE page = "table" -> ~model.detail /\ ~model.filtering [] OTHER -> TRUE

Leave ==
  /\ running /\ page \in Modelled /\ CanLeave
  /\ page' = "menu"
  /\ model' = <<>>
  /\ UNCHANGED <<running, login, selected, size, ticks>>

(* A timer: dropped unless its page is shown and runs its generation. *)
Obeyed(t) == page = t[1] /\ Active(page, model) /\ model.generation = t[2]
Bounded(p, m) ==
  /\ p = "longRunning" /\ m.mode = "continuous" => m.heartbeats < MaxExtra
  /\ p = "scrolling" => m.events < InitialEvents + MaxExtra

Tick(t) ==
  /\ running /\ t \in BagToSet(ticks)
  /\ IF Obeyed(t)
     THEN /\ Bounded(page, model)
          /\ model' = Ticked(page, model)
          /\ ticks' = IF Active(page, model') THEN ticks ELSE ticks (-) SetToBag({t})
     ELSE ticks' = ticks (-) SetToBag({t}) /\ UNCHANGED model
  /\ UNCHANGED <<running, page, login, selected, size>>

(* resize of the application: a size that is not positive is ignored. *)
Resize ==
  /\ running
  /\ \E width \in Widths, height \in Heights :
       IF width = 0 \/ height = 0 THEN UNCHANGED <<size, model>>
       ELSE /\ size' = [width |-> width, height |-> height]
            /\ model' = Resized(page, model, size')
  /\ UNCHANGED <<running, page, login, selected, ticks>>

Quit == running /\ End

Timers == Timed \X (0..MaxGeneration)

Next ==
  \/ LoginKey \/ Authenticate \/ MenuKey \/ VTTestRuns \/ PageKey \/ StartKey \/ Leave
  \/ Resize \/ Quit
  \/ \E t \in Timers : Tick(t)

Spec == Init /\ [][Next]_referenceVars

----------------------------------------------------------------------------
(* A scenario that goes on has a timer of its generation on its way,       *)
(* however often it was started, paused and resumed: it never stalls       *)
(* (reference/long_running.go:45-152, reference/partial.go:40-93,          *)
(* reference/scrolling.go:36-93).                                          *)
NeverStalls ==
  running /\ Active(page, model) => <<page, model.generation>> \in BagToSet(ticks)

(* What the pages show is true: the counters of an operation agree and it  *)
(* ends where it should; input is accepted when the screen is complete;    *)
(* following stays at the last event; positions are inside the screen      *)
(* after any resize; an error is about the value that is shown; details    *)
(* are of an order that is listed (reference/long_running.go:121-152,      *)
(* partial.go:40-83, scrolling.go:36-99, 149-162, cursor.go:64-115,        *)
(* form.go:66-125, 171-220, table.go:58-107).                              *)
PagesAreTrue == running =>
  /\ page = "longRunning" /\ model.mode # "none" =>
       /\ model.processed = model.succeeded + model.failed
       /\ (Total(model.mode) >= 0) => model.processed + model.remaining = Total(model.mode)
       /\ model.status = "COMPLETE" => model.processed = 120
       /\ model.status = "FAILED" => model.processed = 60
  /\ page = "partial" /\ model.accepted > 0 => model.step = LastStep(model)
  /\ page = "scrolling" =>
       model.cursor < model.events /\ (model.follow => model.cursor = model.events - 1)
  /\ page = "cursor" =>
       \A at \in {<<model.column, model.row>>}
                  \cup (IF model.saved = <<>> THEN {} ELSE {model.saved}) :
         at[1] \in 0..(size.width - 1) /\ at[2] \in 0..(size.height - 1)
  /\ page = "form" =>
       /\ \A f \in model.errors : ~Valid(model.inputs[f])
       /\ model.submitted => \A f \in Fields : Valid(model.inputs[f])
  /\ page = "table" /\ model.detail => SelectedOrder(model) # 0

(* A resize keeps the order that is selected, or shown in detail, with any *)
(* filter and sorting (reference/table.go:119-207).                        *)
SelectionKept ==
  page = "table" /\ page' = "table" /\ size' # size
    => SelectedOrder(model) \in {0, SelectedOrder(model')}

(* The timers of the page that is shown are of generations that it has     *)
(* had, and one at most is of the generation that it has.                  *)
OneTimerAtMost ==
  \A g \in 0..MaxGeneration : <<page, g>> \in BagToSet(ticks) =>
    g <= model.generation /\ (g = model.generation => ticks[<<page, g>>] = 1)

(* As long as a page is shown, no key, timer or resize gives its scenario  *)
(* a second timer: one that was started before a restart, a pause or a     *)
(* cancellation does not drive what comes after it                         *)
(* (reference/scrolling.go:36-93, partial.go:40-93,                        *)
(* long_running.go:45-119). Only a timer of an earlier visit to the page   *)
(* can (see OneTimer).                                                     *)
TimersStayApart ==
  running' /\ page' = page /\ page \in Timed /\ OneTimerAtMost => OneTimerAtMost'

(* Does not hold. Design/reference-tui.md:112-113: streaming appends five  *)
(* rows at controlled 75 ms intervals. A row is appended by the timer that *)
(* the row before started, so a stream has one timer on its way. But a     *)
(* page that is opened again counts its generations from the start         *)
(* (reference/application.go:438, scrolling.go:30-34), and a timer of the  *)
(* visit before is one of the new stream's generation. The other timed     *)
(* pages count likewise (reference/application.go:450, 453).               *)
OneTimer ==
  LET t == <<page, model.generation>> IN
  running /\ page = "scrolling" /\ Active(page, model) /\ t \in BagToSet(ticks) => ticks[t] = 1
=============================================================================
