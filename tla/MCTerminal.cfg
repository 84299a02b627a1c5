\* The emulator with both profiles, the parser, and the application.
SPECIFICATION DisplaySpec
CONSTANTS
  Parts = {"terminal", "parser", "reference"}
  Profiles = {"VT220", "xterm"}
  InitSize <- Screen3x3
  Sizes <- SomeSizes
  Writes <- AllWrites
  Wide = {"w"}
  Marks = {"m"}
  Answerbacks = {"TUI"}
  MaxCalls = 4
  MaxBytes = 9
  Widths = {0, 2, 3}
  Heights = {2}
  InitialEvents = 2
  MaxGeneration = 3
  MaxTicks = 2
  MaxExtra = 5
INVARIANTS
  StringsStayApart
  NeverStalls
PROPERTIES
  OnlyErasureSplits
  RevisionTellsScreen
  OutsideMarginsKept
  PagesAreTrue
CHECK_DEADLOCK FALSE
