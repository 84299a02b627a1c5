\* The driver, the SDK's client, the Workbench and the MCP service.  A
\* client may stay silent: the system may stop.  SdkClient: one call besides
\* the subscription's and the shutdown's, two events, and a queue and a
\* channel of one.  McpService: two callers, and as many calls as requests
\* of Workbench.
SPECIFICATION Spec
CONSTANTS
  Parts = {"driver", "sdk", "workbench", "mcp"}
  Scripts <- ThreeScripts
  Failures = {"connect", "parse", "output", "close"}
  Calling = {"a"}
  Events = 2
  Queue = 1
  Buffer = 1
  MayCrash = TRUE
  MayHang = TRUE
  Users = {"a", "b"}
  Steps = {"type", "press", "assert"}
  Callers = {"a", "b"}
  MaxCalls = 5
INVARIANTS
  EveryRequestAnswered
  NothingUnreachable
  RecordingsAreTrue
  ControlIsNotLost
PROPERTIES
  ClosedIsFinal
  CallersReturn
CHECK_DEADLOCK FALSE
