\* Events that arrive while the subscription is being registered.
SPECIFICATION Spec
CONSTANTS
  Parts = {"sdk"}
  Scripts <- ThreeScripts
  Failures = {"connect", "parse", "output", "close"}
  Calling = {"a"}
  Events = 2
  Queue = 1
  Buffer = 2
  MayCrash = TRUE
  MayHang = FALSE
  Users = {"a", "b"}
  Steps = {"type", "press", "assert"}
  Callers = {"a", "b"}
  MaxCalls = 5
INVARIANTS
  EventsInOrder
CHECK_DEADLOCK FALSE
