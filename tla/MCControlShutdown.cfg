\* A request and an operation while the driver closes.
SPECIFICATION Spec
CONSTANTS
  Clients = {k1}
  Controls = {c1}
  Operations = {o1}
  Releases = {r1}
  None = None
INVARIANTS
  ExclusiveUntilReleased
CHECK_DEADLOCK FALSE
