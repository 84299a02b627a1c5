\* A request, two controls, two operations and two releases.
SPECIFICATION FairSpec
CONSTANTS
  Clients = {k1}
  Controls = {c1,c2}
  Operations = {o1, o2}
  Releases = {r1,r2}
  None = None
INVARIANTS
  ExclusiveInput
  ReleaseIsFinal
PROPERTIES
  ControlKept
  EveryoneAnswered
CHECK_DEADLOCK FALSE
