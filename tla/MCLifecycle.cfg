\* One connection, two sessions, and three calls of Close of any kind.
SPECIFICATION FairSpec
CONSTANTS
  Connects = {k1}
  Opens = {n1, n2}
  Closes = {t1, t2, t3}
  None = None
INVARIANTS
  NothingLeaks
  ClosedForEveryone
PROPERTIES
  ImplementsOwnership
  ClosingCompletes
CHECK_DEADLOCK FALSE
