\* A subscription to events, whose replay, channel and history all overflow,
\* and one to screens.
SPECIFICATION FairSpec
CONSTANTS
  EventSubscriptions = {e1}
  ScreenSubscriptions = {v1}
  EventBuffer = 1
  RetainedEvents = 2
  ReplayedEvents = 1
  MaxEvents = 3
  MaxScreens = 1
INVARIANTS
  DeliveredInOrder
  NothingLostOrLeft
PROPERTIES
  SubscriptionsEnd
CHECK_DEADLOCK FALSE
