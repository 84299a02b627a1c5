\* Screens, input and events.  The host may stay silent: the system may stop.
SPECIFICATION MCSpec
CONSTANTS
  Waiters = {}
  Stables = {}
  Observers = {o1}
  Subscribers = {s1}
  Senders = {p1, p2}
  Resizers = {r1}
  Closers = {c1, c2}
  w1 = w1
  t1 = t1
  o1 = o1
  s1 = s1
  p1 = p1
  p2 = p2
  r1 = r1
  c1 = c1
  c2 = c2
  Reader = reader
  Chunks <- AllChunks
  NoChunk = NoChunk
  Sizes = {"small", "large", "zero"}
  BadSizes = {"zero"}
  InitSize = "small"
  Matchers <- SomeMatchers
  MaxOutput = 2
  SendLength = 2
  EventBuffer = 2
  RetainedEvents = 3
  TrackedUnsupportedSequences = 2
  FlightRecorderBytes = 3
  FlightRecorderRecords = 2
  Scenes <- TrafficScenes
INVARIANTS
  RecorderKeepsNewest
  ScreensDelivered
  EventsDelivered
  PublishedWhenDue
  SendsNotInterleaved
  CloseStopsReader
PROPERTIES
  CallersReturn
CHECK_DEADLOCK FALSE
