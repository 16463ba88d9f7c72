SPECIFICATION Spec
CONSTANTS
  s1 = s1
  w1 = w1
  d1 = d1
  d2 = d2
  d3 = d3
  n1 = n1
  n2 = n2
  NoChat = NoChat
  Streamed = {s1}
  Direct = {d1, d2, d3}
  Watcher = {w1}
  ChatNode = {n1, n2}
  NodeOf <- Nodes
  Waves <- Both
  Capacity = 2
  MaxEvents = 1
  PollLimit = 2
  MaxDeltas = 1
  MaxDispatches = 1
CHECK_DEADLOCK FALSE
INVARIANTS TypeOK NoPanic StreamsComplete EndsAreRecorded EventsReadOnce
PROPERTIES CancelledRunsEnd TurnsAnswered
