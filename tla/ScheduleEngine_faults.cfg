SPECIFICATION Spec
CONSTANTS
  k1 = k1
  k2 = k2
  NoNode = NoNode
  NoTopic = NoTopic
  NoStatus = NoStatus
  ExecuteError = ExecuteError
  Topic <- OneTopic
  Node <- WideNodes
  TopicOf <- WideTopicOf
  PriorityNode <- WidePriority
  Ticker <- OneTicker
  Slots = 2
  Answers <- MixedAnswers
  PriorityAnswers <- AllPriorityAnswers
  VosMayFail = TRUE
  MayCrash = TRUE
INVARIANTS TypeOK RunningListed LayerOrder
PROPERTIES StartsOnlyWaiting PriorityFirst ImplementsQueue
