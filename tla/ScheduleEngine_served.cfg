SPECIFICATION FairSpec
CONSTANTS
  k1 = k1
  k2 = k2
  NoNode = NoNode
  NoTopic = NoTopic
  NoStatus = NoStatus
  ExecuteError = ExecuteError
  Topic <- TwoTopics
  Node <- PairNodes
  TopicOf <- PairTopicOf
  PriorityNode <- PairPriority
  Ticker <- OneTicker
  Slots = 1
  Answers <- ShippedAnswers
  PriorityAnswers <- GoodPriorityAnswers
  VosMayFail = FALSE
  MayCrash = FALSE
PROPERTIES TopicsAreServed
