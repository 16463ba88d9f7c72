SPECIFICATION Spec
CONSTANTS
  k1 = k1
  k2 = k2
  NoNode = NoNode
  NoTopic = NoTopic
  NoStatus = NoStatus
  ExecuteError = ExecuteError
  Topic <- OneTopic
  Node <- FewNodes
  TopicOf <- FewTopicOf
  PriorityNode <- FewPriority
  Ticker <- OneTicker
  Slots = 1
  Answers <- ShippedAnswers
  PriorityAnswers <- GoodPriorityAnswers
  VosMayFail = FALSE
  MayCrash = FALSE
INVARIANTS LabelsAreUnique
