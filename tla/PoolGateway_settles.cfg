SPECIFICATION FairSpec
CONSTANTS
  c1 = c1
  c2 = c2
  NoConfig = NoConfig
  AnyApi = AnyApi
  NoLimit = NoLimit
  Api <- MCApi
  Call <- TwoCalls
  Config <- MixedConfigs
  Request <- AllRequests
  MayCancel = FALSE
  MayCrash = FALSE
  Failures <- EachFailure
INVARIANTS ReturnedCallIsSettled
PROPERTIES EveryCallEnds
