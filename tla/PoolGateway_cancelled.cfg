SPECIFICATION Spec
CONSTANTS
  c1 = c1
  c2 = c2
  NoConfig = NoConfig
  AnyApi = AnyApi
  NoLimit = NoLimit
  Api <- MCApi
  Call <- TwoCalls
  Config <- SingleConfig
  Request <- PlainRequests
  MayCancel = TRUE
  MayCrash = FALSE
  Failures <- AllFailures
INVARIANTS ReturnedCallIsSettled
