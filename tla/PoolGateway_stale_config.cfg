SPECIFICATION Spec
CONSTANTS
  c1 = c1
  c2 = c2
  NoConfig = NoConfig
  AnyApi = AnyApi
  NoLimit = NoLimit
  Api <- MCApi
  Call <- TwoCalls
  Config <- DisablingConfigs
  Request <- PlainRequests
  MayCancel = FALSE
  MayCrash = FALSE
  Failures <- AllFailures
PROPERTIES DisabledApiStaysUnassigned
