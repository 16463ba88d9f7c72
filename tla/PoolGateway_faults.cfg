SPECIFICATION Spec
CONSTANTS
  c1 = c1
  c2 = c2
  NoConfig = NoConfig
  AnyApi = AnyApi
  NoLimit = NoLimit
  Api <- MCApi
  Call <- TwoCalls
  Config <- EditedConfigs
  Request <- PlainRequests
  MayCancel = TRUE
  MayCrash = TRUE
  Failures <- EachFailure
SYMMETRY Symmetry
INVARIANTS TypeOK StatusAgreesWithCounters LeaseCountsRunningAttempts OneOpenAttempt RetryBudget OnlyCancelledLeak
PROPERTIES QuotaRespected HealthChangesForCause ImplementsSlotPool
