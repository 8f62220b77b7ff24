SPECIFICATION Spec
CONSTANTS
  Configs <- SomeAlerts
  Endpoints <- SomeEndpoints
  Values = {0, 1}
  MaxAlerts = 2
  MaxAge = 2
  ConcurrentRemove = FALSE
INVARIANTS EveryAlertEvaluated
PROPERTIES TimesOut WatcherStops
