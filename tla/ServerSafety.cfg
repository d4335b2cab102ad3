SPECIFICATION FairSpec
CONSTANTS
  r1 = r1
  r2 = r2
  Requests = {r1, r2}
  Configs <- SomeConfigs
  Kinds <- SomeKinds
  Usages = {1, 2}
  Minute = 2
INVARIANTS TypeOK WorksForItsClient
PROPERTIES KeepsContract FailureIsRefunded SignalStops ClientsGetThrough
CHECK_DEADLOCK FALSE
