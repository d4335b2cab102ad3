SPECIFICATION BusySpec
CONSTANTS
  r1 = r1
  r2 = r2
  Requests = {r1, r2}
  NumProviders = 2
  Kinds <- CachedKinds
  Payloads = {"p1"}
  Usages = {1}
  Capacity = 2
  RefillPerTick = 1
  ClientsCancel = FALSE
  FailureThreshold = 1
  Cooldown = 1
  HalfOpenMaxCalls = 1
  CountModulus = 2
PROPERTIES RequestsEnd FirstProviderIsProbed
