SPECIFICATION Spec
CONSTANTS
  r1 = r1
  r2 = r2
  Requests = {r1, r2}
  NumProviders = 2
  Kinds <- MixedKinds
  Payloads = {"p1"}
  Usages = {1}
  Capacity = 2
  RefillPerTick = 2
  ClientsCancel = TRUE
  FailureThreshold = 1
  Cooldown = 1
  HalfOpenMaxCalls = 1
  CountModulus = 2
SYMMETRY Symmetry
INVARIANTS TypeOK ReservedWhileWorking EveryProviderHasItsChance NoSecondChance
PROPERTIES UsesBreakers
