SPECIFICATION Spec
CONSTANTS
  t1 = t1
  t2 = t2
  Tasks = {t1, t2}
  ClientsCancel = FALSE
  FailureThreshold = 1
  Cooldown = 1
  HalfOpenMaxCalls = 1
  CountModulus = 3
INVARIANTS ProbesWithinLimit
