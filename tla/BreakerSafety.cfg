SPECIFICATION Spec
CONSTANTS
  t1 = t1
  t2 = t2
  t3 = t3
  t4 = t4
  Tasks = {t1, t2, t3, t4}
  ClientsCancel = TRUE
  FailureThreshold = 2
  Cooldown = 2
  HalfOpenMaxCalls = 2
  CountModulus = 4
SYMMETRY Symmetry
INVARIANTS TypeOK ProbesBounded ClosedIsBelowThreshold
PROPERTIES KeepsContract
CHECK_DEADLOCK FALSE
