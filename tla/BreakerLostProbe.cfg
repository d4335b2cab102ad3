SPECIFICATION BusySpec
CONSTANTS
  t1 = t1
  t2 = t2
  Tasks = {t1, t2}
  ClientsCancel = TRUE
  FailureThreshold = 1
  Cooldown = 1
  HalfOpenMaxCalls = 1
  CountModulus = 3
PROPERTIES TrialsAreDecided
CHECK_DEADLOCK FALSE
