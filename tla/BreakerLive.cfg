SPECIFICATION BusySpec
CONSTANTS
  t1 = t1
  t2 = t2
  t3 = t3
  Tasks = {t1, t2, t3}
  ClientsCancel = FALSE
  FailureThreshold = 2
  Cooldown = 1
  HalfOpenMaxCalls = 1
  CountModulus = 4
INVARIANTS SlotsAreHeld
PROPERTIES TrialsAreDecided OpenIsProbed
