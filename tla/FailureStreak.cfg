SPECIFICATION StreakSpec
CONSTANTS
  t1 = t1
  Tasks = {t1}
  ClientsCancel = FALSE
  FailureThreshold = 2
  Cooldown = 2
  HalfOpenMaxCalls = 1
  CountModulus = 4
INVARIANTS StreakTripsBreaker
