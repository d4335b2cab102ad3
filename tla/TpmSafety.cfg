SPECIFICATION Spec
CONSTANTS
  t1 = t1
  t2 = t2
  Tasks = {t1, t2}
  Costs = {2, 3, 5, 9}
  Usages = {0, 1, 3, 7}
  Capacity = 7
  RefillPerTick = 1
  TicksPerSecond = 2
  MaxElapsed = 7
  MaxTime = 9
SYMMETRY Symmetry
INVARIANTS TypeOK BudgetKept RetryAfterIsExact
PROPERTIES RefillsLikeEager
