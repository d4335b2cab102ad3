SPECIFICATION Spec
CONSTANTS
  c1 = c1
  c2 = c2
  Callers = {c1, c2}
  Requests <- SomeRequests
  Similarity <- SomeSimilarity
  Threshold = 96
  MaxEntries = 2
  Ttl = 1
  MaxTime = 3
SYMMETRY Symmetry
INVARIANTS TypeOK
PROPERTIES EvictsOldest AnswersClosest
