SPECIFICATION FairSpec
CONSTANTS
  Streams <- AllStreams
  UsageTokens = 5
  IdleTimeout = 2
  TotalTimeout = 3
INVARIANTS TypeOK CutsDoNotMatter
PROPERTIES KeepsContract StreamEnds
CHECK_DEADLOCK FALSE
