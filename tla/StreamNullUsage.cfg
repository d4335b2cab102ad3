SPECIFICATION Spec
CONSTANTS
  Streams <- NullUsageStreams
  UsageTokens = 5
  IdleTimeout = 2
  TotalTimeout = 3
INVARIANTS TrailingUsageIsCharged
CHECK_DEADLOCK FALSE
