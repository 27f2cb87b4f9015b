CONSTANTS
  Second <- MCSecond
  Budget <- MCBudget
  Latencies <- MCLatencies
  MaxSent = 40
  RetryAfters <- MCRetryAfters
SPECIFICATION FairSpec
INVARIANTS TypeOK WritesAtMostOnce RequestsBounded WithinBudget
PROPERTY Terminates
CHECK_DEADLOCK FALSE
