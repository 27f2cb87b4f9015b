CONSTANTS
  Second <- MCSecond
  Budget <- MCBudget
  Latencies <- MCLatencies
  MaxSent = 40
  RetryAfters <- MCRetryAfters
SPECIFICATION Spec
INVARIANT RateLimitedTries
CHECK_DEADLOCK FALSE
