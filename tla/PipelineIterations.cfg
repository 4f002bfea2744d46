SPECIFICATION Spec
CONSTANTS
  TIME_LIMIT = 4
  SATURATION_FACTOR = 2
  N = 1
  SLOW_LIMIT_START = 10
  SLOW_LIMIT_CUTOFF = 11
  ITER_LIMIT = 3
  Durations <- MCDurations
  Costs <- MCCosts
  FastBatch = 1
  SlowBatch = 1
  MaxPii = 16
INVARIANT
  IterationLimitNeverReached
