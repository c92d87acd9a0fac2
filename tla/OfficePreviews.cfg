\* Two acquires with a reload, two files for one watch, and a stop.
CONSTANTS
  k1 = k1  k2 = k2  w1 = w1  w2 = w2  None = None
  MaxCalls = 2
  Keys = {k1, k2}
  Roots = {w1, w2}
  RootOf <- OwnRoots
  Stops = {t1}
  MaxConcurrent = 1
SPECIFICATION PoolFairSpec
CHECK_DEADLOCK FALSE
INVARIANTS PoolSafe StopsHold
PROPERTIES StopsEnd
