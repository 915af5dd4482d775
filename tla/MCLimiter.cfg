SPECIFICATION Spec
CONSTANTS
  Keys = {k1, k2}
  Max = 2
  Interval = 2
  EvictAfter = 3
  EvictEvery = 1
  Slip = 1
  MaxTime = 6
SYMMETRY Symmetry
INVARIANTS LimiterInv Bounded RefusedOnlyWhenSpent
