SPECIFICATION LimiterSpec
CONSTANTS
  p1 = p1
  p2 = p2
  Pods = {p1, p2}
  Requests = {r1, r2, r3, r4}
  Limit = 2
  Window = 4
  Second = 2
  Offset <- MCOffset
  Skew = 1
  MaxDelay = 1
  MaxTime = 6
  MaxBreaks = 1
SYMMETRY Symmetry
CHECK_DEADLOCK FALSE
INVARIANTS LimitHolds
PROPERTY HonestRetryAfter
