SPECIFICATION Spec
CONSTANTS
  Sessions = {s1, s2}
  Ttl = 3
  Jobs = {j1, j2}
  Workers = {w1, w2}
  FailTimes <- MCFailTimes
  Attempts = 3
  Retain = 2
  Clients = {c1, c2}
  Lag = 1
  Budgets <- MCBudgets
CHECK_DEADLOCK FALSE
INVARIANT StaysWhileActive
PROPERTIES NeverBack DoneOnce JobsEndWell
