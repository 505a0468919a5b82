SPECIFICATION Spec
CONSTANTS
  Inserts = {i1, i2}
  Walkers = {w1, w2}
  Editors = {e1, e2}
  SeedIds = 2
  Limits = {1, 2}
  Lines <- MCLines
  Budgets <- MCBudgets
CHECK_DEADLOCK FALSE
INVARIANTS WalkIsComplete TotalIsSum
PROPERTY DuplicatesNeedSeed
