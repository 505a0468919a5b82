SPECIFICATION Spec
CONSTANTS
  Scripts = {s1, s2}
  Requests = {q1, q2}
  Clients = {c1}
  Budgets <- MCBudgets
  BackupKeep = 2
  None = None
CHECK_DEADLOCK FALSE
INVARIANTS OldSessionsEnd MismatchNeedsWriters NewestGoodStays
PROPERTIES RefusedOnlyByRotation FailuresPass
