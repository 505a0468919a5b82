SPECIFICATION DemoSpec
CONSTANTS
  Scripts <- AllScripts
  Placed = 2
  Main = main
  Child = child
  Relay = relay
  None = None
  Poison = Poison
  BatchSize = 2
  Prefetch = 2
  DeliveryLimit = 2
  MaxMishaps = 3
  Tasks = {1, 2, 3, 4}
  Late = {2}
  Workers = {w1, w2, w3}
  IdleRetries = 3
  MaxFaults = 2
CHECK_DEADLOCK FALSE
SYMMETRY Symmetry
INVARIANTS ReportsAreRight PoolIsFair
