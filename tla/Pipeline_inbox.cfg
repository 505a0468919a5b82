SPECIFICATION Spec
CONSTANTS
  Orders = {1}
  Relays = {w1}
  Consumers = {c1, c2}
  None = None
  Poison = Poison
  BatchSize = 1
  Prefetch = 2
  DeliveryLimit = 1
  UseInbox = TRUE
  TopologyFirst = FALSE
  Faults <- FaultKinds
  MaxFaults = 3
  MaxPoison = 1
CHECK_DEADLOCK FALSE
SYMMETRY Symmetry
INVARIANTS EffectOnce
