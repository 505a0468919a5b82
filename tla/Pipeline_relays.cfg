SPECIFICATION FairSpec
CONSTANTS
  Orders = {1, 2}
  Relays = {w1, w2}
  Consumers = {c1}
  None = None
  Poison = Poison
  BatchSize = 2
  Prefetch = 1
  DeliveryLimit = 1
  UseInbox = FALSE
  TopologyFirst = TRUE
  Faults <- FaultKinds
  MaxFaults = 2
  MaxPoison = 0
CHECK_DEADLOCK FALSE
INVARIANTS NothingLost DuplicatesNeedFailures
PROPERTIES ImplementsPickOnce 
