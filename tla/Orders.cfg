SPECIFICATION FairSpec
CONSTANTS
  Handlers = {h1, h2}
  Keys = {k1}
  Bodies = {b1, b2}
  Readers = {c1}
  Sockets = {s1}
  None = None
  SeedOrders = 1
  BufferSize = 2
  MaxOrders = 3
  MaxEvents = 3
  MaxDrops = 1
CHECK_DEADLOCK FALSE
INVARIANTS StreamIsGapless AckHasNoHole KeyNamesOneOrder
PROPERTY ReaderCatchesUp
