\* A restart from a slice that holds orders.
CONSTANTS
  Business = {b1, b2}
  MaxRequests = 3
  MaxPending = 1
  MaxSlices = 1
  MaxChildren = 1
  KeepTime = 0
  InsertFails = FALSE
  MaxRestarts = 1
  OrphanSlices = FALSE
  Exits = {}
SPECIFICATION Spec
CHECK_DEADLOCK FALSE
INVARIANTS FrozenHasOrder
