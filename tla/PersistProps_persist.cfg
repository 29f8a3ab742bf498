\* One slice at a time, which dies with the process; stops and crashes.
CONSTANTS
  Business = {b1, b2}
  MaxRequests = 2
  MaxPending = 1
  MaxSlices = 2
  MaxChildren = 1
  KeepTime = 0
  InsertFails = FALSE
  MaxRestarts = 1
  OrphanSlices = FALSE
  Exits = {"stop", "suicide"}
SPECIFICATION FairSpec
CHECK_DEADLOCK FALSE
PROPERTIES IsDurableStore EventuallyDurable
INVARIANTS PersistInv
