\* Cross margin; close orders with a trigger, plan and take-profit / stop-loss.
\* The process may crash here, so a state without a successor is no error.
CONSTANTS
  u1 = u1
  u2 = u2
  Users = {u1, u2}
  MarketNum = 1
  Prices = {2, 3}
  Volumes = {1}
  Leverages = {2}
  Patterns = {2}
  OpenTypes = {0, 1}
  CloseTypes = {0, 1, 2, 3}
  InitBalance = 7
  Unit = 6
  Quantum = 1
  TakerFee = 1
  MakerFee = 1
  CloseFee = 1
  MaintenanceFee = 1
  MaxOrders = 3
  Changes = {}
  ModeOrders = 2
  PrincipalOrders = 0
  PrincipalBound = 0
  DepthIntervals = {}
  DepthOrders = 1
  CacheTimeout = 1
SPECIFICATION ViewsSpec
SYMMETRY UserSymmetry
CHECK_DEADLOCK FALSE
INVARIANTS EngineInv FreezeCovered
