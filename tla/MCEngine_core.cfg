\* Limit and market orders, isolated margin, forced closes, one market.
CONSTANTS
  u1 = u1
  u2 = u2
  Users = {u1, u2}
  MarketNum = 1
  Prices = {2, 3}
  Volumes = {1, 2}
  Leverages = {1}
  Patterns = {1}
  OpenTypes = {0, 1}
  CloseTypes = {0, 1}
  InitBalance = 12
  Unit = 6
  Quantum = 1
  TakerFee = 2
  MakerFee = 1
  CloseFee = 1
  MaintenanceFee = 1
  MaxOrders = 3
  Changes = {6}
  ModeOrders = 0
  PrincipalOrders = 2
  PrincipalBound = 10
  DepthIntervals = {2}
  DepthOrders = 2
  CacheTimeout = 0
SPECIFICATION ViewsSpec
SYMMETRY UserSymmetry
INVARIANTS FrozenCovered OpenInterestBalanced IndexConsistent CancelSucceeds ForcedCloseUnfrozen NoCrash ViewsExact
PROPERTIES IsAuction
