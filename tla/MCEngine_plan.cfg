\* Open plan orders besides limit orders, in two markets.  No position can be
\* blown at these prices, so every handler has to end.
CONSTANTS
  u1 = u1
  u2 = u2
  Users = {u1, u2}
  MarketNum = 2
  Prices = {3, 4}
  Volumes = {1}
  Leverages = {1}
  Patterns = {1}
  OpenTypes = {1, 2}
  CloseTypes = {}
  InitBalance = 13
  Unit = 6
  Quantum = 1
  TakerFee = 1
  MakerFee = 1
  CloseFee = 1
  MaintenanceFee = 1
  MaxOrders = 3
  Changes = {}
  ModeOrders = 0
  PrincipalOrders = 0
  PrincipalBound = 0
  DepthIntervals = {}
  DepthOrders = 1
  CacheTimeout = 1
SPECIFICATION FairViewsSpec
PROPERTIES HandlerEnds
