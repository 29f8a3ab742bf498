\* Is everybody's money where it belongs, and does a replay bring it back?
CONSTANTS
  Users = {u1, u2}
  Rows <- MCRows
  BatchMax = 1
  MinAmount = 1
  Unit = 2
  TakerFee = 1
  MakerFee = 1
  Quantum = 1
  Funds <- MCFunds
  HeapValues = {0, 1, 2}
  MaxOrders = 3
SPECIFICATION Spec
INVARIANTS SpotInv Conserved SpotUncrossed ReplayExact
SYMMETRY MCSymmetry
CHECK_DEADLOCK FALSE
