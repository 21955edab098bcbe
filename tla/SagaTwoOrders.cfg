SPECIFICATION Spec
CONSTANTS
  o1 = o1
  o2 = o2
  p1 = p1
  p2 = p2
  Order <- TwoOrders
  Product <- TwoProducts
  Demand <- RivalDemand
  InitialStock <- RivalStock
  Listings <- NoEdits
  Totals <- NoRecount
  MaxAttempts = 2
  MaxAbandoned = 0
INVARIANTS
  StockLedger
  NeverOversold
  SoldExactlyOnce
  CancelledHoldIsTracked
  NothingRefused
CHECK_DEADLOCK FALSE
