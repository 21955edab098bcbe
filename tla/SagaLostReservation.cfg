SPECIFICATION FairSpec
CONSTANTS
  o1 = o1
  o2 = o2
  p1 = p1
  p2 = p2
  Order <- OneOrder
  Product <- OneProduct
  Demand <- SingleDemand
  InitialStock <- SingleStock
  Listings <- NoEdits
  Totals <- NoRecount
  MaxAttempts = 2
  MaxAbandoned = 1
PROPERTIES
  ReservationSettles
CHECK_DEADLOCK FALSE
