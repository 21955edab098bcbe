SPECIFICATION FairSpec
CONSTANTS
  w1 = w1
  w2 = w2
  h1 = h1
  h2 = h2
  Warehouse <- TwoWarehouses
  Levels <- UpToOne
  InitialRows <- OneUnit
  Handler <- TwoRequests
  MaxRequests = 2
  MaxHolds = 1
  MaxFaults = 2
INVARIANTS
  TypeOK
  ReservedWithinTotal
  StockIsWarehouseTotal
  ShownWasTrue
PROPERTIES
  CardConverges
CHECK_DEADLOCK FALSE
