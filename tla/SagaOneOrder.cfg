SPECIFICATION Spec
CONSTANTS
  o1 = o1
  o2 = o2
  p1 = p1
  p2 = p2
  Order <- OneOrder
  Product <- OneProduct
  Demand <- SingleDemand
  InitialStock <- SingleStock
  Listings <- AnyEdit
  Totals <- Recounts
  MaxAttempts = 3
  MaxAbandoned = 1
INVARIANTS
  TypeOK
  StockLedger
  NeverOversold
  OutcomesAgree
  OneOutcome
  RowConstraintsHold
PROPERTIES
  TerminalIsFinal
  CancellationSticks
  ImplementsLifecycle
