SPECIFICATION FairSpec
CONSTANTS
  reserve = reserve
  release = release
  w1 = w1
  w2 = w2
  None = None
  Event <- Rows
  Reservation <- Requests
  Worker <- Processes
  BatchSize = 2
  MaxAttempts = 2
  MaxFaults = 2
INVARIANTS
  TypeOK
  PublishedWasSent
  OneDeadline
PROPERTIES
  OwnerLetsGo
  SettledStays
  ImplementsDelivery
CHECK_DEADLOCK FALSE
