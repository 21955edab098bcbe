SPECIFICATION FairSpec
CONSTANTS
  command = command
  garbage = garbage
  empty = empty
  surrogate = surrogate
  c1 = c1
  c2 = c2
  Event <- Events
  Unparsable <- Garbage
  Valueless <- Empty
  Unencodable <- Surrogate
  Consumer <- Group
  MaxAttempts = 2
  MaxMessages = 3
  MaxFaults = 2
INVARIANTS
  TypeOK
  AppliedOnce
  NothingLost
  OrderCopiesHandled
PROPERTIES
  PartitionAdvances
CHECK_DEADLOCK FALSE
