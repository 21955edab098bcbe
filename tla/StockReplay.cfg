SPECIFICATION Spec
CONSTANTS
  command = command
  garbage = garbage
  empty = empty
  surrogate = surrogate
  c1 = c1
  c2 = c2
  Event <- OnlyCommand
  Unparsable <- Nothing
  Valueless <- Nothing
  Unencodable <- Nothing
  Consumer <- Group
  MaxAttempts = 2
  MaxMessages = 2
  MaxFaults = 0
INVARIANTS
  ReplayIsHandled
CHECK_DEADLOCK FALSE
