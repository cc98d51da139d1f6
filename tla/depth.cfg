CONSTANTS
  Levels <- MCLevels
  MaxUpdates = 2
  Quantity <- MCQuantity
  Limit = 1
  Books = {b1, b2}
  NoBook = NoBook
  Goroutines = {g1}
  Dialer = Dialer
  QueueCap = 1
SPECIFICATION FairSpec
INVARIANTS TypeOK NoWrongLevel
PROPERTIES ImplementsMirror OnDisconnectReturns
CHECK_DEADLOCK FALSE
