SPECIFICATION Spec
CONSTANTS
  None = None
  ExpiresIn = 1
  MaxModifications = 1
  LockCap = 1
  Size = 2
  Quantity <- MCQuantity
  Converts = {1}
  Cancels = {2}
  NewQuantities <- MCNewQuantities
  Locks <- MCLocks
  Moves = {"Pending", "Complete"}
  Styles = {"sync", "async"}
  MaxTime = 2
  MaxMoves = 1
  MaxDisturbances = 1
INVARIANTS
  OnePlacement
  FillsWithinQuantity
  BooksBacked
  PlacedIsDurable
  EveryOrderAddressable
PROPERTIES
  FillMonotone
  ExpiredIsCanceled
