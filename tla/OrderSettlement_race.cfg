\* Two workers, one order of two shares, faults everywhere.
CONSTANTS
  w1 = w1  w2 = w2
  Workers = {w1, w2}
  Last = 1
  Quantity = 2
  MaxTries = 2
  MaxOrders = 1
  MaxSlots = 1
  Faults = TRUE
  None = None
SPECIFICATION Spec
CHECK_DEADLOCK FALSE
SYMMETRY EitherWorker
INVARIANTS TypeOK OrderHasRecord ToldOnce ToldTruly
PROPERTIES LedgerSpec
