\* One worker, two orders, batches of one order, faults everywhere.
CONSTANTS
  w1 = w1  w2 = w2
  Workers = {w1}
  Last = 2
  Quantity = 1
  MaxTries = 1
  MaxOrders = 1
  MaxSlots = 1
  Faults = TRUE
  None = None
SPECIFICATION FairSpec
CHECK_DEADLOCK FALSE
INVARIANTS ToldTruly
PROPERTIES LedgerSpec CallsReturn
