\* One worker, one order, no fault: the finding.
CONSTANTS
  w1 = w1  w2 = w2
  Workers = {w1}
  Last = 1
  Quantity = 2
  MaxTries = 8
  MaxOrders = 100
  MaxSlots = 4
  Faults = FALSE
  None = None
SPECIFICATION Spec
CHECK_DEADLOCK FALSE
PROPERTIES ObservationIsPassive
