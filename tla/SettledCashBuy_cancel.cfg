\* Two candidates; an order may be cancelled after some of it was filled.
CONSTANTS
  a = a  b = b  c = c
  Symbols = {a, b}
  Cash = 4
  Reserve = 1
  Minimum = 1
  MaxRows = 1
  None = None
SPECIFICATION Spec
CHECK_DEADLOCK FALSE
INVARIANT SharedBudget
