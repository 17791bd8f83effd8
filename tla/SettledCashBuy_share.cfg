\* Three candidates, six units of cash, two of them reserved.
CONSTANTS
  a = a  b = b  c = c
  Symbols = {a, b, c}
  Cash = 6
  Reserve = 2
  Minimum = 1
  MaxRows = 2
  None = None
SPECIFICATION Spec
CHECK_DEADLOCK FALSE
SYMMETRY AnySymbol
INVARIANTS TypeOK SpentWithinBudget UnverifiedStopsBuys
