\* Three days, two of them recent, one event.
CONSTANTS
  e1 = e1
  LastDay = 3
  Recent = 2
  Limit = 3
  Events = {e1}
  When <- OnSecondDay
  None = None
SPECIFICATION Spec
CHECK_DEADLOCK FALSE
INVARIANT CountedOnce
