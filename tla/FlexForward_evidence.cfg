\* Three days, two of them recent, at most two windows in a run, one event.
CONSTANTS
  e1 = e1
  LastDay = 3
  Recent = 2
  Limit = 2
  Events = {e1}
  When <- OnSecondDay
  None = None
SPECIFICATION Spec
CHECK_DEADLOCK FALSE
INVARIANTS TypeOK AnchorNotRevised CountedOnceAlongAnchors
