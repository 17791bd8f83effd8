\* One strategy, two instances, two requests, one symbol, two days, one kill.
CONSTANTS
  i1 = i1  i2 = i2  p1 = p1  s1 = s1
  Requests = {i1, i2}
  Instances = {i1, i2}
  Host <- Own
  Profiles = {p1}
  ProfileOf <- SameProfile
  Symbols = {s1}
  Universe <- ManageOne
  LastDay = 2
  MaxCrashes = 1
  CashOnly = TRUE
  GateEnabled = TRUE
  None = None
SPECIFICATION Spec
CHECK_DEADLOCK FALSE
SYMMETRY Alike
INVARIANTS TypeOK OneSubmitterPerDay OrdersAreTraced OneSubmission IInv
PROPERTIES UnknownFence BreakerWindow AuthoritySpec
