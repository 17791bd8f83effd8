\* The same executions.
CONSTANTS
  w1 = w1
  w2 = w2
  Workers = {w1, w2}
  Reasons = {"missed_run"}
  LeaseTime = 2
  KillAfter = 1
  Reminder = 3
  Midnights = {2, 4}
  RetryAfter = 2
  LastTick = 5
  Unset = Unset
SPECIFICATION WatchSpec
SYMMETRY Alike
CHECK_DEADLOCK FALSE
PROPERTY RetryAfterHonored
