CONSTANTS
  Nobody = Nobody
  r1 = r1  r2 = r2  i1 = i1  i2 = i2
  p1 = p1  p2 = p2  s1 = s1  s2 = s2
SPECIFICATION VariantsSpec
CHECK_DEADLOCK FALSE
INVARIANTS RivalsTraced OneCyclePerInstance
PROPERTIES RivalsAuthority RunLockReturns
