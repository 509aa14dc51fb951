SPECIFICATION MCSpec
CONSTANTS
  t1 = t1
  t2 = t2
  k = k
  m = m
  s1 = s1
  s2 = s2
  None = None
INVARIANTS AdoptedSeen
CHECK_DEADLOCK FALSE
