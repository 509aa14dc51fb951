SPECIFICATION MCSpec
CONSTANTS
  t1 = t1
  t2 = t2
  k = k
  m = m
  s1 = s1
  s2 = s2
  None = None
INVARIANTS
  CommandsIntact OwnersOutlive Visibility TransfersExact WorkOrdered ChargesCoverUse
  ReuseIsQuiet LoweredExact ReadsCurrent
CHECK_DEADLOCK FALSE
