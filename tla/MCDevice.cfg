SPECIFICATION MCSpec
CONSTANTS
  t1 = t1
  t2 = t2
  a = a
  b = b
  k = k
  m = m
  ev = ev
  p1 = p1
  p2 = p2
  x = x
  y = y
  None = None
INVARIANTS UsesCovered PhysicalExact StorageSound
PROPERTIES FailureFinal DeviceAnswers
CHECK_DEADLOCK FALSE
