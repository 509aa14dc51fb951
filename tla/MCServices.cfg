SPECIFICATION MCSpec
CONSTANTS
  u1 = u1
  u2 = u2
  u3 = u3
  m1 = m1
  m2 = m2
  m3 = m3
  w1 = w1
  w2 = w2
  None = None
  Main = Main
  t1 = t1
  t2 = t2
  t3 = t3
  c1 = c1
  p1 = p1
  p2 = p2
  k1 = k1
  k2 = k2
  mod = mod
  a1 = a1
  a2 = a2
  d1 = d1
  d2 = d2
  Nobody = Nobody
INVARIANTS LimitsExact InUseKept CancelHonoured RunTogether ArtifactsWhole KernelsOnce
PROPERTIES IdleLongEnough ImplementsSingleFlight WaitersAnswered PublishedKept
CHECK_DEADLOCK FALSE
