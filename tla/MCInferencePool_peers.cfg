SPECIFICATION Spec
CONSTANTS
  a = a
  b = b
  Capacities = {2}
  Callers = {a, b}
  Modes = {"try"}
  Staging = {FALSE}
  Failing = TRUE
  MaxLeases = 4
  MaxJobs = 3
INVARIANTS HealthyPeersTried
CHECK_DEADLOCK FALSE
