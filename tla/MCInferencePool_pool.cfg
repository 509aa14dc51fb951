SPECIFICATION MCSpec
CONSTANTS
  a = a
  b = b
  Capacities = {1, 2}
  Callers = {a, b}
  Modes = {"try","block","async"}
  Staging = {TRUE, FALSE}
  Failing = TRUE
  MaxLeases = 3
  MaxJobs = 4
INVARIANTS LeaseExclusive OutputsStable DrainedUnlessCancelled
PROPERTIES FuturesResolve
CHECK_DEADLOCK FALSE
