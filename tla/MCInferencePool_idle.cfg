SPECIFICATION Spec
CONSTANTS
  a = a
  b = b
  Capacities = {1}
  Callers = {a, b}
  Modes = {"try"}
  Staging = {TRUE, FALSE}
  Failing = FALSE
  MaxLeases = 1
  MaxJobs = 2
INVARIANTS IdleDrained
CHECK_DEADLOCK FALSE
