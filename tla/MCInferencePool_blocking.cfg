SPECIFICATION FairSpec
CONSTANTS
  a = a
  b = b
  Capacities = {1}
  Callers = {a, b}
  Modes = {"block"}
  Staging = {FALSE}
  Failing = FALSE
  MaxLeases = 2
  MaxJobs = 2
PROPERTIES RequestsReturn
CHECK_DEADLOCK FALSE
