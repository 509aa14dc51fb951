SPECIFICATION MCFairSpec
CONSTANTS
  w1 = w1 w2 = w2 c1 = c1 c2 = c2 x = x y = y None = None
  copy = copy chain = chain probe = probe fork = fork steps = steps
  Workers = {w1, w2}
  Clients = {c1, c2}
  Submitters = {c1, c2}
  Natives = {c1, c2}
  Hosts = {c1, c2}
  Cancellers = {c1, c2}
  Droppers = {c1}
  Failing = {copy, chain, probe}
  Spurious = {}
  Graphs = {copy, chain, probe}
  Slots = {1}
  Storages = {x, y}
  Shared = {}
  Operations <- MCOperations
  Capacity = 3
  MaxSequence = 3
  StageAwaits = FALSE
  Scenarios <- Progress
PROPERTIES WaitsEnd
CHECK_DEADLOCK FALSE
