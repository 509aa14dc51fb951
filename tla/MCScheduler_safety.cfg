SPECIFICATION MCSpec
CONSTANTS
  w1 = w1 w2 = w2 c1 = c1 c2 = c2 x = x y = y None = None
  copy = copy chain = chain probe = probe fork = fork steps = steps
  Workers = {w1, w2}
  Clients = {c1, c2}
  Submitters = {c1, c2}
  Natives = {c1, c2}
  Hosts = {c1, c2}
  Cancellers = {c1, c2}
  Droppers = {c1}
  Failing = {chain, probe, fork, steps}
  Spurious = {c2}
  Graphs = {chain, probe, fork, steps}
  Slots = {1, 2}
  Storages = {x, y}
  Shared = {}
  Operations <- MCOperations
  Capacity = 2
  MaxSequence = 4
  StageAwaits = FALSE
  Scenarios <- Safety
INVARIANTS TypeOK ConflictOrder CapacityBound LaneExclusive SlotOwnership OutcomeStable ProducersSucceeded HostExclusion
PROPERTIES QuarantineHolds RoundRobin
CHECK_DEADLOCK FALSE
