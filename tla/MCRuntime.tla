----------------------------- MODULE MCRuntime ------------------------------
(***************************************************************************)
(* The runtime for TLC: dispatch packets, device memory and batches below,  *)
(* streams, buffer pools and recorded graphs, the lowering of execution     *)
(* graphs, and the models and tensors above.  The parts do not share state, *)
(* so a behaviour runs one of them; the scenario says which.  Variables of  *)
(* one name in two modules get a second name here.                          *)
(***************************************************************************)
EXTENDS Integers, Sequences, FiniteSets, SequencesExt

CONSTANTS
  t1, t2,    \* threads
  k, m,      \* works, allocations, keys
  s1, s2,    \* streams
  None

VARIABLES
  scenario,
  profiled, produced, consumed, slots, waiting, onGpu, holder, signal, current, settled,
  leased, nextPoint, ticks, capture, sample, task, failed, closed,
  life, handles, charged, coherent, needsCache, uses, lock, cache, dirty, memory, newest,
  host, device,
  reservation, opened, installed, backing, updates,
  present, providers, devices, weak, slot, opening,
  arena, recording, recorded, content, batches, fenceWord,
  call, serialStage, page, serialWord, running, snapshot, uncertain, broken, latest,
  counters,
  config, commands, queues, finished, last, streamUses, quarantine, owner, backed, pool,
  bindings, staging, stagePool, event, graph, filling, reserved, open, lost,
  which, loans, lists, scratchBytes, scratchLimit, entryPool, cachedKeys, panicked,
  address, handle, block, cached, served, asking, queueSlots, cursor, queueOf, queueCount,
  kind, nodes, frontier, refusal, prepared,
  options, entries, lowered,
  storage, regions, live, peak,
  bound, scratch, sizes, tensors, records,
  sessionFailed, buffers, graphs, kernels, readback, queue, waitingCall, ideal, answer,
  frozen,
  values, refused, plan,
  held, hostBuffers, hostPool, jobs, readbacks,
  profile, placed, view, facts, asked, work, done, maintained, verdict,
  fixed, xdnaPending, leases, xdnaRetired, cachedProgram, accepted, executed, stuck,
  programs, xdnaPoints, program, command,
  commandList, preparedList, points, active, retired, pending, owners,
  request, parts, fenceBytes,
  creationRequest, families, topology, private, creationStage, chosen, native,
  nativeScratch, outcome,
  image, sanitizing, kernel, dispatches, ring, shadowDirty, raced, channel, dropped,
  reported, delivered, counted,
  ranges, launch,
  layout, workgroup, engine, widths, constants, slice, operands, shape, packed,
  header, indexed, preparing, released, range, crew, nextChunk, pc, index, error, resident,
  attempted, failures, result,
  counter, stamps, submitted, marker, completed, reading, previousEnd, execution, samples,
  blocks, write, read, sequence, passed, frames, observed,
  profiles, plans, used, calls, allocating,
  mapping, published, deviceUses, locked, reader, workers, outcomes

\* Bindings of recorded kernels: overlapping, adjacent and empty byte ranges.
U(first, end, access) == [allocation |-> k, first |-> first, end |-> end, access |-> access]
Bound ==
  {<<U(0, 2, "Write")>>, <<U(1, 3, "Write")>>, <<U(1, 3, "Read")>>,
   <<U(0, 1, "Read"), U(2, 3, "Write")>>, <<U(0, 3, "ReadWrite"), U(1, 2, "Read")>>,
   <<U(1, 1, "Write")>>}

\* One buffer of each kind the lowering tells apart, and launches that are
\* accepted, alias, are misaligned or need one engine.
Kind(mapped, npu, own, base) ==
  [bytes |-> 4, host |-> mapped, gpu |-> TRUE, npu |-> npu, shared |-> npu, own |-> own, base |-> base]
BufferKinds ==
  [device |-> Kind(FALSE, FALSE, TRUE, 16), host |-> Kind(TRUE, FALSE, TRUE, 34),
   shared |-> Kind(TRUE, TRUE, TRUE, 64), foreign |-> Kind(FALSE, FALSE, FALSE, 96)]
V(name, first, end) == [allocation |-> name, first |-> first, end |-> end]
Bind(access) == [bytes |-> 2, alignment |-> 2, access |-> access]
Launch(contract, views) == [contract |-> contract, bindings |-> views]
Launched ==
  {Launch(<<Bind("Read"), Bind("Write")>>, <<V("device", 0, 2), V("device", 2, 4)>>),
   Launch(<<Bind("Read"), Bind("ReadWrite")>>, <<V("device", 0, 4), V("device", 2, 4)>>),
   Launch(<<Bind("ReadWrite")>>, <<V("shared", 2, 4)>>),
   Launch(<<[Bind("Write") EXCEPT !.alignment = 4]>>, <<V("host", 0, 4)>>)}
Scoped ==
  {<<[allocation |-> "shared", first |-> 0, end |-> 2, access |-> "Write"],
     [allocation |-> "device", first |-> 3, end |-> 4, access |-> "Read"]>>}

\* Fragments of a model with a weight, private and exposed allocations; the last
\* has an empty fill of scratch that nothing else uses.
Stored ==
  <<[kind |-> "weight", bytes |-> 2], [kind |-> "device", bytes |-> 4],
    [kind |-> "device", bytes |-> 4], [kind |-> "device", bytes |-> 2],
    [kind |-> "shared", bytes |-> 2], [kind |-> "device", bytes |-> 2]>>
R(a, o, n) == [allocation |-> a, offset |-> o, bytes |-> n]
B(a, o, n, access) == [region |-> R(a, o, n), access |-> access]
IO(a, o, n, d) == [region |-> R(a, o, n), bytes |-> d]
D(steps, inputs, outputs, reuse) ==
  [commands |-> steps, inputs |-> inputs, outputs |-> outputs, reuse |-> reuse]
Span(buffer, first, end) == [buffer |-> buffer, first |-> first, end |-> end]
Drafted ==
  {D(<<<<B(1, 0, 2, "Read"), B(2, 0, 2, "Read"), B(4, 0, 2, "Write"), B(5, 0, 2, "Write")>>,
       <<B(4, 0, 2, "Read"), B(6, 0, 1, "Write"), B(3, 0, 2, "Write")>>>>,
     <<IO(2, 0, 4, 2)>>, <<IO(3, 0, 4, 2)>>, reuse) : reuse \in BOOLEAN} \union
  {D(<<<<B(2, 0, 2, "Read"), B(3, 0, 4, "ReadWrite"), B(4, 0, 2, "Write")>>>>,
     <<IO(2, 0, 2, 2), IO(3, 0, 4, 4)>>, <<IO(3, 2, 2, 2)>>, TRUE),
   D(<<<<B(2, 0, 2, "Read"), B(3, 0, 2, "Write"), B(4, 0, 1, "Write")>>>>,
     <<IO(2, 2, 2, 2)>>, <<IO(3, 0, 2, 2)>>, TRUE),
   D(<<<<B(2, 0, 2, "Read"), B(2, 0, 2, "ReadWrite")>>>>,
     <<IO(2, 0, 2, 2), IO(2, 0, 2, 2)>>, <<>>, FALSE),
   D(<<<<B(1, 0, 2, "Write"), B(2, 0, 2, "Read")>>>>, <<IO(2, 0, 2, 2)>>, <<>>, FALSE),
   D(<<<<B(4, 1, 0, "Fill")>>, <<B(2, 0, 2, "Read"), B(5, 0, 2, "Write")>>>>,
     <<IO(2, 0, 2, 2)>>, <<>>, TRUE),
   D(<<<<B(4, 0, 2, "Fill")>>, <<B(6, 0, 0, "Fill")>>, <<B(2, 0, 2, "Read")>>>>,
     <<IO(2, 0, 2, 2)>>, <<>>, TRUE)}

\* Byte ranges of host transitions: nested, adjacent, unordered, empty, invalid.
ByteRange(first, end) == [first |-> first, end |-> end]
Ranged ==
  {<<>>, <<ByteRange(0, 4), ByteRange(1, 2)>>, <<ByteRange(1, 2), ByteRange(2, 3)>>,
   <<ByteRange(3, 4), ByteRange(0, 1)>>, <<ByteRange(1, 1)>>, <<ByteRange(2, 3)>>,
   <<ByteRange(2, 1)>>, <<ByteRange(0, 2), ByteRange(0, 1), ByteRange(1, 4)>>}

\* Kernels with and without scratch, and batches with and without profiling.
Operated == {[operands |-> {k}, scratch |-> TRUE], [operands |-> {}, scratch |-> FALSE]}
Shaped ==
  {[flags |-> <<TRUE>>, profiled |-> TRUE], [flags |-> <<FALSE, TRUE>>, profiled |-> FALSE],
   [flags |-> <<FALSE, TRUE>>, profiled |-> TRUE]}

\* Queue families, and topologies with a remainder and without engines.
Family(type, version, user, gcr, gfx9, snooped, timestamps) ==
  [command |-> type, version |-> version, user |-> user, gcr |-> gcr, gfx9 |-> gfx9,
   coherent |-> snooped, timestamps |-> timestamps]
Families ==
  {<<Family("pm4", 1, TRUE, FALSE, FALSE, TRUE, FALSE),
     Family("pm4", 1, TRUE, FALSE, TRUE, TRUE, FALSE),
     Family("sdma", 2, TRUE, FALSE, FALSE, TRUE, FALSE),
     Family("aql", 1, TRUE, FALSE, FALSE, TRUE, FALSE),
     Family("aql", 1, TRUE, FALSE, FALSE, TRUE, TRUE)>>,
   <<Family("pm4", 1, FALSE, TRUE, TRUE, TRUE, FALSE),
     Family("pm4", 1, TRUE, TRUE, TRUE, TRUE, FALSE),
     Family("sdma", 1, TRUE, FALSE, FALSE, TRUE, FALSE),
     Family("aql", 1, TRUE, FALSE, FALSE, FALSE, TRUE)>>}
Topology ==
  {[units |-> 5, engines |-> 2, waves |-> 2], [units |-> 4, engines |-> 2, waves |-> 3],
   [units |-> 4, engines |-> 0, waves |-> 3]}

\* Checked address ranges, with and without overlap, and grids.
Shadowed ==
  {<<>>, <<[start |-> 4, length |-> 8]>>, <<[start |-> 0, length |-> 0]>>} \union
  SeqOf([start : {0, 8, 24}, length : {3, 8, 13}], 2)
Gridded == [local : {0, 1, 4, 7, 64}, grid : {<<1, 1, 1>>, <<3, 2, 1>>, <<0, 1, 1>>, <<16, 16, 1>>}]

\* Argument layouts: values (1) and bindings (2), one of them past its block.
Slot(type, size, offset) == [kind |-> type, size |-> size, offset |-> offset]
Slotted ==
  {<<Slot(1, 4, 0), Slot(2, 8, 8), Slot(1, 8, 16)>>, <<Slot(1, 8, 0), Slot(1, 4, 8), Slot(1, 4, 12)>>,
   <<Slot(2, 8, 0), Slot(1, 4, 8), Slot(2, 8, 16)>>, <<Slot(2, 8, 20)>>, <<>>}

\* Headers of tensor files, two of them malformed.
Extent(start, end) == [start |-> start, end |-> end]
Headed ==
  {<<Extent(0, 5), Extent(5, 20)>>, <<Extent(0, 2), Extent(2, 2), Extent(2, 22)>>,
   <<Extent(0, 30)>>, <<Extent(4, 3)>>}

\* Native memory profiles of two machines, and file reads of three shapes.
Profile(type, roles, flags, numa, maximum, granularity) ==
  [kind |-> type, roles |-> roles, flags |-> flags, numa |-> numa,
   serves |-> IF type = "local" THEN {{"gpu"}} ELSE {{"gpu"}, {"gpu", "npu"}},
   maximum |-> maximum, granularity |-> granularity]
Admitting ==
  {<<Profile("local", {"create"}, {"local"}, FALSE, 8, 0),
     Profile("system", {"create", "map"}, {"visible"}, FALSE, 8, 0),
     Profile("system", {"create", "map", "register"}, {"visible", "remapped"}, TRUE, 4, 2)>>,
   <<Profile("system", {"create"}, {"visible"}, FALSE, 8, 1),
     Profile("system", {"register", "map"}, {"visible"}, FALSE, 4, 0)>>}
Fill(first, length, threads) == [first |-> first, length |-> length, workers |-> threads]
Filled == {Fill(1, 5, 3), Fill(0, 4, 3), Fill(2, 3, 1), Fill(3, 4, 2), Fill(0, 0, 2)}

Aql == INSTANCE AqlQueue WITH
  AqlWorks <- {k, m}, AqlThreads <- {t1, t2}, Nobody <- None,
  Packets <- [w \in {k, m} |-> IF w = k THEN 2 ELSE 3],
  RingSlots <- 4, AqlPending <- 2, SignalMax <- 2
Memory == INSTANCE DeviceMemory WITH latest <- newest,
  HostThreads <- {t1, t2}, Offsets <- {0, 1}, Versions <- 0 .. 2, Empty <- None,
  Ordinals <- 0 .. 2, GroupOf <- [o \in 0 .. 2 |-> IF o = 2 THEN 2 ELSE 0],
  Pages <- {1, 2}, Sources <- {k, m}, Hole <- None, UpdateLimit <- 2
Registry == INSTANCE DeviceRegistry WITH
  Openers <- {t1, t2}, Keys <- {k}, Ids <- {1, 2}, EnumerateAttempts <- 2, NoId <- None
Batches == INSTANCE CommandStorage WITH stage <- recording, word <- fenceWord,
  Pages <- 1 .. 5, Fences <- 1 .. 5, PageUnits <- 2, Sizes <- {1, 2}, BatchLimit <- 2,
  CommandLimit <- 2, RunLimit <- 1, Absent <- None,
  Calls <- 1 .. 4, Rejected <- {2}
Work == INSTANCE Stream WITH uses <- streamUses, cache <- bindings,
  Streams <- {s1, s2}, Blocks <- {k}, Stages <- {m}, StagingSlots <- 1, CommandLimit <- 3,
  GraphKinds <- {<<"copy", "dispatch">>, <<"dispatch", "copy">>},
  Nothing <- None,
  Sizes <- {1, 2, 3, 5, 7}, Limits <- {0, 4, 9}, ByteLimit <- 6, EntryLimit <- 3,
  Keys <- {k, m, s1, s2}, HeldLimit <- 3
Shared == INSTANCE BufferPool WITH slots <- queueSlots,
  Streams <- {s1, s2, k}, Addresses <- {1, 2}, BlockIds <- {1, 2}, BlockSizes <- 1 .. 3,
  RetainLimit <- 4, Callers <- {t1, t2}, QueueLimit <- 2, Nil <- None
Recorded == INSTANCE GraphRecording WITH failed <- refusal,
  Allocations <- {k}, Arguments <- Bound, Payloads <- {300, 1048264}, NodeLimit <- 4
Lowering == INSTANCE ExecutionGraph WITH
  BufferKind <- BufferKinds, FillViews <- {V("device", 1, 3), V("foreign", 0, 2)},
  CopyPairs <- {<<V("device", 0, 2), V("host", 0, 2)>>, <<V("host", 2, 4), V("device", 2, 4)>>,
                <<V("device", 0, 2), V("device", 1, 3)>>},
  Launches <- Launched, Scopes <- Scoped, EntryLimit <- 3,
  Buffers <- {k, m}, StorageBytes <- [b \in {k, m} |-> IF b = k THEN 1 ELSE 2], Limit <- 2,
  ReaderLimit <- 2
Fragments == INSTANCE ModelFragment WITH entries <- bound, pool <- scratch,
  Storages <- Stored, Drafts <- Drafted,
  Tensors <- {Span(10, 0, 2), Span(10, 0, 4), Span(11, 2, 4)}, RecordLimit <- 2
Session == INSTANCE ModelSession WITH failed <- sessionFailed, call <- waitingCall,
  Placements <- <<[placement |-> "Device", bytes |-> 2], [placement |-> "Shared", bytes |-> 1]>>,
  Regions <- {R(1, 1, 1), R(2, 0, 1)},
  Reads <- {<<R(1, 1, 1), R(2, 0, 1)>>, <<R(2, 0, 1)>>, <<R(1, 0, 2)>>},
  Programs <- {<<[kind |-> "fill", region |-> R(1, 0, 1), value |-> 2],
                 [kind |-> "dispatch", source |-> R(1, 0, 1), region |-> R(2, 0, 1)]>>,
               <<[kind |-> "fill", region |-> R(1, 1, 0), value |-> 2]>>,
               <<[kind |-> "dispatch", source |-> R(1, 1, 0), region |-> R(2, 1, 0)]>>},
  Values <- {1}, Keys <- {1}, QueueLimit <- 3,
  ValueNames <- 1 .. 3, Sizes <- 0 .. 2, Times <- 1 .. 3
Tensors == INSTANCE TensorTransfers WITH tensors <- held, staging <- hostBuffers, pool <- hostPool,
  Length <- [small |-> 1, other |-> 1, large |-> 2], Budgeted <- FALSE, PoolEntries <- 1,
  JobLimit <- 3
Visible == INSTANCE HostVisibility WITH backing <- placed,
  Agents <- {k, m}, Bytes <- 4, RangeLists <- Ranged
Xdna == INSTANCE XdnaProgram WITH buffers <- fixed, pending <- xdnaPending, retired <- xdnaRetired, cached <- cachedProgram, handles <- programs, points <- xdnaPoints,
  Bindings <- {k, m}, Extra <- {s1}, Window <- 2, SubmissionLimit <- 4, HandleLimit <- 4,
  CommandLimit <- 5
Preparing == INSTANCE CommandPreparation WITH commands <- commandList, prepared <- preparedList, charged <- fenceBytes,
  Operands <- {k}, Launches <- Operated, BatchShapes <- Shaped, CommandLimit <- 3,
  CloneLimit <- 1, SubmitLimit <- 2,
  RingBytes <- 4096, PacketBytes <- 1024, PacketCap <- 4095, KernelBytes <- 65280,
  GroupLimit <- 256, Gcr <- TRUE, Bases <- {0, 3, 200000, 200008, 200013},
  Lengths <- {0, 1, 2, 3, 5, 8, 16, 17, 1023, 1024, 1025, 1027, 65280, 65281, 65288, 69632,
              69633, 69640, 70000, 144384}
Creating == INSTANCE QueueCreation WITH request <- creationRequest, stage <- creationStage, scratch <- nativeScratch,
  FamilyLists <- Families, Topologies <- Topology, PrivateBytes <- {0, 17, 40},
  ScratchLimit <- 32768
Sanitized == INSTANCE SanitizedKernel WITH options <- sanitizing, dirty <- shadowDirty, produced <- reported,
  AddressShadow <- {0, 2, 3}, RaceShadow <- {0, 1, 2}, MaximumShadow <- 4, Capacity <- 4,
  PrepareLimit <- 2, LaunchLimit <- 2, ReportLimit <- 3,
  RangeLists <- Shadowed, Grids <- Gridded, Maximum <- 1000, Word <- 256
Packing == INSTANCE KernelArguments WITH view <- slice, bindings <- operands, launch <- shape,
  Layouts <- Slotted, BlockBytes <- 24, Capacity <- 20, PointerBytes <- 8,
  Extents <- {0, 2, 3, 16}, GroupLimit <- 6, Short <- 16, Word <- 256, Allocation <- 4,
  Address <- {0, 1, 4, 15}, AddressLimit <- 16
Weights == INSTANCE FileTensors WITH entries <- header, asked <- preparing,
  Headers <- Headed, FileBytes <- 25, DataStart <- 3, Base <- 8, Page <- 4, ChunkPages <- 2,
  Workers <- 2, NoError <- None
Timing == INSTANCE QueueObservation WITH slots <- stamps, finished <- completed, waiting <- reading, ring <- blocks, retired <- passed, snapshot <- observed,
  Labels <- {1, 2}, Ticks <- 5, RunLimit <- 3,
  Lengths <- <<2, 3>>, Consumer <- <<1, 1>>, RingBlocks <- 8, PublishLimit <- 6
Roles == INSTANCE FabricMemory WITH active <- allocating, uses <- deviceUses, call <- reader, handles <- workers,
  ProfileLists <- Admitting, DeviceSets <- {{"gpu"}, {"gpu", "npu"}}, Sizes <- {1, 6},
  Page <- 4, BudgetLimit <- 9, CallLimit <- 2,
  Capacity <- 6, Calls <- Filled, FileBytes <- 6, FileOffset <- 2, MaximumWorkers <- 3,
  FillLimit <- 2

aqlVars ==
  <<profiled, produced, consumed, slots, waiting, onGpu, holder, signal, current, settled,
    leased, nextPoint, ticks, capture, sample, task, failed, closed>>
memoryVars ==
  <<life, handles, charged, coherent, needsCache, uses, lock, cache, dirty, memory, newest,
    host, device>>
virtualVars ==
  <<reservation, opened, installed, backing, updates>>
registryVars ==
  <<present, providers, devices, weak, slot, opening>>
batchesVars ==
  <<arena, recording, recorded, content, batches, fenceWord>>
serialVars ==
  <<call, serialStage, page, serialWord, running, snapshot, uncertain, broken, latest,
    counters>>
workVars ==
  <<config, commands, queues, finished, last, streamUses, quarantine, owner, backed, pool,
    bindings, staging, stagePool, event, graph, filling, reserved, open, lost>>
cachesVars ==
  <<which, loans, lists, scratchBytes, scratchLimit, entryPool, cachedKeys, panicked>>
sharedVars ==
  <<address, handle, block, cached, served, asking, queueSlots, cursor, queueOf,
    queueCount>>
recordedVars ==
  <<kind, nodes, frontier, refusal, prepared>>
loweringVars ==
  <<options, entries, lowered>>
buffersVars ==
  <<storage, regions, live, peak>>
fragmentsVars ==
  <<bound, scratch, sizes, tensors, records>>
sessionVars ==
  <<sessionFailed, buffers, graphs, kernels, readback, queue, waitingCall, ideal, answer,
    frozen>>
plannerVars ==
  <<values, refused, plan>>
tensorsVars ==
  <<held, hostBuffers, hostPool, jobs, readbacks>>
visibleVars ==
  <<profile, placed, view, facts, asked, work, done, maintained, verdict>>
xdnaVars ==
  <<fixed, xdnaPending, leases, xdnaRetired, cachedProgram, accepted, executed, stuck,
    programs, xdnaPoints, program, command>>
preparingVars ==
  <<commandList, preparedList, points, active, retired, pending, owners>>
transferVars ==
  <<request, parts, fenceBytes>>
creatingVars ==
  <<creationRequest, families, topology, private, creationStage, chosen, native,
    nativeScratch, outcome>>
sanitizedVars ==
  <<image, sanitizing, kernel, dispatches, ring, shadowDirty, raced, channel, dropped,
    reported, delivered, counted>>
shadowVars ==
  <<ranges, launch>>
packingVars ==
  <<layout, workgroup, engine, widths, constants, slice, operands, shape, packed>>
weightsVars ==
  <<header, indexed, preparing, released, range, crew, nextChunk, pc, index, error,
    resident, attempted, failures, result>>
timingVars ==
  <<counter, stamps, submitted, marker, completed, reading, previousEnd, execution,
    samples>>
retainedVars ==
  <<blocks, write, read, sequence, passed, frames, observed>>
rolesVars ==
  <<profiles, plans, used, calls, allocating>>
fillingVars ==
  <<mapping, published, deviceUses, locked, reader, workers, outcomes>>
vars == <<scenario, aqlVars, memoryVars, virtualVars, registryVars, batchesVars, serialVars,
          workVars, cachesVars, sharedVars, recordedVars, loweringVars, buffersVars,
          fragmentsVars, sessionVars, plannerVars, tensorsVars, visibleVars, xdnaVars,
          preparingVars, transferVars, creatingVars, sanitizedVars, shadowVars, packingVars,
          weightsVars, timingVars, retainedVars, rolesVars, fillingVars>>

\* Two streams and an event; one budgeted stream with staging, fills, loss and
\* drop; an owned graph; reuse of freed allocations.
StreamScenarios == {"order", "charge", "graph", "reuse"}
Streaming == scenario \in StreamScenarios
Scenarios ==
  StreamScenarios \union
  {"aql", "serial", "memory", "virtual", "registry", "transfer", "batch", "pool", "recording",
   "lowering", "buffers", "planner", "fragment", "session", "tensors",
   "visibility", "xdna", "preparation", "creation", "sanitizer", "shadow", "caches", "arguments",
   "weights", "profile", "snapshot", "roles", "filling"}

\* Whether some copy was asked to read or write the tensor.
Touched == [t \in {"small", "other"} |->
  \E j \in DOMAIN jobs : \E c \in ToSet(jobs[j].copies) : <<"tensor", t>> \in {c.to, c.from}]

Within ==
  /\ Streaming =>
       /\ \A b \in {k} : owner'[b] # s2
       /\ graph'[s2] = Work!NoGraph /\ (graph'[s1] # Work!NoGraph => scenario = "graph")
       /\ staging'[s2] = {} /\ s2 \in open'
       /\ scenario # "order" => event' = event /\ last'[s2] = 0
       /\ lost' \/ s1 \notin open' => scenario \in {"charge", "graph"}
       /\ staging' # staging => scenario \in {"charge", "reuse"}
       /\ filling' # filling => scenario = "charge"
  /\ scenario = "recording" =>
       /\ kind = "raw" => \A i \in DOMAIN nodes' :
            nodes'[i].uses = <<U(0, 2, "Write")>> /\ (nodes'[i].join => nodes'[i].words = 300)
       /\ kind = "access" => \A i \in DOMAIN nodes' : nodes'[i].words = 300
       /\ nodes' = nodes => ~refusal \/ ~refusal' \/ prepared' # prepared
       /\ refusal' => Len(nodes') < 3
  \* Equal objects are used in a fixed order; a planner that refused is finished;
  \* a second allocation follows one that was charged.
  /\ scenario = "pool" =>
       (queueOf'[k] # 0 => queueOf'[s2] # 0) /\ (queueOf'[s2] # 0 => queueOf'[s1] # 0)
  /\ scenario = "tensors" => (Touched'["other"] => Touched'["small"])
  /\ scenario = "planner" => (refused # {} => UNCHANGED <<values, refused>>)
  /\ scenario = "roles" /\ Len(calls) = 1 /\ allocating' # <<>> => calls[1].charge > 0

\* One stream has the default configuration, the other any; copies next to an
\* owned graph are on an engine of their own.
StreamsStart ==
  Streaming =>
    /\ config[s2] = [compute |-> "pm4", copy |-> "compute", budget |-> FALSE]
    /\ config[s1].budget = (scenario \in {"charge", "graph"})
    /\ scenario = "graph" => config[s1].copy = "sdma"

MCInit ==
  /\ scenario \in Scenarios
  /\ IF scenario = "aql" THEN Aql!AqlInit
     ELSE profiled = 0 /\ produced = 0 /\ consumed = 0 /\ slots = 0 /\ waiting = 0 /\ onGpu
          = 0 /\ holder = 0 /\ signal = 0 /\ current = 0 /\ settled = 0 /\ leased = 0 /\
          nextPoint = 0 /\ ticks = 0 /\ capture = 0 /\ sample = 0 /\ task = 0 /\ failed = 0
          /\ closed = 0
  /\ IF scenario = "memory" THEN Memory!MemInit
     ELSE life = 0 /\ handles = 0 /\ charged = 0 /\ coherent = 0 /\ needsCache = 0 /\ uses =
          0 /\ lock = 0 /\ cache = 0 /\ dirty = 0 /\ memory = 0 /\ newest = 0 /\ host = 0 /\
          device = 0
  /\ IF scenario = "virtual" THEN Memory!VmInit
     ELSE reservation = 0 /\ opened = 0 /\ installed = 0 /\ backing = 0 /\ updates = 0
  /\ IF scenario = "registry" THEN Registry!RegistryInit
     ELSE present = 0 /\ providers = 0 /\ devices = 0 /\ weak = 0 /\ slot = 0 /\ opening = 0
  /\ IF scenario = "batch" THEN Batches!BatchInit
     ELSE arena = 0 /\ recording = 0 /\ recorded = 0 /\ content = 0 /\ batches = 0 /\
          fenceWord = 0
  /\ IF scenario = "serial" THEN Batches!SerialInit
     ELSE call = 0 /\ serialStage = 0 /\ page = 0 /\ serialWord = 0 /\ running = 0 /\
          snapshot = 0 /\ uncertain = 0 /\ broken = 0 /\ latest = 0 /\ counters = 0
  /\ IF Streaming THEN Work!StreamInit
     ELSE config = 0 /\ commands = 0 /\ queues = 0 /\ finished = 0 /\ last = 0 /\ streamUses
          = 0 /\ quarantine = 0 /\ owner = 0 /\ backed = 0 /\ pool = 0 /\ bindings = 0 /\
          staging = 0 /\ stagePool = 0 /\ event = 0 /\ graph = 0 /\ filling = 0 /\ reserved
          = 0 /\ open = 0 /\ lost = 0
  /\ IF scenario = "caches" THEN Work!CacheInit
     ELSE which = 0 /\ loans = 0 /\ lists = 0 /\ scratchBytes = 0 /\ scratchLimit = 0 /\
          entryPool = 0 /\ cachedKeys = 0 /\ panicked = 0
  /\ IF scenario = "pool" THEN Shared!PoolInit
     ELSE address = 0 /\ handle = 0 /\ block = 0 /\ cached = 0 /\ served = 0 /\ asking = 0
          /\ queueSlots = 0 /\ cursor = 0 /\ queueOf = 0 /\ queueCount = 0
  /\ IF scenario = "recording" THEN Recorded!GraphInit
     ELSE kind = 0 /\ nodes = 0 /\ frontier = 0 /\ refusal = 0 /\ prepared = 0
  /\ IF scenario = "lowering" THEN Lowering!ExecutionInit
     ELSE options = 0 /\ entries = 0 /\ lowered = 0
  /\ IF scenario = "buffers" THEN Lowering!BufferInit
     ELSE storage = 0 /\ regions = 0 /\ live = 0 /\ peak = 0
  /\ IF scenario = "fragment" THEN Fragments!FragmentInit
     ELSE bound = 0 /\ scratch = 0 /\ sizes = 0 /\ tensors = 0 /\ records = 0
  /\ IF scenario = "session" THEN Session!SessionInit
     ELSE sessionFailed = 0 /\ buffers = 0 /\ graphs = 0 /\ kernels = 0 /\ readback = 0 /\
          queue = 0 /\ waitingCall = 0 /\ ideal = 0 /\ answer = 0 /\ frozen = 0
  /\ IF scenario = "planner" THEN Session!PlannerInit
     ELSE values = 0 /\ refused = 0 /\ plan = 0
  /\ IF scenario = "tensors" THEN Tensors!TransferInit
     ELSE held = 0 /\ hostBuffers = 0 /\ hostPool = 0 /\ jobs = 0 /\ readbacks = 0
  /\ IF scenario = "visibility" THEN Visible!VisibilityInit
     ELSE profile = 0 /\ placed = 0 /\ view = 0 /\ facts = 0 /\ asked = 0 /\ work = 0 /\
          done = 0 /\ maintained = 0 /\ verdict = 0
  /\ IF scenario = "xdna" THEN Xdna!XdnaInit
     ELSE fixed = 0 /\ xdnaPending = 0 /\ leases = 0 /\ xdnaRetired = 0 /\ cachedProgram = 0
          /\ accepted = 0 /\ executed = 0 /\ stuck = 0 /\ programs = 0 /\ xdnaPoints = 0 /\
          program = 0 /\ command = 0
  /\ IF scenario = "preparation" THEN Preparing!PreparationInit
     ELSE commandList = 0 /\ preparedList = 0 /\ points = 0 /\ active = 0 /\ retired = 0 /\
          pending = 0 /\ owners = 0
  /\ IF scenario = "transfer" THEN Preparing!TransferInit
     ELSE request = 0 /\ parts = 0 /\ fenceBytes = 0
  /\ IF scenario = "creation" THEN Creating!CreationInit
     ELSE creationRequest = 0 /\ families = 0 /\ topology = 0 /\ private = 0 /\
          creationStage = 0 /\ chosen = 0 /\ native = 0 /\ nativeScratch = 0 /\ outcome = 0
  /\ IF scenario = "sanitizer" THEN Sanitized!SanitizerInit
     ELSE image = 0 /\ sanitizing = 0 /\ kernel = 0 /\ dispatches = 0 /\ ring = 0 /\
          shadowDirty = 0 /\ raced = 0 /\ channel = 0 /\ dropped = 0 /\ reported = 0 /\
          delivered = 0 /\ counted = 0
  /\ IF scenario = "shadow" THEN Sanitized!ShadowInit
     ELSE ranges = 0 /\ launch = 0
  /\ IF scenario = "arguments" THEN Packing!ArgumentInit
     ELSE layout = 0 /\ workgroup = 0 /\ engine = 0 /\ widths = 0 /\ constants = 0 /\ slice
          = 0 /\ operands = 0 /\ shape = 0 /\ packed = 0
  /\ IF scenario = "weights" THEN Weights!FileInit
     ELSE header = 0 /\ indexed = 0 /\ preparing = 0 /\ released = 0 /\ range = 0 /\ crew =
          0 /\ nextChunk = 0 /\ pc = 0 /\ index = 0 /\ error = 0 /\ resident = 0 /\
          attempted = 0 /\ failures = 0 /\ result = 0
  /\ IF scenario = "profile" THEN Timing!ProfileInit
     ELSE counter = 0 /\ stamps = 0 /\ submitted = 0 /\ marker = 0 /\ completed = 0 /\
          reading = 0 /\ previousEnd = 0 /\ execution = 0 /\ samples = 0
  /\ IF scenario = "snapshot" THEN Timing!RingInit
     ELSE blocks = 0 /\ write = 0 /\ read = 0 /\ sequence = 0 /\ passed = 0 /\ frames = 0 /\
          observed = 0
  /\ IF scenario = "roles" THEN Roles!RolesInit
     ELSE profiles = 0 /\ plans = 0 /\ used = 0 /\ calls = 0 /\ allocating = 0
  /\ IF scenario = "filling" THEN Roles!FileReadInit
     ELSE mapping = 0 /\ published = 0 /\ deviceUses = 0 /\ locked = 0 /\ reader = 0 /\
          workers = 0 /\ outcomes = 0
  /\ StreamsStart

\* A step of one part, which leaves the others alone.
InAql(A) == scenario = "aql" /\ A /\ UNCHANGED <<scenario, memoryVars, virtualVars,
      registryVars, batchesVars, serialVars, workVars, cachesVars, sharedVars, recordedVars,
      loweringVars, buffersVars, fragmentsVars, sessionVars, plannerVars, tensorsVars,
      visibleVars, xdnaVars, preparingVars, transferVars, creatingVars, sanitizedVars,
      shadowVars, packingVars, weightsVars, timingVars, retainedVars, rolesVars,
      fillingVars>>
InMemory(A) == scenario = "memory" /\ A /\ UNCHANGED <<scenario, aqlVars, virtualVars,
      registryVars, batchesVars, serialVars, workVars, cachesVars, sharedVars, recordedVars,
      loweringVars, buffersVars, fragmentsVars, sessionVars, plannerVars, tensorsVars,
      visibleVars, xdnaVars, preparingVars, transferVars, creatingVars, sanitizedVars,
      shadowVars, packingVars, weightsVars, timingVars, retainedVars, rolesVars,
      fillingVars>>
InVirtual(A) == scenario = "virtual" /\ A /\ UNCHANGED <<scenario, aqlVars, memoryVars,
      registryVars, batchesVars, serialVars, workVars, cachesVars, sharedVars, recordedVars,
      loweringVars, buffersVars, fragmentsVars, sessionVars, plannerVars, tensorsVars,
      visibleVars, xdnaVars, preparingVars, transferVars, creatingVars, sanitizedVars,
      shadowVars, packingVars, weightsVars, timingVars, retainedVars, rolesVars,
      fillingVars>>
InRegistry(A) == scenario = "registry" /\ A /\ UNCHANGED <<scenario, aqlVars, memoryVars,
      virtualVars, batchesVars, serialVars, workVars, cachesVars, sharedVars, recordedVars,
      loweringVars, buffersVars, fragmentsVars, sessionVars, plannerVars, tensorsVars,
      visibleVars, xdnaVars, preparingVars, transferVars, creatingVars, sanitizedVars,
      shadowVars, packingVars, weightsVars, timingVars, retainedVars, rolesVars,
      fillingVars>>
InBatches(A) == scenario = "batch" /\ A /\ UNCHANGED <<scenario, aqlVars, memoryVars,
      virtualVars, registryVars, serialVars, workVars, cachesVars, sharedVars, recordedVars,
      loweringVars, buffersVars, fragmentsVars, sessionVars, plannerVars, tensorsVars,
      visibleVars, xdnaVars, preparingVars, transferVars, creatingVars, sanitizedVars,
      shadowVars, packingVars, weightsVars, timingVars, retainedVars, rolesVars,
      fillingVars>>
InSerial(A) == scenario = "serial" /\ A /\ UNCHANGED <<scenario, aqlVars, memoryVars,
      virtualVars, registryVars, batchesVars, workVars, cachesVars, sharedVars,
      recordedVars, loweringVars, buffersVars, fragmentsVars, sessionVars, plannerVars,
      tensorsVars, visibleVars, xdnaVars, preparingVars, transferVars, creatingVars,
      sanitizedVars, shadowVars, packingVars, weightsVars, timingVars, retainedVars,
      rolesVars, fillingVars>>
InWork(A) == Streaming /\ A /\ Within /\ UNCHANGED <<scenario, aqlVars, memoryVars,
      virtualVars, registryVars, batchesVars, serialVars, cachesVars, sharedVars,
      recordedVars, loweringVars, buffersVars, fragmentsVars, sessionVars, plannerVars,
      tensorsVars, visibleVars, xdnaVars, preparingVars, transferVars, creatingVars,
      sanitizedVars, shadowVars, packingVars, weightsVars, timingVars, retainedVars,
      rolesVars, fillingVars>>
InCaches(A) == scenario = "caches" /\ A /\ UNCHANGED <<scenario, aqlVars, memoryVars,
      virtualVars, registryVars, batchesVars, serialVars, workVars, sharedVars,
      recordedVars, loweringVars, buffersVars, fragmentsVars, sessionVars, plannerVars,
      tensorsVars, visibleVars, xdnaVars, preparingVars, transferVars, creatingVars,
      sanitizedVars, shadowVars, packingVars, weightsVars, timingVars, retainedVars,
      rolesVars, fillingVars>>
InShared(A) == scenario = "pool" /\ A /\ Within /\ UNCHANGED <<scenario, aqlVars,
      memoryVars, virtualVars, registryVars, batchesVars, serialVars, workVars, cachesVars,
      recordedVars, loweringVars, buffersVars, fragmentsVars, sessionVars, plannerVars,
      tensorsVars, visibleVars, xdnaVars, preparingVars, transferVars, creatingVars,
      sanitizedVars, shadowVars, packingVars, weightsVars, timingVars, retainedVars,
      rolesVars, fillingVars>>
InRecorded(A) == scenario = "recording" /\ A /\ Within /\ UNCHANGED <<scenario, aqlVars,
      memoryVars, virtualVars, registryVars, batchesVars, serialVars, workVars, cachesVars,
      sharedVars, loweringVars, buffersVars, fragmentsVars, sessionVars, plannerVars,
      tensorsVars, visibleVars, xdnaVars, preparingVars, transferVars, creatingVars,
      sanitizedVars, shadowVars, packingVars, weightsVars, timingVars, retainedVars,
      rolesVars, fillingVars>>
InLowering(A) == scenario = "lowering" /\ A /\ UNCHANGED <<scenario, aqlVars, memoryVars,
      virtualVars, registryVars, batchesVars, serialVars, workVars, cachesVars, sharedVars,
      recordedVars, buffersVars, fragmentsVars, sessionVars, plannerVars, tensorsVars,
      visibleVars, xdnaVars, preparingVars, transferVars, creatingVars, sanitizedVars,
      shadowVars, packingVars, weightsVars, timingVars, retainedVars, rolesVars,
      fillingVars>>
InBuffers(A) == scenario = "buffers" /\ A /\ UNCHANGED <<scenario, aqlVars, memoryVars,
      virtualVars, registryVars, batchesVars, serialVars, workVars, cachesVars, sharedVars,
      recordedVars, loweringVars, fragmentsVars, sessionVars, plannerVars, tensorsVars,
      visibleVars, xdnaVars, preparingVars, transferVars, creatingVars, sanitizedVars,
      shadowVars, packingVars, weightsVars, timingVars, retainedVars, rolesVars,
      fillingVars>>
InFragments(A) == scenario = "fragment" /\ A /\ UNCHANGED <<scenario, aqlVars, memoryVars,
      virtualVars, registryVars, batchesVars, serialVars, workVars, cachesVars, sharedVars,
      recordedVars, loweringVars, buffersVars, sessionVars, plannerVars, tensorsVars,
      visibleVars, xdnaVars, preparingVars, transferVars, creatingVars, sanitizedVars,
      shadowVars, packingVars, weightsVars, timingVars, retainedVars, rolesVars,
      fillingVars>>
InSession(A) == scenario = "session" /\ A /\ UNCHANGED <<scenario, aqlVars, memoryVars,
      virtualVars, registryVars, batchesVars, serialVars, workVars, cachesVars, sharedVars,
      recordedVars, loweringVars, buffersVars, fragmentsVars, plannerVars, tensorsVars,
      visibleVars, xdnaVars, preparingVars, transferVars, creatingVars, sanitizedVars,
      shadowVars, packingVars, weightsVars, timingVars, retainedVars, rolesVars,
      fillingVars>>
InPlanner(A) == scenario = "planner" /\ A /\ Within /\ UNCHANGED <<scenario, aqlVars,
      memoryVars, virtualVars, registryVars, batchesVars, serialVars, workVars, cachesVars,
      sharedVars, recordedVars, loweringVars, buffersVars, fragmentsVars, sessionVars,
      tensorsVars, visibleVars, xdnaVars, preparingVars, transferVars, creatingVars,
      sanitizedVars, shadowVars, packingVars, weightsVars, timingVars, retainedVars,
      rolesVars, fillingVars>>
InTensors(A) == scenario = "tensors" /\ A /\ Within /\ UNCHANGED <<scenario, aqlVars,
      memoryVars, virtualVars, registryVars, batchesVars, serialVars, workVars, cachesVars,
      sharedVars, recordedVars, loweringVars, buffersVars, fragmentsVars, sessionVars,
      plannerVars, visibleVars, xdnaVars, preparingVars, transferVars, creatingVars,
      sanitizedVars, shadowVars, packingVars, weightsVars, timingVars, retainedVars,
      rolesVars, fillingVars>>
InVisible(A) == scenario = "visibility" /\ A /\ UNCHANGED <<scenario, aqlVars, memoryVars,
      virtualVars, registryVars, batchesVars, serialVars, workVars, cachesVars, sharedVars,
      recordedVars, loweringVars, buffersVars, fragmentsVars, sessionVars, plannerVars,
      tensorsVars, xdnaVars, preparingVars, transferVars, creatingVars, sanitizedVars,
      shadowVars, packingVars, weightsVars, timingVars, retainedVars, rolesVars,
      fillingVars>>
InXdna(A) == scenario = "xdna" /\ A /\ UNCHANGED <<scenario, aqlVars, memoryVars,
      virtualVars, registryVars, batchesVars, serialVars, workVars, cachesVars, sharedVars,
      recordedVars, loweringVars, buffersVars, fragmentsVars, sessionVars, plannerVars,
      tensorsVars, visibleVars, preparingVars, transferVars, creatingVars, sanitizedVars,
      shadowVars, packingVars, weightsVars, timingVars, retainedVars, rolesVars,
      fillingVars>>
InPreparing(A) == scenario = "preparation" /\ A /\ UNCHANGED <<scenario, aqlVars,
      memoryVars, virtualVars, registryVars, batchesVars, serialVars, workVars, cachesVars,
      sharedVars, recordedVars, loweringVars, buffersVars, fragmentsVars, sessionVars,
      plannerVars, tensorsVars, visibleVars, xdnaVars, transferVars, creatingVars,
      sanitizedVars, shadowVars, packingVars, weightsVars, timingVars, retainedVars,
      rolesVars, fillingVars>>
InTransfer(A) == scenario = "transfer" /\ A /\ UNCHANGED <<scenario, aqlVars, memoryVars,
      virtualVars, registryVars, batchesVars, serialVars, workVars, cachesVars, sharedVars,
      recordedVars, loweringVars, buffersVars, fragmentsVars, sessionVars, plannerVars,
      tensorsVars, visibleVars, xdnaVars, preparingVars, creatingVars, sanitizedVars,
      shadowVars, packingVars, weightsVars, timingVars, retainedVars, rolesVars,
      fillingVars>>
InCreating(A) == scenario = "creation" /\ A /\ UNCHANGED <<scenario, aqlVars, memoryVars,
      virtualVars, registryVars, batchesVars, serialVars, workVars, cachesVars, sharedVars,
      recordedVars, loweringVars, buffersVars, fragmentsVars, sessionVars, plannerVars,
      tensorsVars, visibleVars, xdnaVars, preparingVars, transferVars, sanitizedVars,
      shadowVars, packingVars, weightsVars, timingVars, retainedVars, rolesVars,
      fillingVars>>
InSanitized(A) == scenario = "sanitizer" /\ A /\ UNCHANGED <<scenario, aqlVars, memoryVars,
      virtualVars, registryVars, batchesVars, serialVars, workVars, cachesVars, sharedVars,
      recordedVars, loweringVars, buffersVars, fragmentsVars, sessionVars, plannerVars,
      tensorsVars, visibleVars, xdnaVars, preparingVars, transferVars, creatingVars,
      shadowVars, packingVars, weightsVars, timingVars, retainedVars, rolesVars,
      fillingVars>>
InPacking(A) == scenario = "arguments" /\ A /\ UNCHANGED <<scenario, aqlVars, memoryVars,
      virtualVars, registryVars, batchesVars, serialVars, workVars, cachesVars, sharedVars,
      recordedVars, loweringVars, buffersVars, fragmentsVars, sessionVars, plannerVars,
      tensorsVars, visibleVars, xdnaVars, preparingVars, transferVars, creatingVars,
      sanitizedVars, shadowVars, weightsVars, timingVars, retainedVars, rolesVars,
      fillingVars>>
InWeights(A) == scenario = "weights" /\ A /\ UNCHANGED <<scenario, aqlVars, memoryVars,
      virtualVars, registryVars, batchesVars, serialVars, workVars, cachesVars, sharedVars,
      recordedVars, loweringVars, buffersVars, fragmentsVars, sessionVars, plannerVars,
      tensorsVars, visibleVars, xdnaVars, preparingVars, transferVars, creatingVars,
      sanitizedVars, shadowVars, packingVars, timingVars, retainedVars, rolesVars,
      fillingVars>>
InTiming(A) == scenario = "profile" /\ A /\ UNCHANGED <<scenario, aqlVars, memoryVars,
      virtualVars, registryVars, batchesVars, serialVars, workVars, cachesVars, sharedVars,
      recordedVars, loweringVars, buffersVars, fragmentsVars, sessionVars, plannerVars,
      tensorsVars, visibleVars, xdnaVars, preparingVars, transferVars, creatingVars,
      sanitizedVars, shadowVars, packingVars, weightsVars, retainedVars, rolesVars,
      fillingVars>>
InRetained(A) == scenario = "snapshot" /\ A /\ UNCHANGED <<scenario, aqlVars, memoryVars,
      virtualVars, registryVars, batchesVars, serialVars, workVars, cachesVars, sharedVars,
      recordedVars, loweringVars, buffersVars, fragmentsVars, sessionVars, plannerVars,
      tensorsVars, visibleVars, xdnaVars, preparingVars, transferVars, creatingVars,
      sanitizedVars, shadowVars, packingVars, weightsVars, timingVars, rolesVars,
      fillingVars>>
InRoles(A) == scenario = "roles" /\ A /\ Within /\ UNCHANGED <<scenario, aqlVars,
      memoryVars, virtualVars, registryVars, batchesVars, serialVars, workVars, cachesVars,
      sharedVars, recordedVars, loweringVars, buffersVars, fragmentsVars, sessionVars,
      plannerVars, tensorsVars, visibleVars, xdnaVars, preparingVars, transferVars,
      creatingVars, sanitizedVars, shadowVars, packingVars, weightsVars, timingVars,
      retainedVars, fillingVars>>
InFilling(A) == scenario = "filling" /\ A /\ UNCHANGED <<scenario, aqlVars, memoryVars,
      virtualVars, registryVars, batchesVars, serialVars, workVars, cachesVars, sharedVars,
      recordedVars, loweringVars, buffersVars, fragmentsVars, sessionVars, plannerVars,
      tensorsVars, visibleVars, xdnaVars, preparingVars, transferVars, creatingVars,
      sanitizedVars, shadowVars, packingVars, weightsVars, timingVars, retainedVars,
      rolesVars>>

MCNext ==
  \/ InAql(Aql!AqlNext)
  \/ InMemory(Memory!MemNext)
  \/ InVirtual(Memory!VmNext)
  \/ InRegistry(Registry!RegistryNext)
  \/ InBatches(Batches!BatchNext)
  \/ InSerial(Batches!SerialNext)
  \/ InWork(Work!StreamNext)
  \/ InCaches(Work!CacheNext)
  \/ InShared(Shared!PoolNext)
  \/ InRecorded(Recorded!GraphNext)
  \/ InLowering(Lowering!ExecutionNext)
  \/ InBuffers(Lowering!BufferNext)
  \/ InFragments(Fragments!FragmentNext)
  \/ InSession(Session!SessionNext)
  \/ InPlanner(Session!PlannerNext)
  \/ InTensors(Tensors!TransferNext)
  \/ InVisible(Visible!VisibilityNext)
  \/ InXdna(Xdna!XdnaNext)
  \/ InPreparing(Preparing!PreparationNext)
  \/ InTransfer(Preparing!TransferNext)
  \/ InCreating(Creating!CreationNext)
  \/ InSanitized(Sanitized!SanitizerNext)
  \/ InPacking(Packing!ArgumentNext)
  \/ InWeights(Weights!FileNext)
  \/ InTiming(Timing!ProfileNext)
  \/ InRetained(Timing!RingNext)
  \/ InRoles(Roles!RolesNext)
  \/ InFilling(Roles!FileReadNext)

MCSpec == MCInit /\ [][MCNext]_vars
-----------------------------------------------------------------------------
\* Packets, argument pages and recorded words are not overwritten while the GPU
\* may still read them (aql.rs:618-711, serial.rs, queue.rs:593-693), batches and
\* NPU transactions hold exactly the commands put into them (queue.rs:913-1050,
\* xdna.rs:361-397), sanitizer reports and shadow memory are those of the dispatch
\* (sanitizer.rs), and a snapshot shows the frame it names (queue.rs:1290-1319).
CommandsIntact ==
  /\ scenario = "aql" => Aql!PacketsIntact /\ Aql!SamplesOwn
  /\ scenario = "serial" => Batches!SerialReuse
  /\ scenario = "batch" => Batches!BatchesIntact
  /\ scenario = "preparation" => Preparing!BatchExact /\ Preparing!StorageCharged
  /\ scenario = "xdna" => Xdna!CommandWhole
  /\ scenario = "sanitizer" => Sanitized!ReportsAccounted /\ Sanitized!ShadowFresh
  /\ scenario = "snapshot" => Timing!SnapshotExact

\* What page tables, prepared commands or a device may reach is owned and leased,
\* what may still be reached natively keeps its charge, its source and its
\* device, through failures and drops, and queues are taken down in order.
OwnersOutlive ==
  /\ scenario = "memory" => Memory!OwnersOutlive
  /\ scenario = "virtual" => Memory!PagesLeased
  /\ scenario = "registry" => Registry!DeviceIdentity
  /\ scenario = "xdna" => Xdna!BindingsLeased
  /\ scenario = "preparation" => Preparing!WordsOwned
  /\ scenario = "sanitizer" => Sanitized!DispatchOwned
  /\ scenario = "creation" => Creating!NativeNested

\* Host, GPU and NPU see each other's completed writes: in native memory
\* (memory.rs), through host transitions (visibility.rs), after file reads, and in
\* execution buffers (buffer.rs).
Visibility ==
  /\ scenario = "memory" => Memory!Visibility
  /\ scenario = "buffers" => Lowering!EnginesSee
  /\ scenario = "visibility" => Visible!SitesExact /\ Visible!HostMaintained
  /\ scenario = "filling" => Roles!FilledTruly

\* The packets of a transfer write each requested byte once and every part fits
\* the ring; the batches of a graph fit an indirect buffer; the arguments of a
\* launch fill their block, and shadow tables cover their addresses.
TransfersExact ==
  /\ scenario = "transfer" => Preparing!TransfersExact /\ Preparing!PartsPublishable
  /\ scenario = "recording" => Recorded!BatchesFit
  /\ scenario = "arguments" => Packing!ArgumentsExact
  /\ scenario = "shadow" => Sanitized!AddressExact /\ Sanitized!RaceExact

\* Work that conflicts, or that the caller ordered, is ordered: across the
\* engines of a stream and events, in recorded graphs, in lowered graphs.
WorkOrdered ==
  /\ Streaming => Work!StreamOrder
  /\ scenario = "recording" => Recorded!GraphOrder
  /\ scenario = "lowering" => Lowering!LoweringOrder

\* Memory that queued work, native backing or a live handle uses is charged to
\* its budget, and nothing else is; windows and caches keep to their limits.
ChargesCoverUse ==
  /\ Streaming => Work!ChargesCoverUse
  /\ scenario = "buffers" => Lowering!HeldCounted
  /\ scenario = "roles" => Roles!BudgetCovers
  /\ scenario = "xdna" => Xdna!WindowExact
  /\ scenario = "caches" => Work!CachesBounded

\* Pooled, staged and planned memory is handed out again only when nobody uses
\* it: freed allocations and staging of a stream, a shared buffer pool, host
\* staging of tensors, planned scratch, argument pages, pages of mapped files.
ReuseIsQuiet ==
  /\ Streaming => Work!ReuseIsQuiet
  /\ scenario = "pool" => Shared!PoolOneStream /\ Shared!QueuesShared
  /\ scenario = "tensors" => Tensors!StagingQuiet
  /\ scenario = "planner" => Session!PlanSound
  /\ scenario = "preparation" => Preparing!ExclusiveIsAlone
  /\ scenario = "weights" => Weights!NeighboursKept

\* What was asked for is what is built: regions of a lowered graph carry exactly
\* the declared accesses, a recorded fragment touches what its definition lets it
\* touch, views and launches stay inside their bounds, queues have the family and
\* scratch they need, and allocations the profile and placement asked for.
LoweredExact ==
  /\ scenario = "lowering" => Lowering!RegionsExact
  /\ scenario = "fragment" => Fragments!AliasesDeclared /\ Fragments!SharedUntouched
  /\ scenario = "arguments" => Packing!ViewInside /\ Packing!LaunchExact
  /\ scenario = "creation" => Creating!QueueUsable
  /\ scenario = "roles" => Roles!ProfilesHonoured

\* Reads return the bytes the calls before them say, or an error: tensors and
\* outputs, profile samples, pages of weights.
ReadsCurrent ==
  /\ scenario = "session" => Session!ReadsCurrent
  /\ scenario = "tensors" => Tensors!ReadbackExact
  /\ scenario = "profile" => Timing!SamplesExact
  /\ scenario = "weights" => Weights!PreparedTruly

\* Conflicting byte ranges are ordered in an access graph also when one of its
\* operations was refused (access_graph.rs:18, "edges are inferred from declared
\* buffer access").
RefusedOrder == scenario = "recording" => Recorded!RefusedOrder

\* Host guards of adopted shared storage see what the GPU wrote before the
\* adoption (docs/GPU-NPU.md:42-44, aliases "share host access guards and
\* visibility transitions").
AdoptedSeen == scenario = "buffers" => Lowering!AdoptedSeen
=============================================================================
