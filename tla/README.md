# Verification of hrx

hrx runs GPU and NPU work for Rust programs. This directory models the parts of
it that coordinate threads, processes, devices, memory and files, model-checks
them with TLC, and proves the main guarantees of its scheduler, inference pool,
plan cache, residency manager, job pool, resident sessions, native queues,
artifact cache and kernel cache with TLAPS. `PROJECT.json` maps every definition
to the source lines it models and lists the runs, hazards, findings and theorems
explained here.

## The system

Paths are relative to `src/src/`.

| Part | Source | Modules |
|---|---|---|
| Scheduler: lanes, admission, hazards, completions, host mappings, handoffs, native stages, runtime owner | `execution/scheduler.rs`, `completion.rs`, `graph.rs`, `buffer.rs`, `handoff.rs`, `mod.rs`, `native_session.rs` | `Scheduler` |
| Execution graphs: recording, contracts, lowering to regions; storage and its visibility | `execution/graph.rs`, `contract.rs`, `dependencies.rs`, `buffer.rs`, `mod.rs` | `ExecutionGraph`, `DependencyFrontier` |
| Inference pool of one prepared model; owned tensors | `inference.rs` | `InferencePool`, `TensorTransfers` |
| Plan cache, residency manager | `plan_cache.rs`, `residency.rs` | `PlanCache`, `Residency`, abstract `SingleFlight` |
| Storage sessions over a GPU-published ring | `storage/mod.rs`, `fabric/storage.rs` | `StorageSession`, `StorageRing` |
| Host job pool; resident GPU-NPU exchange | `jobs.rs`, `fabric/resident.rs` | `JobPool`, `ResidentSession` |
| Streams, events, staging, caches, budgets; launches | `runtime.rs`, `fabric/executable.rs` | `Stream`, `KernelArguments` |
| Raw and access graphs | `runtime.rs`, `access_graph.rs`, `dependency_frontier.rs` | `GraphRecording`, `DependencyFrontier` |
| Buffer pool, shared stream queues | `buffer_pool.rs`, `fabric/queue.rs` | `BufferPool` |
| PM4 and SDMA queues, their commands and batches | `fabric/queue.rs`, `queue/serial.rs`, `queue/sdma.rs`, `profile.rs` | `NativeQueue`, `CommandPreparation`, `CommandStorage`, `QueueCreation`, `QueueObservation` |
| AQL dispatch, instrumented kernels | `fabric/aql.rs`, `sanitizer.rs`, `executable.rs` | `AqlQueue`, `QueueCreation`, `SanitizedKernel` |
| XDNA programs | `fabric/xdna.rs` | `XdnaProgram` |
| Native memory, alias groups, host visibility | `fabric/memory.rs`, `virtual_memory.rs`, `visibility.rs` | `DeviceMemory`, `FabricMemory`, `HostVisibility` |
| Providers and devices | `fabric/mod.rs` | `DeviceRegistry` |
| Models | `loom/model.rs`, `loom/model/definition.rs` | `ModelSession`, `ModelFragment` |
| Compilation, kernel cache, bundles | `loom.rs`, `loom/native.rs`, `bundle.rs` | `Compilation`, `KernelCache`, `RuntimeBundle` |
| Tensor files | `artifacts/safetensors.rs`, `mapped_pages.rs` | `FileTensors` |

Applications record graphs and submit them to the scheduler, or enqueue work on
streams. Both end in commands published to native queues, whose operands are
native memory. An inference pool owns slots whose graphs it submits. Plan caches
and the residency manager decide which prepared objects exist. A storage session
feeds device memory from files. Compiled kernels come from the artifact cache.

Where one module relies on another, its comment says so. `InferencePool` and
`TensorTransfers` use what `Scheduler` establishes: conflicting submissions
execute in order and each publishes one outcome. `ExecutionGraph` starts a region
only when no conflicting one runs. `CommandPreparation` uses the retirement order
of `NativeQueue`.

## Modules

**Scheduler.** One action is one critical section of the scheduler mutex or one
step a thread takes outside it. Worker threads and application threads share one
program counter `at`; callers that wait help to run their own job. State follows
the code: `pending`, `finishing`, `running`, `native` (struct `Scheduler`);
`run`, `dependencies`, `blockers` (`Pending`); `nodes`, `occupied`, `failure`
(`Slot`); `done`, `failed`, `cancelled`, `cancel` (`Signal`); `poison`, `readers`,
`writer`, `external` (`HostState`). The vector of pending jobs is ordered by
sequence number, so it is a set of numbers; the native queue's front is its
minimum. Condition variables are sets of sleepers: `notify_one` wakes any one.
`requested` and `result` record what happened to each submission. The clients of
a model may differ: `Submitters`, `Natives`, `Hosts`, `Cancellers`, `Droppers`.

**ExecutionGraph, DependencyFrontier.** Recording calls with their contracts,
`prepare` with its grouping into regions, the sweep that summarizes byte ranges,
and the edges inferred from the frontier of byte segments. The second part of
`ExecutionGraph` tracks, for each buffer, who wrote last and which engine sees
it, next to what memory and host cache really hold. Storage may be allocated or
adopted: a stream allocates, writes and drops a buffer, or gives it to the
runtime, which charges it once. `GraphRecording` uses the
same frontier for raw GPU graphs and adds barriers and batches.

**InferencePool, TensorTransfers.** Slots, the pool mutex (`holder`), the three
ways to acquire (`try_acquire`, `acquire_blocking`, the future), staging,
submission, readback, export of outputs and quarantine. `acquire_locked` reads
completions, which change under other locks, more than once while it holds the
mutex, so it is several steps. `TensorTransfers` models pooled host staging with
the contents of every buffer, and jobs that run, fail, are cancelled or are
refused because a producer failed or their memory is poisoned.

**SingleFlight, PlanCache, Residency.** `SingleFlight` says what both caches
promise: at most one preparation per key, callers that joined it share its
result, a failed one leaves nothing, and nothing in use is evicted. `PlanCache`
adds capacity and least-recent eviction. `Residency` adds declared and
allocation-time budgets, growth and shrinking, pins, the idle cleanup thread and
a manager that goes away.

**StorageSession, StorageRing.** `Physical` is the widening of an extent to the
direct-I/O alignment, with overflow at `Limit` (2^64 in the code). Slots are weak
references to requests; sharing and overlap go by inode; the service thread has
short transfers, retries and a timeout that leaves transfers in flight. Contents
are kept byte by byte, so stale and torn data are visible. `StorageRing` is the
io_uring below it: a GPU publishes and cannot make system calls, so the waiting
host wakes a sleeping kernel worker.

**NativeQueue, CommandPreparation, CommandStorage, QueueCreation,
QueueObservation.** Two threads publish into a ring whose fences and cursors have
a small width; the GPU fetches, executes and writes fences; anybody may retire.
Preparation is about what the words of a command reach and own (a wait may name
any completion of a command that somebody still holds), and cuts copies and fills
into packets at the 32-bit and ring limits. Storage is about pages that are
reused. Creation takes one native step at a time, each of which may fail.
Observation is profile samples and ring snapshots.

**AqlQueue, SanitizedKernel, XdnaProgram.** The other two kinds of device
producers: a signal that counts down with timestamps captured before it is used
again; private code and shadow memory per dispatch with one feedback channel, and
the layout of race shadows up to the width of a machine word; a window of NPU
invocations whose failures quarantine what may still be reached.

**DeviceMemory, FabricMemory, HostVisibility, DeviceRegistry.** One cache line
under host calls, a coherent GPU and a non-coherent NPU; reservations whose
backing is replaced; entry points, profiles and charges of allocation; file
reads; host transitions through imports; and the registries with destruction
outside their locks.

**Stream, BufferPool, KernelArguments, ModelSession, ModelFragment.** Timelines
on three engines, events, staging, command caches, the free pool, owned graphs
that are launched one submission at a time, and budgets; buffers bound to a
stream by its address; the packing of arguments, binding by binding; sessions
with a device that runs behind the host; scratch planning; frozen fragments
appended to graphs.

**Compilation, KernelCache, RuntimeBundle, FileTensors.** The on-disk cache
shared by processes that may be killed, its sweep by access times, and the
exclusive compiler workspaces; kernels built in batches by several workers;
download, verification and installation of a bundle by several processes, and the
identity of the library it contains; mapped tensor files whose pages several
workers prepare.

A module with two parts declares the variables of the second one where that part
starts. `MC*` modules give the constants values for TLC. Operators named
`X_Something` and commented `Mutant:` are faulty variants of `X`. No
specification uses them: they show that each property notices a plausible
mistake.

## Runs

`CHECK_DEADLOCK FALSE` appears where the modelled clients may simply stop, or
where a bound on requests ends the behaviour; progress is then stated as a
temporal property.

| Run | Shows |
|---|---|
| `scheduler` | Safety of the scheduler in seven scenarios (below) |
| `scheduler_progress` | Submissions complete, blocking calls return, a dropped runtime joins its workers, in five scenarios |
| `inference` | One lease per slot, stable outputs, drained hand-over, and every polled acquisition is resolved |
| `services` | Plan cache, residency, job pool, resident sessions: exact limits, nothing in use evicted, both caches implement `SingleFlight`, cancellation honoured, idle timeouts, joint start. Compilation, kernel cache, libraries, bundles: whole artifacts, kernels loaded once, published files kept, with kills and a concurrent sweep. Everybody is answered |
| `device` | Native queue, storage ring, storage session: leases cover what a device may touch, extents are exact for all values of a 16-value integer, slots and contents are sound, failures final, everybody answered |
| `runtime` | The parts from packets to models: commands intact, owners outlive uses, visibility, exact transfers, order, charges, quiet reuse, exact lowering, current reads |
| `scheduler_lanes`, `inference_blocking`, `inference_idle`, `inference_peers`, `graph_refused`, `adopted` | *Violations*: see findings |

A behaviour of `MCServices`, `MCDevice` or `MCRuntime` runs one part. A
`scenario`, chosen in the initial state and kept, says which; the variables of
the other parts stay 0. The parts of one run share no state in the code, so
nothing is lost by not interleaving them, and a property of such a run says for
each scenario what it means there. `Within` says what the application does in a
scenario. It restricts only the choices of the application and which worker
threads exist, never a step that fairness demands. `MCScheduler` has these
scenarios:

- `Order`: two conflicting graphs, cancellation, three submissions.
- `Faults`: the same with device failures and waits with a timeout.
- `Turns`: graphs of several regions with two slots each.
- `Reuse`: two threads clone, drop, cancel and await completions of one slot.
- `Native`: two native stages against submitted work at the capacity limit.
- `Host`: mappings and handoffs against submissions that may fail.
- `Shutdown`: the runtime is dropped while jobs run.
- `Waits`, `Crowd`, `Stages`, `Mappings`, `Exit`: the same for progress.

`MCServices`: `plans`, `shared` (callers compete for the residency budget and the
manager may go), `timed` (the cleanup thread against one caller), `jobs`,
`resident`, `workspaces` (threads of one process that compile), `cache` (two processes,
damage and a sweep), `kill`, `batch`, `keyed`, `bundle`, `library`. `MCDevice`:
`reuse` of commands by two threads, an `event` wait on another queue, a `split`
transfer with the loss of a queue, `ring`, `storage`, `extent`. `MCRuntime` has
one scenario per part and four for streams: `order`, `charge`, `graph`, `reuse`.

### Bounds

Most hazards are between two submissions, two callers or two holders, plus one
thread that observes, so two of each are used and a third where a queue, a cache
or a capacity needs one more than fits. `MaxSequence` (2 to 4 submissions or
tickets in a scenario) is enough for a slot to be reused, for a job to leave out
of order and for a stage to yield behind another. `Capacity = 2` puts admission
at its limit. `MaxLeases`, `MaxJobs`, `MaxGets`, `MaxClock`, `MaxPasses`,
`MaxRequests`, `NodeLimit`, `EntryLimit`, `RunLimit` and the other constants named
`...Limit` whose comment says "bound" limit histories: each allows an object to be
created, released, replaced and met again by an old holder.

Rings have four to eight units, so they wrap; fence values and timelines are
small, so they reach their end. Word counts of recorded graphs are real: two
commands of 1048264 words make the twenty-bit limit of an indirect buffer
matter. Byte ranges overlap, touch, nest and are empty. Storage extents cover
disjoint, contained and growing accesses through two handles of one file, with an
alignment of two, so padding occurs. TLC's symmetry is not used; in two scenarios
of `MCRuntime`, `Within` makes the application use equal objects in a fixed order,
and the first call in `plans` is by one caller for one key, since callers and keys
are alike. In `timed` the clock and the passes of the cleanup thread together
reach five: enough to become idle, be used, become idle again and expire.
`SubmitLimit = 2` lets a wait name an older completion of a command that runs
again. The run `services` has about 410 thousand distinct states, `runtime` 1.3
million.

### Fairness

- Scheduler: every existing thread that can take a step outside the application's
  choice takes it (`WF`), since workers, helpers and waiters are OS threads and
  devices return. A native stage ends (`SF` on `NativeDrop`, which is disabled
  while the stage is inside a call).
- Inference pool: device jobs end, callers inside a call continue, and somebody
  who tries a mutex again and again gets it.
- Services: loaders, jobs and callbacks return, with success, failure or panic;
  participants poll and finish, but only a decision whose publication succeeded
  must be seen. One condition per caller, worker and closer (`WF`).
- Device: a thread inside a call takes its next step when that is possible again
  and again (`SF`, the step may need a mutex); the GPU fetches and executes, the
  ring's worker and the storage service run, and a waiting host keeps looking
  (`WF`). The 30-second limit of the storage service ends a batch that does not
  retire.
- Compilation: threads and the sweep get their locks in the end (`SF`), workers of a
  batch run (`WF`). No call is begun by fairness, no process is forced to die.

Applications are never forced to submit, cancel or drop.

## Findings

Each is a run that TLC ends with a counterexample; `PROJECT.json` has the quotes.

- `scheduler_lanes`: `submit_after` wakes one sleeper. Native stages queued for
  the compute lane sleep on the same condition variable and can take that
  wake-up, so an upload does not start although its lane is free, for as long as
  the active stage awaits it without helping.
- `inference_blocking`: `acquire_blocking` finds the pool busy. The job that it
  should wait for completes before it is looked up, and the thread sleeps on a
  condition variable that nobody notifies.
- `inference_idle`: a cancelled inference completes while its staging copy is
  still running, and `is_idle` answers true.
- `inference_peers`: a healthy slot drains between the scan of `acquire_locked`
  and its final test, which then reports the failure of another slot.
- `graph_refused`: an access graph enters an operation in its frontier before the
  graph accepts it. After a refusal the next node takes the same number. If it
  conflicts, it finds itself as the last writer, drops the dependency on itself and
  has no edge to the last real writer.
  `GraphOrder` is therefore about recordings without a refused operation.
- `adopted`: storage that the runtime adopts as shared starts as written by the
  host, although a stream may have written it on the GPU. A host guard then skips
  the cache maintenance. `Visibility` exempts host guards of such storage until a
  device writes it through the runtime, and no other access.

Observations without a run:

- The acquisition future wakes itself repeatedly while an idle quarantined slot
  keeps a finished completion and other slots are leased.
- The early quarantine test of `submit_after` matters only for graphs that use no
  memory, because poisoned allocations refuse the rest under the lock.
- `Pending::resolve` returns a kernel that was built meanwhile without claiming
  the device for the caller.
- `ModelDefinition::append` panics (`loom/model/definition.rs:391-393`) when a
  fragment holds an empty fill of an allocation that nothing else uses. The model
  takes such an append as refused.
- A blocking zero fill keeps no reservation while it runs.
- `host_transition` passes the offsets of a view unshifted where
  `Buffer::cache_control` adds the offset of the view (`fabric/memory.rs:206-210`).
  `HostMaintained` compares bytes only for buffers that start where their
  allocation does.

## Proofs

| Module | Theorem | States |
|---|---|---|
| `SchedulerProofs` | `CapacityHolds` | `CapacityBound` |
| | `BlockersHold` | `BlockersExact` (proved only; `ConflictOrder` rests on it) |
| | `ConflictsOrdered` | `ConflictOrder` |
| | `LanesExclusive` | `LaneExclusive` |
| | `SlotsOwned` | `SlotOwnership` |
| `SchedulerHostProofs` | `HostsExcluded` | `HostExclusion` |
| | `TypesHold` | `TypeOK` |
| | `OutcomesStable` | `OutcomeStable` |
| | `ProducersSucceed` | `ProducersSucceeded` |
| | `QuarantinesHold` | `QuarantineHolds`, an action property |
| | `TurnsTaken` | `RoundRobin`, an action property |
| `InferencePoolProofs` | `LeasesExclusive` | `LeaseExclusive` |
| | `OutputsHeld` | `OutputsStable` |
| | `SlotsDrained` | `DrainedUnlessCancelled` |
| `ServiceProofs` | `PlansHeld` | `HeldCached`, a part of `InUseKept` |
| | `PlansBounded` | `Bounded`, a part of `LimitsExact` |
| | `PlansSingleFlight` | `PlanCache` implements `SingleFlight`, a part of `ImplementsSingleFlight` |
| | `CancelsHonoured` | `CancelHonoured` of `JobPool` |
| | `PermitsExact` | `LiveExact`, a part of `LimitsExact` |
| | `SessionsSound` | `RunTogether` and `ReleasedQuiet` of `ResidentSession`, together `RunTogether` of the run |
| `ResidencyProofs` | `LeasedKept` | `LeasedResident`, a part of `InUseKept` |
| | `NothingLeaked` | `NothingLeaks`, a part of `LimitsExact` |
| | `BudgetKept` | `BudgetExact`, a part of `LimitsExact` |
| | `TimeoutKept` | `IdleLongEnough` of `Residency`, an action property |
| | `LoadsSingleFlight` | `Residency` implements `SingleFlight`, a part of `ImplementsSingleFlight` |
| `NativeQueueProofs` | `RingKept` | `RingIntact` |
| | `LeasesKept` | `LeasesCoverUse` |
| | `PrefixesKept` | `PrefixRetired`; all three are parts of `UsesCovered` |
| `Compilation` | `CompilesWhole` | `ArtifactsWhole` of `Compilation` |
| | `CacheKept` | `CachedKept`, an action property and a part of `PublishedKept` |
| `KernelCache` | `LoadsOnce` | `LoadedOnce`, a part of `KernelsOnce` |
| | `WantsKept` | `WantedKept`, a part of `KernelsOnce` |

A property of the runs `services` and `device` states one of these
for each scenario; the theorem states it for the component and every value of its
constants.

**Scheduler.** The theorems are for every set of workers, clients, graphs, slots
and allocations, every capacity and every conflict relation that `Operations`
defines. The only assumption is `SchedulerAssumption` (finitely many clients,
disjoint from the workers; a positive capacity; operations on known lanes and
allocations that depend on earlier operations). TLC evaluates it in every
scheduler run. None of the properties is inductive alone. `Inv` conjoins:

- `Typed`, the ranges of all variables that steps use;
- `Queued`, which relates waiting native stages to their tickets;
- `Owned` and `Attended`: jobs, slots, nodes and threads belong together, in both
  directions;
- `Counted`: every blocker count is the size of the set of earlier pending
  conflicting jobs. Enqueue adds the size of that set. Removal takes one from
  exactly the later conflicting jobs, and that set loses one element;
- `ConflictOrder`, which needs `Counted` because a job starts at count zero;
- `LaneOwned`: each reserved lane has one thread or one native lease;
- `CapacityBound`, which needs the tickets to be distinct: a yield adds a ticket
  while it gives up the active stage.

`HostInv` adds `HostCounted` (reader counts and flags name their holders) and
`HostExclusion`. Most actions are quiet for most conjuncts; the lemmas ending in
`Quiet` and `Hosts` say so once, and the remaining actions are treated one by one.

Outcomes need `Signals`. A signal is shared by all submissions that ever used its
slot, so the question is who may still read it. `Faithful` says that the signal
of a submission which a completion or a dependent job holds is not that of
another live job, and tells the recorded result. `Borrowed` says that the
producers of a submission in progress are among its caller's own handles, so that
they cannot be given away between the call and the lock. `Asked` says that a
cancellation flag was set through a handle of the same submission.
`QuarantineHolds` rests on `Poisoned`: whatever a quarantined graph uses is
poisoned, and admission reads that under the lock. `RoundRobin` follows from the
definition of the lane choice and `Typed`.

**Inference pool.** For every number of slots, callers, leases and jobs, from
`PoolAssumption`. A lease that outlives its call is known only through the jobs
that refer to it, so the invariant says more than `LeaseExclusive`: each caller
has a lease of its own, to which nothing refers before a slot is reserved
(`Callings`); the jobs of one lease are on one slot, its holder's (`Placed`); an
exported lease has a job, also after its holder left (`Known`); and a slot is
reserved exactly while one live lease names it (`Reserved`). `QuietInv` covers
the steps that move a caller within its phase.

The jobs of a slot need two more. `Ordered`: jobs are numbered as they are
submitted, a lease submits one graph, graphs of a slot start in order, and the
live lease submitted the last of them. `Tracked`: each job of a lease comes after
the previous one, so they end one after the other unless one is cancelled
(`Chained`), and the one completion that a slot records covers every job that has
not ended, but for a job whose recording is under way (`Recorded`).

**Plan cache.** For every set of callers, flights and keys and every capacity,
under `Sized` (0 is not a key, and `MaxGets` is a number). The refinement maps a
flight to its state in `SingleFlight`. The step that matters is eviction, which
looks only at the reference count of a flight and its idle predicate. The
invariant therefore says that a flight somebody refers to has not left the cache
unless it failed, that a flight has one loader and stands in at most one entry,
and that a fresh flight is not published. `PlansBounded` adds that the keys are
finitely many, since it counts entries: every miss is an entry, an eviction or a
failure.

**Residency.** For every set of callers and keys, every budget and timeout, under
`Sized`; `NothingLeaked` also takes the bytes of a load to be integers
(`Measured`), and `BudgetKept` takes them to be natural numbers with a resident
size within the peak size, as the declarations in the code are (`Budgeted`). Four
invariants are used:

- `Inv`: what the locals of a caller say about its flight (`Placed`), which
  flights can be entries (`Fresh`), that a load has one loader and the entry of a
  running load has one (`Loading`), that what is in use is in the registry while
  the manager lives (`Kept`), and that what is on its way out is out of use and
  out of the registry (`Gone`);
- `Charged`: a failed load has given back its charge before it is published, and
  what is charged is an entry, on its way out, or held after the manager went;
- `Unused`: a resource that was seen idle has not been used since, and its last
  use ended before it was seen. Every lease and pin clears the mark;
- `Budget`: the byte count is the sum of the charges, and a loader is charged its
  peak until it shrinks, so no subtraction goes below zero.

`Total`, the sum of the charges, is a recursive function over the flights. The
lemmas about it (a sum exists and is unique, one changed charge changes it by the
difference, charges set to zero subtract their own sum) are proved by induction.
The prover cannot instantiate an induction theorem for a predicate, so `Upward`
states induction for a *set* of numbers, from the least-element theorem of the
library, and the predicate becomes the set of the numbers that satisfy it.

In the refinement a destructor that runs outside the lock is a stutter: the
abstract cache loses the key when the victim leaves the registry.

**Job pool and resident sessions.** `ServiceProofs` treats both as instances. The
channel of the job pool never refuses a job with a permit, because the queued
jobs are other permits (`PermitFits`, an injection into the outstanding jobs). A
cancel that returned true preceded the end of the work (`Settled`). In a resident
session the word in memory is written once, and as `run` only when both
participants were accepted (`Decided`).

**Native queue.** For every set of queues, threads, works, waits and commands,
every ring size and every timeline limit, under `Sized`: threads and works are
finite, each work has a queue, a positive size and operands, and a command is a
nonempty sequence of works. `Inv` conjoins:

- `TimesSound`: the timelines of a work are ordered, retired up to signalled up
  to published up to admitted, and its leases last until the admitted invocation
  has signalled. A retirement of an *earlier* invocation therefore drops nothing;
- `ThreadsSound` and `Exclusive`: what a thread checked before it took the next
  lock still holds. Two threads are never inside one work, the producer lock is
  held from reaping to publication, and who is about to publish has its leases,
  its pending entry and its room;
- `GpuSound`: what the GPU has not executed is pending and not signalled, and one
  work's invocations are in order;
- `RingSound`: read and write index are less than a ring apart and what is not
  fetched lies between them. `RingIntact` needs this and arithmetic modulo the
  ring size: two positions less than a ring apart do not share a unit;
- `PendingSound`: the history of a queue is a retired prefix followed by the
  pending queue, up to the entry of a publication in progress. Reaping moves the
  border; `ReapsSettled` shows, by `Upward`, that the reaped prefix is settled;
- `HistorySound` and `DepsSound`: the dependencies of a wait are published, closed
  under their own dependencies, and with what is retired they contain everything
  up to the event.

`Publish` is the step with the longest proof, since it moves the ring, the history
and the timeline at once; it has one lemma per conjunct (`Published...`).

**Artifact cache.** For every set of threads, collectors, keys and generations;
`Sized` says only that the holders of a lock are distinct. The four reads of a
lookup are not atomic. `DiskSound` says that a file is absent, damaged or written
by a compilation of its key; `ReadSound` that the parts read so far are of one
compilation, because every digest is compared with the metadata read first; and
`LockSound` and `SweepSound` that whoever compiles, replaces or sweeps an entry
holds its lock, so that a sweep removes only what it looked at. `UsedSound`
relates access times to the sweep: one that removes has found no file accessed
since its cutoff, although other sweeps and lookups of other keys go on.

**Kernel cache.** For every set of threads, workers, artifacts and caller keys,
under `Sized`. `ReadySound` says that only the holder of the build lock has
loaded something that is not published. `WaitingSound` and `BatchSound` say that
a request is in one place: queued once, in the batch, or published. `CallSound`
says what a call relies on in each phase, among it that an artifact somebody
waits for is one of these (`Kept`). The batch is requeued as a whole after a
failure, except for what it published, which is what `WantsKept` needs.

Only model-checked:

- all liveness properties, since fairness and `ENABLED` are outside the prover's
  reach;
- what the recursive operators and folds compute (extents, frontiers, lowering,
  scratch plans, packing). The prover does not accept modules that reach a
  recursive operator, so these algorithms are compared with their definitions on
  bounded inputs;
- the composed properties `LimitsExact`, `InUseKept`, `CancelHonoured`,
  `RunTogether`, `ImplementsSingleFlight`, `KernelsOnce`, `PublishedKept`,
  `ArtifactsWhole` and `UsesCovered` as the runs state them, over a scenario; the
  parts that are proved are in the table above;
- of the run `services`, the parts about bundles and the identity of a loaded
  library (`RuntimeBundle`); of `device`, the storage ring and the storage session
  (`RetiredQuiet`, `StorageSound`, `PhysicalExact`, `FailureFinal`);
- every property of the run `runtime`.

## Not modelled

Whole parts:

- execution statistics and traces: counters and records that no decision reads;
- capabilities and observation: native facts translated into Rust values;
- compiler reports and sources: text of an external compiler;
- provisioning and the command line: pure I/O;
- model file formats: network downloads and the ONNX format;
- tensors and images: numeric kernels, shape arithmetic and benchmark sums;
- generated bindings.

Left out of the modelled parts:

- timings and time statistics of native and storage sessions, error texts and the
  wording of reports;
- file registration, which is one system call per file;
- kernel reflection, environment variables and diagnostics of the stream runtime;
- the bits of PM4, SDMA and AQL packets, and the container of an XDNA program:
  device formats, which the models keep as atoms with what they reach;
- visibility queries that only translate native facts, the page layout of the
  storage ring, and device enumeration;
- compiler source text and options, and the shape of bundle manifests with the
  search for libraries;
- the builders of single model operations, each of which appends one entry that
  `ModelFragment` treats alike;
- the JSON of a tensor header and downloads of artifacts.

The parts are not composed into one state machine. `ExecutionGraph`,
`InferencePool`, `TensorTransfers` and `CommandPreparation` assume what the lower
module establishes, as the comment in each says. The product of their states is
out of TLC's reach.
