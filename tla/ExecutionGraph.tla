--------------------------- MODULE ExecutionGraph ---------------------------
(***************************************************************************)
(* Coordinated graphs (src/execution/graph.rs, contract.rs and              *)
(* dependencies.rs): operations are recorded with their buffer uses, and    *)
(* prepare lowers them to device regions with region-level dependencies.    *)
(* The second part is about the storage that running regions use.           *)
(***************************************************************************)
EXTENDS DependencyFrontier

CONSTANTS
  BufferKind,    \* allocation -> [bytes, host, gpu, npu, shared, own, base]:
                 \* length, host mapped, bindable to an engine, one allocation
                 \* for both engines, of this runtime, device address
  FillViews, CopyPairs, Launches, Scopes, \* inputs of the recording calls
  EntryLimit     \* bound: recorded operations

VARIABLES
  options,       \* [compute, copies]: RuntimeOptions' engines
  entries,       \* Graph::entries
  lowered        \* the executable graph's operations; <<>> before prepare

executionVars == <<options, entries, lowered>>

Writes(access) == access # "Read"
Length(view) == view.end - view.first
Use(view, access) ==
  [allocation |-> view.allocation, first |-> view.first, end |-> view.end, access |-> access]

ExecutionInit ==
  /\ options \in [compute : {"pm4", "aql"}, copies : {"compute", "sdma"}]
  /\ entries = <<>> /\ lowered = <<>>

-----------------------------------------------------------------------------
(* Views and contracts.                                                     *)

Overlaps(a, b) == a.allocation = b.allocation /\ a.first < b.end /\ b.first < a.end

\* Cache maintenance of shared memory is allocation wide.
Region(use) ==
  IF BufferKind[use.allocation].shared
  THEN [use EXCEPT !.first = 0, !.end = BufferKind[use.allocation].bytes] ELSE use

PowersOfTwo == {1, 2, 4, 8, 16, 32, 64, 128, 256}

Validate(contract) ==
  \A i \in DOMAIN contract : contract[i].bytes > 0 /\ contract[i].alignment \in PowersOfTwo

CheckExtents(contract, bindings) ==
  /\ Validate(contract) /\ Len(bindings) = Len(contract)
  /\ \A i \in DOMAIN contract : /\ Length(bindings[i]) >= contract[i].bytes
                                /\ bindings[i].first % contract[i].alignment = 0

CheckAliases(contract, bindings) ==
  \A i, j \in DOMAIN bindings :
    i < j /\ Overlaps(bindings[i], bindings[j])
      => ~Writes(contract[i].access) /\ ~Writes(contract[j].access)

\* The device address, not the offset alone, satisfies the contract.
Aligned(contract, bindings) ==
  \A i \in DOMAIN bindings :
    (BufferKind[bindings[i].allocation].base + bindings[i].first) % contract[i].alignment = 0

-----------------------------------------------------------------------------
(* Recording.                                                               *)

Push(kind, uses, lane, bytes) ==
  /\ lowered = <<>> /\ Len(entries) < EntryLimit
  /\ \A i \in DOMAIN uses : BufferKind[uses[i].allocation].own
  /\ entries' = Append(entries, [kind |-> kind, uses |-> uses, lane |-> lane, bytes |-> bytes])
  /\ UNCHANGED <<options, lowered>>

Gpu(view) == BufferKind[view.allocation].gpu
Npu(view) == BufferKind[view.allocation].npu
Host(view) == BufferKind[view.allocation].host

Fill(view) == Gpu(view) /\ Push("fill", <<Use(view, "Write")>>, "Compute", 0)

CopyOn(to, from, lane) ==
  /\ Gpu(to) /\ Gpu(from)
  /\ Length(to) = Length(from) /\ ~Overlaps(to, from)
  /\ Push("copy", <<Use(to, "Write"), Use(from, "Read")>>, lane, Length(to))

CopyLane(to, from) ==
  IF Host(from) /\ ~Host(to) THEN "Upload"
  ELSE IF ~Host(from) /\ Host(to) THEN "Download" ELSE "Compute"

Copy(to, from) == CopyOn(to, from, CopyLane(to, from))

Bound(contract, bindings) ==
  [i \in DOMAIN bindings |-> Use(bindings[i], contract[i].access)]

GpuAliasing(contract, bindings) ==
  /\ CheckExtents(contract, bindings)
  /\ \A i \in DOMAIN bindings : Gpu(bindings[i])
  /\ Aligned(contract, bindings)
  /\ Push("gpu", Bound(contract, bindings), "Compute", 0)

GpuChecked(contract, bindings) ==
  CheckExtents(contract, bindings) /\ CheckAliases(contract, bindings)
    /\ GpuAliasing(contract, bindings)

NpuChecked(contract, bindings) ==
  /\ CheckExtents(contract, bindings) /\ CheckAliases(contract, bindings)
  /\ \A i \in DOMAIN bindings : Npu(bindings[i])
  /\ Aligned(contract, bindings)
  /\ Push("npu", Bound(contract, bindings), "Compute", 0)

GpuScoped(uses) ==
  (\A i \in DOMAIN uses : Gpu(uses[i])) /\ Push("scoped", uses, "Compute", 0)

-----------------------------------------------------------------------------
(* dependencies::summarize: one sweep over the events of each allocation.   *)

Points(uses) == SetToSortSeq({u.first : u \in uses} \union {u.end : u \in uses}, <)

Level(uses, position) ==
  LET at == {u \in uses : u.first <= position /\ position < u.end}
      reads == \E u \in at : u.access # "Write"
      writes == \E u \in at : Writes(u.access)
  IN  IF reads /\ writes THEN "ReadWrite" ELSE IF writes THEN "Write"
      ELSE IF reads THEN "Read" ELSE "none"

\* Mutant: neighbours are merged whatever their access.
Merges_Any(last, use) == last.allocation = use.allocation /\ last.end = use.first

Merges(last, use) ==
  last.allocation = use.allocation /\ last.access = use.access /\ last.end = use.first

Emit(output, use) ==
  IF use.access = "none" \/ use.first = use.end THEN output
  ELSE IF output # <<>> /\ Merges(Last(output), use)
       THEN [output EXCEPT ![Len(output)].end = use.end]
       ELSE Append(output, use)

Sweep(output, uses, allocation) ==
  LET points == Points(uses)
      piece(i) == [allocation |-> allocation, first |-> points[i], end |-> points[i + 1],
                   access |-> Level(uses, points[i])]
  IN  FoldLeft(LAMBDA out, i : Emit(out, piece(i)), output,
               [i \in 1 .. Len(points) - 1 |-> i])

Order == SetToSortSeq(DOMAIN BufferKind, LAMBDA a, b : BufferKind[a].base < BufferKind[b].base)

Summarize(uses) ==
  LET spans == {Region(uses[i]) : i \in DOMAIN uses}
      of(a) == {u \in spans : u.allocation = a}
  IN  FoldLeft(LAMBDA out, a : IF of(a) = {} THEN out ELSE Sweep(out, of(a), a), <<>>, Order)

-----------------------------------------------------------------------------
(* Graph::prepare.                                                          *)

Empty == [a \in DOMAIN BufferKind |-> <<>>]

\* Edges of a sequence of operations by their uses.
Edges(all) ==
  FoldLeft(LAMBDA state, i :
             LET found == Dependencies(state.frontier, i,
                                       [k \in DOMAIN all[i] |-> Region(all[i][k])])
             IN  [frontier |-> found.frontier, edges |-> Append(state.edges, found.found)],
           [frontier |-> Empty, edges |-> <<>>], [i \in DOMAIN all |-> i]).edges

Alone(i) ==
  \/ entries[i].kind \in {"scoped", "npu"}
  \/ options.compute = "aql" /\ entries[i].kind = "gpu"

\* Mutant: a region runs on over a change of lane.
Starts_AnyLane(i) == i = 1 \/ Alone(i) \/ Alone(i - 1)

\* A region is a longest run of entries of one lane that do not stand alone.
Starts(i) == i = 1 \/ Alone(i) \/ Alone(i - 1) \/ entries[i].lane # entries[i - 1].lane

Flatten(first, last) ==
  FoldLeft(LAMBDA all, i : all \o entries[i].uses, <<>>, [k \in 1 .. last - first + 1 |-> first + k - 1])

CopyBytes(first, last) ==
  FoldLeft(LAMBDA n, i : n + entries[i].bytes, 0, [k \in 1 .. last - first + 1 |-> first + k - 1])

Backend(first, last) ==
  IF Alone(first) THEN IF entries[first].kind = "gpu" THEN "aql" ELSE entries[first].kind
  ELSE IF \A i \in first .. last : entries[i].kind = "copy"
       THEN IF options.copies = "sdma" THEN "sdma" ELSE "copies"
       ELSE "gpu"

Lowered(first, last) ==
  LET backend == Backend(first, last) IN
  [first |-> first, last |-> last, backend |-> backend, lane |-> entries[first].lane,
   bytes |-> IF Alone(first) THEN 0 ELSE CopyBytes(first, last),
   uses |-> Summarize(Flatten(first, last)),
   inner |-> IF backend = "gpu"
             THEN Edges([k \in 1 .. last - first + 1 |-> entries[first + k - 1].uses])
             ELSE <<>>]

Regions ==
  LET starts == SetToSortSeq({i \in DOMAIN entries : Starts(i)}, <)
      last(k) == IF k = Len(starts) THEN Len(entries) ELSE starts[k + 1] - 1
  IN  [k \in DOMAIN starts |-> Lowered(starts[k], last(k))]

Prepare ==
  /\ lowered = <<>> /\ entries # <<>>
  /\ LET made == Regions
         edges == Edges([k \in DOMAIN made |-> made[k].uses])
     IN  lowered' = [k \in DOMAIN made |-> [at |-> made[k], after |-> edges[k]]]
  /\ UNCHANGED <<options, entries>>

ExecutionNext ==
  \/ \E view \in FillViews : Fill(view)
  \/ \E pair \in CopyPairs : Copy(pair[1], pair[2])
  \/ \E pair \in CopyPairs, lane \in {"Upload", "Download"} : CopyOn(pair[1], pair[2], lane)
  \/ \E launch \in Launches : \/ GpuAliasing(launch.contract, launch.bindings)
                              \/ GpuChecked(launch.contract, launch.bindings)
                              \/ NpuChecked(launch.contract, launch.bindings)
  \/ \E uses \in Scopes : GpuScoped(uses)
  \/ Prepare

ExecutionSpec == ExecutionInit /\ [][ExecutionNext]_executionVars
-----------------------------------------------------------------------------
RegionOf(i) == CHOOSE k \in DOMAIN lowered : lowered[k].at.first <= i /\ i <= lowered[k].at.last

Reaches(edges(_), i, j) ==
  LET step(set, k) == IF k \in set THEN set \union edges(k) ELSE set
  IN  i \in FoldLeft(step, {j}, Reverse([k \in 1 .. j |-> k]))

Clash(u, v) ==
  /\ u.allocation = v.allocation /\ (Writes(u.access) \/ Writes(v.access))
  /\ BufferKind[u.allocation].shared \/ (u.first < v.end /\ v.first < u.end)

EntriesClash(i, j) ==
  \E u \in ToSet(entries[i].uses), v \in ToSet(entries[j].uses) : Clash(u, v)

\* Within one region only a native graph runs its commands out of order, and
\* there by the edges recorded with it.
InRegion(k, i, j) ==
  LET r == lowered[k].at
      inner(n) == r.inner[n]
  IN  r.backend = "gpu" => Reaches(inner, i - r.first + 1, j - r.first + 1)

\* Operations are regrouped into regions, their uses summarized and edges
\* inferred twice (graph.rs:497-566): whatever the engines, two recorded
\* operations that touch a byte one of them writes, or one shared allocation,
\* still run in the order they were recorded in.
LoweringOrder ==
  \A i, j \in DOMAIN entries :
    lowered # <<>> /\ i < j /\ EntriesClash(i, j)
      => LET p == RegionOf(i) q == RegionOf(j) after(k) == lowered[k].after
         IN  IF p = q THEN InRegion(p, i, j) ELSE Reaches(after, p, q)

Bytes(uses, accesses) ==
  UNION {{u.allocation} \X (u.first .. u.end - 1) : u \in {v \in uses : v.access \in accesses}}

Copied == {i \in DOMAIN entries : entries[i].kind = "copy"}

\* A region reserves for the scheduler exactly the bytes its operations read
\* and write, in disjoint ranges, and keeps them on one lane; the regions
\* together account for each copied byte once (graph.rs:443-566,
\* dependencies.rs:35-90).
RegionsExact ==
  /\ lowered # <<>> =>
       MapThenSumSet(LAMBDA k : lowered[k].at.bytes, DOMAIN lowered)
         = MapThenSumSet(LAMBDA i : Length(entries[i].uses[1]), Copied)
  /\ \A k \in DOMAIN lowered :
       LET r == lowered[k].at
           all == {Region(u) : u \in ToSet(Flatten(r.first, r.last))}
       IN  /\ \A accesses \in {{"Read", "ReadWrite"}, {"Write", "ReadWrite"}} :
                Bytes(ToSet(r.uses), accesses) = Bytes(all, accesses)
           /\ \A m, n \in DOMAIN r.uses : m < n => ~Overlaps(r.uses[m], r.uses[n])
           /\ \A i \in r.first .. r.last : entries[i].lane = r.lane
-----------------------------------------------------------------------------
(* Tracked allocations of a coordinated runtime (src/execution/buffer.rs,    *)
(* mod.rs): allocation and the adoption of a stream's buffer, the cache      *)
(* maintenance between host, GPU and NPU, running regions (graph.rs,         *)
(* Operation::run) and stream handoffs (handoff.rs).  The scheduler's part,  *)
(* that conflicting regions never overlap, is the guard of Start; the        *)
(* Scheduler module is about that guard.                                     *)

CONSTANTS
  Buffers,
  StorageBytes,       \* buffer -> length
  Limit,         \* the memory budget
  ReaderLimit    \* bound: host read guards of one buffer

VARIABLES
  storage,       \* buffer -> Storage, its host cache lines and handles
  regions,       \* running device regions
  live, peak     \* Counters::live_bytes and peak_bytes

bufferVars == <<storage, regions, live, peak>>

Placements == {"GpuLocal", "HostVisible", "NpuLocal", "Shared"}
Engines == {"Host", "Gpu", "Npu"}

\* Engines a placement admits.
Bindable(placement) ==
  CASE placement = "GpuLocal" -> {"Gpu"}
    [] placement = "HostVisible" -> {"Host", "Gpu"}
    [] placement = "NpuLocal" -> {"Host", "Npu"}
    [] placement = "Shared" -> Engines

\* phase "stream": a gpu::Buffer of a stream, not tracked yet; charges: the
\* reservations of the budget held for it; adopted: it became Shared storage by
\* adoption and no write of a device was tracked since.
\* guard: the phase of the host writer's guard; external: that of a handoff.
\* dirty: the host cache holds writes memory does not have; stale: memory has
\* writes of a device that host cache lines may hide; torn: bytes were lost.
Absent == [phase |-> "none", placement |-> "GpuLocal", charges |-> 0, adopted |-> FALSE,
           writer |-> "Host", visible |-> {"Host"},
           readers |-> 0, entering |-> 0, guard |-> "none", external |-> "none",
           poison |-> FALSE, dirty |-> FALSE, stale |-> FALSE, torn |-> FALSE]

BufferInit ==
  /\ storage = [b \in Buffers |-> Absent] /\ regions = {} /\ live = 0 /\ peak = 0

-----------------------------------------------------------------------------
(* Visibility.                                                              *)

\* Mutant: every maintenance of a device consumer is an invalidation.
SyncToDevice_Never(s, engine) == FALSE

SyncToDevice(s, engine) == s.writer = "Host" \/ engine = "Npu"

CacheControl(s, flush) ==
  IF flush THEN [s EXCEPT !.dirty = FALSE]
  ELSE [s EXCEPT !.stale = FALSE, !.dirty = FALSE, !.torn = @ \/ s.dirty]

MakeVisible(s, engine) ==
  IF engine \in s.visible THEN s
  ELSE [CacheControl(s, SyncToDevice(s, engine)) EXCEPT !.visible = @ \union {engine}]

\* Mutant: the other engines keep their claim to see the bytes.
Wrote_Shared(s, engine) == [s EXCEPT !.writer = engine, !.visible = @ \union {engine}]

Wrote(s, engine) ==
  [s EXCEPT !.writer = engine, !.visible = {engine}, !.adopted = @ /\ engine = "Host"]

\* What a write does to memory and the host cache.
HostStores(s) == [s EXCEPT !.dirty = TRUE]
DeviceStores(s) == [s EXCEPT !.stale = TRUE, !.torn = @ \/ s.dirty]

-----------------------------------------------------------------------------
(* Allocation.                                                              *)

Charge == MapThenSumSet(LAMBDA b : storage[b].charges * StorageBytes[b], Buffers)
Fits(b) == Charge + StorageBytes[b] <= Limit
Idle(b) == storage[b].phase \in {"none", "freed"}
Tracked == {b \in Buffers : storage[b].phase \in {"live", "leaked"}}

Count(b) ==
  live' = live + StorageBytes[b] /\ peak' = Max({peak, live + StorageBytes[b]})

\* Runtime::allocate_inner: the reservation comes first.  GPU-local bytes are
\* zeroed by the device, host-visible ones through the mapping.
Allocate(b, placement) ==
  /\ Idle(b) /\ Fits(b)
  /\ LET new == [Absent EXCEPT !.phase = "live", !.placement = placement, !.charges = 1]
     IN  storage' = [storage EXCEPT ![b] =
           CASE placement = "GpuLocal" -> Wrote(DeviceStores(new), "Gpu")
             [] placement = "HostVisible" -> HostStores(new)
             [] OTHER -> new]
  /\ Count(b) /\ UNCHANGED regions

\* A stream allocates, with the same budget or without one, and runs on its
\* buffer; dropping it, a refused adoption included, returns its charge.
StreamAllocate(b, budgeted) ==
  /\ Idle(b) /\ (budgeted => Fits(b))
  /\ storage' = [storage EXCEPT ![b] =
       [Absent EXCEPT !.phase = "stream", !.charges = IF budgeted THEN 1 ELSE 0]]
  /\ UNCHANGED <<regions, live, peak>>

StreamWrite(b) ==
  /\ storage[b].phase = "stream"
  /\ storage' = [storage EXCEPT ![b] = DeviceStores(@)]
  /\ UNCHANGED <<regions, live, peak>>

StreamDrop(b) ==
  /\ storage[b].phase = "stream"
  /\ storage' = [storage EXCEPT ![b] = [Absent EXCEPT !.phase = "freed"]]
  /\ UNCHANGED <<regions, live, peak>>

\* Mutant: a reservation is made for adopted bytes as well.
Reserves_Always(s) == TRUE

\* charged_to: the buffer's own reservation stays with it.
Reserves(s) == s.charges = 0

\* adopt_gpu_buffer, and allocate_overwritten, whose buffer no stream charged.
\* Shared storage is an import of the same pages: Visibility::new, whatever the
\* GPU wrote, and a flush (create_memory), which drops no line.
Adopt(b, placement) ==
  /\ storage[b].phase = "stream" /\ placement \in {"GpuLocal", "Shared"}
  /\ LET s == storage[b]
         new == [s EXCEPT !.phase = "live", !.placement = placement,
                          !.charges = IF Reserves(s) THEN @ + 1 ELSE @]
     IN  /\ Reserves(s) => Fits(b)
         /\ storage' = [storage EXCEPT ![b] =
              IF placement = "GpuLocal" THEN Wrote(new, "Gpu")
              ELSE [CacheControl(new, TRUE) EXCEPT !.adopted = TRUE]]
  /\ Count(b) /\ UNCHANGED regions

Touching(b) == {r \in regions : r.buffer = b}

Unused(b) ==
  /\ storage[b].phase = "live" /\ Touching(b) = {} /\ storage[b].readers = 0
  /\ storage[b].entering = 0
  /\ storage[b].guard = "none" /\ storage[b].external = "none"

\* Mutant: the pages go back whether or not the flush succeeded.
Leaks_Never(s, flushed) == FALSE

\* The last handle of a buffer goes.  Host writes are flushed before the pages
\* are released; pages that could not be flushed are never released.
Leaks(s, flushed) == s.writer = "Host" /\ s.placement # "GpuLocal" /\ ~flushed

DropStorage(b, flushed) ==
  /\ Unused(b) /\ ~storage[b].poison
  /\ LET s == storage[b] IN
     IF Leaks(s, flushed)
     THEN storage' = [storage EXCEPT ![b].phase = "leaked"] /\ UNCHANGED live
     ELSE /\ storage' = [storage EXCEPT ![b] =
               [Absent EXCEPT !.phase = "freed",
                              !.dirty = s.dirty /\ ~(s.writer = "Host" /\ flushed)]]
          /\ live' = live - StorageBytes[b]
  /\ UNCHANGED <<regions, peak>>

-----------------------------------------------------------------------------
(* Host guards.                                                             *)

Writing(access) == access # "Read"
HostFree(s, write) ==
  /\ s.phase = "live" /\ ~s.poison /\ s.external = "none" /\ s.guard = "none"
  /\ write => s.readers + s.entering = 0

DeviceConflict(b, write) == \E r \in Touching(b) : write \/ Writing(r.access)

\* Buffer::acquire_with up to the release of the scheduler lock: the lease is
\* held before the maintenance.
AcquireRead(b) ==
  /\ "Host" \in Bindable(storage[b].placement) /\ HostFree(storage[b], FALSE)
  /\ ~DeviceConflict(b, FALSE) /\ storage[b].readers + storage[b].entering < ReaderLimit
  /\ storage' = [storage EXCEPT ![b].entering = @ + 1]
  /\ UNCHANGED <<regions, live, peak>>

AcquireWrite(b) ==
  /\ "Host" \in Bindable(storage[b].placement) /\ HostFree(storage[b], TRUE)
  /\ ~DeviceConflict(b, TRUE)
  /\ storage' = [storage EXCEPT ![b].guard = "entering"]
  /\ UNCHANGED <<regions, live, peak>>

\* The maintenance; when it fails the lease is rolled back.
EnterRead(b, maintained) ==
  /\ storage[b].entering > 0
  /\ storage' = [storage EXCEPT ![b] =
       IF maintained
       THEN [MakeVisible(@, "Host") EXCEPT !.entering = @ - 1, !.readers = @ + 1]
       ELSE [@ EXCEPT !.entering = @ - 1]]
  /\ UNCHANGED <<regions, live, peak>>

EnterWrite(b, maintained) ==
  /\ storage[b].guard = "entering"
  /\ storage' = [storage EXCEPT ![b] =
       IF maintained THEN [MakeVisible(@, "Host") EXCEPT !.guard = "held"]
       ELSE [@ EXCEPT !.guard = "none"]]
  /\ UNCHANGED <<regions, live, peak>>

HostWrite(b) ==
  /\ storage[b].guard = "held"
  /\ storage' = [storage EXCEPT ![b] = HostStores(@)]
  /\ UNCHANGED <<regions, live, peak>>

DropRead(b) ==
  /\ storage[b].readers > 0
  /\ storage' = [storage EXCEPT ![b].readers = @ - 1]
  /\ UNCHANGED <<regions, live, peak>>

DropWrite(b) ==
  /\ storage[b].guard = "held"
  /\ storage' = [storage EXCEPT ![b] = [Wrote(@, "Host") EXCEPT !.guard = "none"]]
  /\ UNCHANGED <<regions, live, peak>>

-----------------------------------------------------------------------------
(* Regions and handoffs.                                                    *)

\* submit_after refuses a live host mapping (host_conflict); the scheduler
\* starts no region over a conflicting one.
Start(b, engine, access) ==
  /\ engine \in Bindable(storage[b].placement) \ {"Host"}
  /\ HostFree(storage[b], FALSE)
  /\ Writing(access) => storage[b].readers + storage[b].entering = 0
  /\ ~\E r \in Touching(b) : Writing(access) \/ Writing(r.access) \/ r.engine = engine
  /\ regions' = regions \union {[buffer |-> b, engine |-> engine, access |-> access,
                                 phase |-> "entering"]}
  /\ UNCHANGED <<storage, live, peak>>

Moved(r, phase) == (regions \ {r}) \union {[r EXCEPT !.phase = phase]}

Enter(r) ==
  /\ r.phase = "entering" /\ ~storage[r.buffer].poison
  /\ storage' = [storage EXCEPT ![r.buffer] = MakeVisible(@, r.engine)]
  /\ regions' = Moved(r, "running")
  /\ UNCHANGED <<live, peak>>

Run(r) ==
  /\ r.phase = "running" /\ regions' = Moved(r, "ran")
  /\ storage' = IF Writing(r.access)
                THEN [storage EXCEPT ![r.buffer] = DeviceStores(@)] ELSE storage
  /\ UNCHANGED <<live, peak>>

Return(r) ==
  /\ r.phase = "ran" /\ regions' = regions \ {r}
  /\ storage' = IF Writing(r.access)
                THEN [storage EXCEPT ![r.buffer] = Wrote(@, r.engine)] ELSE storage
  /\ UNCHANGED <<live, peak>>

\* A region may fail anywhere, a poisoned use included; all it uses is poisoned.
Fail(r) ==
  /\ regions' = regions \ {r}
  /\ storage' = [storage EXCEPT ![r.buffer].poison = TRUE]
  /\ UNCHANGED <<live, peak>>

HandoffStart(b) ==
  /\ "Gpu" \in Bindable(storage[b].placement) /\ HostFree(storage[b], TRUE)
  /\ ~DeviceConflict(b, TRUE)
  /\ storage' = [storage EXCEPT ![b].external = "entering"]
  /\ UNCHANGED <<regions, live, peak>>

HandoffEnter(b, maintained) ==
  /\ storage[b].external = "entering"
  /\ storage' = [storage EXCEPT ![b] =
       IF maintained THEN [MakeVisible(@, "Gpu") EXCEPT !.external = "running"]
       ELSE [@ EXCEPT !.external = "none"]]
  /\ UNCHANGED <<regions, live, peak>>

\* The callback's stream is synchronized; an uncertain completion poisons and
\* keeps the buffers.
HandoffEnd(b, writes, certain) ==
  /\ storage[b].external = "running"
  /\ LET ran == IF writes THEN DeviceStores(storage[b]) ELSE storage[b] IN
     storage' = [storage EXCEPT ![b] =
       IF certain THEN [(IF writes THEN Wrote(ran, "Gpu") ELSE ran) EXCEPT !.external = "none"]
       ELSE [ran EXCEPT !.external = "none", !.poison = TRUE]]
  /\ UNCHANGED <<regions, live, peak>>

BufferNext ==
  \/ \E b \in Buffers :
       \/ \E placement \in Placements : Allocate(b, placement) \/ Adopt(b, placement)
       \/ \E budgeted \in BOOLEAN : StreamAllocate(b, budgeted)
       \/ StreamWrite(b) \/ StreamDrop(b)
       \/ \E maintained \in BOOLEAN :
            DropStorage(b, maintained) \/ EnterRead(b, maintained) \/ EnterWrite(b, maintained)
              \/ HandoffEnter(b, maintained)
       \/ AcquireRead(b) \/ AcquireWrite(b) \/ HostWrite(b) \/ DropRead(b) \/ DropWrite(b)
       \/ HandoffStart(b)
       \/ \E writes, certain \in BOOLEAN : HandoffEnd(b, writes, certain)
       \/ \E engine \in {"Gpu", "Npu"}, access \in {"Read", "Write", "ReadWrite"} :
            Start(b, engine, access)
  \/ \E r \in regions : Enter(r) \/ Run(r) \/ Return(r) \/ Fail(r)

BufferSpec == BufferInit /\ [][BufferNext]_bufferVars
-----------------------------------------------------------------------------
HostSees(s) == s.readers > 0 \/ s.guard = "held" => ~s.stale

\* Every access sees the bytes last written, and no maintenance or release
\* loses any, whichever engine wrote and whoever reads next: a region runs over
\* no unflushed host line, a host guard over no stale one (buffer.rs:41-56,
\* 298-317, 380-397; graph.rs:638-652, 732-743).  Host guards of shared
\* storage are exempt from its adoption to a device's first tracked write:
\* AdoptedSeen is about them.
EnginesSee ==
  \A b \in Buffers : LET s == storage[b] IN ~s.poison =>
    /\ ~s.torn
    /\ s.adopted \/ HostSees(s)
    /\ s.external = "running" => ~s.dirty
    /\ \A r \in Touching(b) : r.phase = "running" => ~s.dirty

\* A host guard over adopted storage sees what the GPU wrote before the
\* adoption, as over any other storage (docs/GPU-NPU.md:42-47).
AdoptedSeen == \A b \in Buffers : HostSees(storage[b])

\* Pages go back with no host line that could still be written to them; what is
\* counted as live is what is still held, pages kept after a failed flush
\* included; and held bytes are charged once, whether the runtime allocated or
\* adopted them, and together fit the budget (buffer.rs:399-428, mod.rs:359-370,
\* 445-456).
HeldCounted ==
  /\ live = MapThenSumSet(LAMBDA b : StorageBytes[b], Tracked) /\ peak >= live
  /\ Charge <= Limit
  /\ \A b \in Buffers : LET s == storage[b] IN
       /\ b \in Tracked => s.charges = 1
       /\ s.phase = "freed" => s.charges = 0 /\ ~s.dirty
=============================================================================
