------------------------------ MODULE MCDevice ------------------------------
(***************************************************************************)
(* Native command queues, the storage ring and the storage sessions above   *)
(* it for TLC.  They do not share state, so a behaviour runs one of them;   *)
(* the scenario says which.  Variables of one name in two modules get a     *)
(* second name here.                                                        *)
(***************************************************************************)
EXTENDS Integers, Sequences, FiniteSets, SequencesExt

CONSTANTS
  t1, t2,            \* host threads, storage clients
  a, b,              \* queues
  k, m, ev, p1, p2,  \* works: two kernels, an event wait, two parts of a transfer
  x, y,              \* buffers, file handles
  None

VARIABLES
  scenario,
  asked,   \* a question about the physical form of one storage extent
  write, read, ring, pending, gpu, producer, fence, active, retired, previous, leases, deps,
  op, lost, phase, history,
  mode, usable, ringState, sqTail, sqHead, cqTail, busyIo, doneIo, worker, gpuDone, host,
  held,
  requests, slots, queued, stop, failed, errors, bytes, service, jobs, moving, result,
  completed, late, client, holds, copying, leaked, session, payload, disk

Queues == {a, b}
Threads == {t1, t2}
Buffers == {x, y}
Works == {k, m, ev, p1, p2}
Waits == {ev}
Commands == {<<k>>, <<m>>, <<ev>>, <<p1, p2>>}
QueueOf == [w \in Works |-> IF w \in {k, m} THEN a ELSE b]
Units == [w \in Works |-> IF w \in {m, p2} THEN 2 ELSE 1]
Operands == [w \in Works |-> CASE w = m -> {y} [] w = ev -> {} [] OTHER -> {x}]
RingUnits == 4
PendingLimit == 3
TimelineMax == 2
LeaseLimit == 2

Slots == {0, 1}
Identity == [f \in Buffers |-> k]
\* Reads and writes of one block or two, through two handles of one file; one
\* read is unaligned and one write makes the file grow.
Extent(file, offset, size, writing) ==
  [file |-> file, offset |-> offset, bytes |-> size, writing |-> writing]
Extents ==
  {Extent(x, 1, 1, FALSE), Extent(y, 0, 4, FALSE), Extent(x, 2, 2, TRUE), Extent(y, 0, 2, TRUE)}

Native == INSTANCE NativeQueue
Ring == INSTANCE StorageRing WITH
  Entries <- 2, Requests <- 3
Storage == INSTANCE StorageSession WITH pending <- queued, worker <- service,
  Limit <- 16, Clients <- Threads, Files <- Buffers, Alignment <- 2, SlotBytes <- 4,
  InitialBytes <- 2, MaxRequests <- 3

nativeVars ==
  <<write, read, ring, pending, gpu, producer, fence, active, retired, previous, leases,
    deps, op, lost, phase, history>>
ringVars ==
  <<mode, usable, ringState, sqTail, sqHead, cqTail, busyIo, doneIo, worker, gpuDone, host,
    held>>
storageVars ==
  <<requests, slots, queued, stop, failed, errors, bytes, service, jobs, moving, result,
    completed, late, client, holds, copying, leaked, session, payload, disk>>
vars == <<scenario, asked, nativeVars, ringVars, storageVars>>

\* Reuse of a command by two threads, an event wait on another queue, and a
\* transfer in two parts with the loss of a queue.
Allowed == [reuse |-> {<<k>>, <<m>>}, event |-> {<<k>>, <<m>>, <<ev>>}, split |-> {<<k>>, <<p1, p2>>}]
MaxRuns == [reuse |-> 2, event |-> 1, split |-> 1]
Queued == scenario \in DOMAIN Allowed
Scenarios == DOMAIN Allowed \union {"ring", "storage", "extent"}

Within ==
  /\ \A t \in Threads : op'[t].pc = "begin" => op'[t].command \in Allowed[scenario]
  /\ \A t \in Threads : op[t].pc = "idle" /\ op'[t].pc = "begin" =>
       \A w \in ToSet(op'[t].command) :
         previous[w] + Cardinality({u \in Threads : /\ op'[u].pc \notin {"idle", "wait"}
                                                     /\ w \in ToSet(op'[u].command)})
           <= MaxRuns[scenario]
  /\ op'[t1].pc # "wait"
  /\ scenario # "event" => UNCHANGED deps
  /\ scenario = "reuse" => UNCHANGED phase
  /\ scenario = "event" => ~lost'
  /\ scenario = "event" /\ op'[t2].pc = "begin" => op'[t2].command = <<ev>>
  /\ scenario = "event" /\ op'[t1].pc = "begin" => op'[t1].command # <<ev>>

\* Every extent, file size and alignment within a small integer type.
Span == 8
Alignments == {1, 2, 4}
Questions ==
  [extent: [offset: 0 .. 15, bytes: 0 .. Span + 1, writing: BOOLEAN], size: 0 .. 15,
   alignment: Alignments]

MCInit ==
  /\ scenario \in Scenarios
  /\ asked \in (IF scenario = "extent" THEN {{q} : q \in Questions} ELSE {{}})
  /\ IF Queued THEN Native!Init
     ELSE write = 0 /\ read = 0 /\ ring = 0 /\ pending = 0 /\ gpu = 0 /\ producer = 0 /\
          fence = 0 /\ active = 0 /\ retired = 0 /\ previous = 0 /\ leases = 0 /\ deps = 0
          /\ op = 0 /\ lost = 0 /\ phase = 0 /\ history = 0
  /\ IF scenario = "ring" THEN Ring!RingInit
     ELSE mode = 0 /\ usable = 0 /\ ringState = 0 /\ sqTail = 0 /\ sqHead = 0 /\ cqTail = 0
          /\ busyIo = 0 /\ doneIo = 0 /\ worker = 0 /\ gpuDone = 0 /\ host = 0 /\ held = 0
  /\ IF scenario = "storage" THEN Storage!Init
     ELSE requests = 0 /\ slots = 0 /\ queued = 0 /\ stop = 0 /\ failed = 0 /\ errors = 0 /\
          bytes = 0 /\ service = 0 /\ jobs = 0 /\ moving = 0 /\ result = 0 /\ completed = 0
          /\ late = 0 /\ client = 0 /\ holds = 0 /\ copying = 0 /\ leaked = 0 /\ session = 0
          /\ payload = 0 /\ disk = 0

\* A step of one part, which leaves the others alone.
InNative(A) == Queued /\ A /\ Within /\ UNCHANGED <<scenario, asked, ringVars, storageVars>>
InRing(A) == scenario = "ring" /\ A /\ UNCHANGED <<scenario, asked, nativeVars,
      storageVars>>
InStorage(A) == scenario = "storage" /\ A /\ UNCHANGED <<scenario, asked, nativeVars,
      ringVars>>

MCNext ==
  \/ InNative(Native!Next)
  \/ InRing(Ring!RingNext)
  \/ InStorage(Storage!Next)

\* Mutexes are acquired in the end, the GPU and the storage worker make
\* progress, and somebody keeps waiting for the ring.  One condition per actor.
Goes(t) == InNative(Native!Step(t))
Fetches(q) ==
  \/ InNative(Native!Fetch(q))
  \/ InRing(IF q = a THEN Ring!Worker ELSE Ring!FinishIo)
  \/ InStorage(IF q = a THEN Storage!Service ELSE Storage!Join)
Executes(q) ==
  \/ InNative(Native!Execute(q))
  \/ InRing(q = a /\ (Ring!BeginWait \/ Ring!HostPass \/ (host.pc = "wake" /\ Ring!WaitFails)))

MCSpec ==
  /\ MCInit /\ [][MCNext]_vars
  /\ \A t \in {t1, t2} : SF_vars(Goes(t))
  /\ \A q \in {a, b} : WF_vars(Fetches(q)) /\ WF_vars(Executes(q))
-----------------------------------------------------------------------------
\* A command the GPU has not fetched is intact in the ring, and its operands are
\* leased while it may run, whoever retires earlier invocations meanwhile
\* (queue.rs:60-226, 1480-1605); a retired wait has retired every submission its
\* event stands for, and a refresh every earlier submission of its own queue
\* (queue.rs:101, 1056); files, ring pages and payload stay held until
\* the GPU and the kernel are done with them (fabric/storage.rs:443-464).
UsesCovered ==
  /\ Queued => Native!RingIntact /\ Native!LeasesCoverUse /\ Native!PrefixRetired
  /\ scenario = "ring" => Ring!RetiredQuiet

Positions == 0 .. 32
Inside(extent, i) == extent.offset <= i /\ i < extent.offset + extent.bytes
Physical(q) == Storage!Physical(q.extent, q.size, q.alignment, Span)

\* physical (storage/mod.rs): an accepted request carries every byte of its
\* extent, starts and ends on a legal boundary, fits its slot, has no block
\* without a byte of the extent, and its first logical byte lies `skip` bytes
\* into the slot.  A write carries nothing but its extent.  A read of at most
\* read_chunk_bytes inside the file is accepted wherever it starts, if its
\* padded end can be represented.
PhysicalExact ==
  \A q \in asked :
    LET extent == q.extent  end == extent.offset + extent.bytes
        whole == Physical(q)  block(i) == i \div q.alignment
    IN
    /\ ( /\ ~extent.writing
         /\ extent.bytes \in 1 .. Storage!ReadChunk(Alignments, Span)
         /\ end <= q.size /\ end + q.alignment - 1 < 16 ) => whole.ok
    /\ whole.ok =>
      /\ \A i \in Positions : Inside(extent, i) => Inside(whole, i)
      /\ whole.offset % q.alignment = 0 /\ whole.bytes % q.alignment = 0
      /\ whole.bytes <= Span /\ whole.offset + whole.bytes < 16
      /\ \A i \in Positions :
           Inside(whole, i) => \E j \in Positions : Inside(extent, j) /\ block(i) = block(j)
      /\ whole.offset + whole.skip = extent.offset
      /\ extent.writing => whole.bytes = extent.bytes

\* A storage request's payload slot is its own until every native use ended,
\* retained data agrees with the file through every handle, and an answered
\* request keeps its slot only through its clients (storage/mod.rs).
StorageSound ==
  scenario = "storage" =>
    /\ Storage!SlotExclusive /\ Storage!ServiceReleases
    /\ Storage!RetainedCurrent /\ Storage!LengthsKnown

\* The first storage failure stops new batches and changes no published outcome;
\* every request that ends in an error is counted once.
FailureFinal == [][scenario = "storage" => Storage!FailureFinal]_vars

\* Who waits: a thread for its dispatch, a request or the session's drop for
\* the storage worker, the owner of a ring for a finished command.  A session's
\* requests are answered once each, so one waiter stands for all of them.
Waiting(t) ==
  CASE Queued -> Native!Busy(t)
    [] scenario = "ring" -> t = t1 /\ gpuDone /\ ringState = "running" /\ host.pc # "failed"
    [] scenario = "storage" ->
         /\ t = t1
         /\ session = "dropping" \/ \E i \in Storage!Accepted : requests[i].outcome = "none"
    [] OTHER -> FALSE

\* Every dispatch returns with ring space or an error, every accepted storage
\* request is answered, also after a drop, and a finished GPU command retires
\* although requests were published while the ring's worker fell asleep.
DeviceAnswers == \A t \in {t1, t2} : Waiting(t) ~> ~Waiting(t)
=============================================================================
