------------------------------- MODULE Stream -------------------------------
(***************************************************************************)
(* GPU streams of src/runtime.rs: ordered submission over a PM4, an SDMA   *)
(* and an AQL engine, events across streams, staging for uploads, command  *)
(* caches, the free pool of allocations, prepared graphs, and the budget   *)
(* charges that must outlive every queued use.  The sizes of the caches    *)
(* are a part of their own, with its own variables, at the end.            *)
(***************************************************************************)
EXTENDS Naturals, Sequences, FiniteSets, SequencesExt

CONSTANTS
  Streams, Blocks,     \* streams of one device; allocations they may own
  Stages,              \* staging allocations a stream may create
  StagingSlots,        \* 8 in the code: queued staging buffers before a fence
  GraphKinds,          \* commands of a recorded graph: sequences of kinds
  CommandLimit,        \* bound: commands published in one behaviour
  Nothing

Engines == {"pm4", "sdma", "aql"}
Ids == 1 .. CommandLimit

VARIABLES
  config,     \* stream -> compute and copy engine, and whether it has a budget
  commands,   \* the published commands, in publication order
  queues,     \* stream -> engine -> commands the GPU has not finished
  finished,   \* commands whose completion is observable
  last,       \* StreamTimeline::last
  uses,       \* stream -> blocks whose reservations budget_uses holds
  quarantine, \* blocks whose charges were forgotten on purpose
  owner,      \* block -> stream of a live public Buffer, or Nothing
  backed,     \* stages held by the application's staging copies or pools
  pool, cache, staging, stagePool, \* free allocations, cached bindings, staging
  event,      \* an Event: its stream's last completion
  graph,      \* stream -> an owned graph: its bindings, commands and launch state
  reserved,   \* blocks and stages allocated under a budget
  filling,    \* stream -> the block a blocking zero fill is waiting for, or Nothing
  open, lost

streamVars == <<config, commands, queues, finished, last, uses, quarantine, owner, backed, pool,
                cache, staging, stagePool, event, graph, filling, reserved,
                open, lost>>

NoGraph == [held |-> {}, kinds |-> <<>>, next |-> 1, last |-> 0, state |-> "none"]

StreamInit ==
  /\ config \in [Streams -> [compute : {"pm4", "aql"}, copy : {"compute", "sdma"}, budget : BOOLEAN]]
  /\ commands = <<>> /\ finished = {} /\ quarantine = {} /\ lost = FALSE
  /\ queues = [s \in Streams |-> [e \in Engines |-> <<>>]]
  /\ last = [s \in Streams |-> 0] /\ uses = [s \in Streams |-> {}]
  /\ owner = [b \in Blocks |-> Nothing] /\ backed = {}
  /\ pool = [s \in Streams |-> {}] /\ cache = [s \in Streams |-> {}]
  /\ staging = [s \in Streams |-> {}] /\ stagePool = [s \in Streams |-> {}]
  /\ event = Nothing /\ graph = [s \in Streams |-> NoGraph]
  /\ filling = [s \in Streams |-> Nothing] /\ reserved = {} /\ open = Streams

Outstanding(b) == \E i \in DOMAIN commands : i \notin finished /\ b \in commands[i].blocks
Ready(s) == s \in open /\ filling[s] = Nothing /\ graph[s].state # "launching"
Quiet(s) == last[s] = 0 \/ last[s] \in finished

\* A queued native command leases its operands; graphs hold them between launches.
Leased(b) == Outstanding(b) \/ \E s \in Streams : b \in graph[s].held
Charged(b) ==
  \/ b \in Blocks /\ owner[b] # Nothing
  \/ b \in backed
  \/ b \in quarantine
  \/ \E s \in Streams : b \in uses[s] \/ b \in graph[s].held

CopyEngine(s) == IF config[s].copy = "sdma" THEN "sdma" ELSE "pm4"
EngineFor(s, kind) == IF kind = "dispatch" THEN config[s].compute
                      ELSE IF kind \in {"fill", "copy", "stage"} THEN CopyEngine(s) ELSE "pm4"

-----------------------------------------------------------------------------
(* Inner::submit: a change of engine waits on the host for the last command *)
(* and every accepted part of a split command enters the timeline.          *)

\* Mutant: engines are changed without a fence.
Fenced_Never(s, e) == TRUE

Fenced(s, e) == \A i \in {last[s]} \ (finished \union {0}) : commands[i].engine = e

\* What must have finished before a command of s may run.
Before(s) == {i \in DOMAIN commands : commands[i].stream = s}

Accept(s, e, blocks, after, zeroing, parts) ==
  LET n == Len(commands)
      new == [i \in 1 .. parts |->
                [stream |-> s, engine |-> e, blocks |-> blocks, wait |-> after,
                 zeroing |-> zeroing,
                 order |-> Before(s) \union (n + 1 .. n + i - 1)
                           \union UNION {commands[a].order \union {a} : a \in after}]]
  IN  /\ n + parts <= CommandLimit
      /\ commands' = commands \o new
      /\ queues' = [queues EXCEPT ![s][e] = @ \o [i \in 1 .. parts |-> n + i]]
      /\ last' = [last EXCEPT ![s] = n + parts]

Rejected == UNCHANGED <<commands, queues, last>>

\* `parts` of the command's two parts are accepted; fewer is an error.
Submit(s, e, blocks, after, zeroing, parts) ==
  IF parts = 0 THEN Rejected ELSE Accept(s, e, blocks, after, zeroing, parts)

\* Commands are cached when this stream owns, and so can evict, all bindings;
\* staging is always its own.
Cached(s, bound) ==
  IF \A b \in bound \intersect Blocks : owner[b] = s THEN [cache EXCEPT ![s] = @ \union {bound}]
  ELSE cache

\* Mutant: charges are retained once the whole command was accepted.
Retained_Accepted(blocks, parts) == IF parts = 2 THEN blocks \intersect reserved ELSE {}

Retained(blocks, parts) == blocks \intersect reserved

\* fill, copy and dispatch of live buffers of this device: charges first.
Enqueue(s, kind, blocks, parts) ==
  /\ Ready(s) /\ blocks # {} /\ \A b \in blocks : owner[b] # Nothing
  /\ LET e == EngineFor(s, kind) IN
     /\ IF lost THEN parts = 0 ELSE Fenced(s, e)
     /\ e = "aql" => parts # 1
     /\ Submit(s, e, blocks, {}, FALSE, parts)
  /\ uses' = [uses EXCEPT ![s] = @ \union Retained(blocks, parts)]
  /\ cache' = IF (kind = "dispatch" => parts = 2) THEN Cached(s, blocks) ELSE cache
  /\ UNCHANGED <<config, reserved, finished, quarantine, owner, backed, pool, staging, stagePool, event,
                 graph, filling, open, lost>>

-----------------------------------------------------------------------------
\* allocate: pooled backing of the right length without a budget, or fresh.
Allocate(s, b) ==
  /\ Ready(s) /\ owner[b] = Nothing /\ ~Charged(b) /\ ~Leased(b)
  /\ \A r \in Streams \ {s} : b \notin pool[r]
  /\ b \in pool[s] => ~config[s].budget
  /\ owner' = [owner EXCEPT ![b] = s]
  /\ pool' = [pool EXCEPT ![s] = @ \ {b}]
  /\ reserved' = IF config[s].budget THEN reserved \union {b} ELSE reserved \ {b}
  /\ UNCHANGED <<config, commands, queues, finished, last, uses, quarantine, backed, cache,
                 staging, stagePool, event, graph, filling, open, lost>>

\* Mutant: cached commands outlive the buffers they bind.
Evicted_None(dropped) == cache

\* Buffer::drop, of a buffer or of staging.
Evicted(dropped) ==
  [s \in Streams |-> {bound \in cache[s] : bound \intersect dropped = {}}]

\* Mutant: backing is pooled although queued work still leases it.
Poolable_Leased(b) == b \notin reserved /\ config[owner[b]].copy # "sdma"

\* What a stream with an SDMA engine allocates is shared and not poolable.
Poolable(b) == b \notin reserved /\ ~Leased(b) /\ config[owner[b]].copy # "sdma"

\* Buffer::drop evicts its cached commands and then pools idle backing.
DropBuffer(b) ==
  /\ owner[b] # Nothing /\ filling[owner[b]] # b
  /\ cache' = Evicted({b})
  /\ pool' = IF Poolable(b) THEN [pool EXCEPT ![owner[b]] = @ \union {b}] ELSE pool
  /\ owner' = [owner EXCEPT ![b] = Nothing]
  /\ UNCHANGED <<config, reserved, commands, queues, finished, last, uses, quarantine, backed, staging,
                 stagePool, event, graph, filling, open, lost>>

\* allocate_zeroed on a discrete GPU: fill_now submits and waits without
\* retaining the charge; an error drops the new buffer.
AllocateZeroed(s, b) ==
  /\ Ready(s) /\ owner[b] = Nothing /\ ~Charged(b) /\ ~Leased(b) /\ ~lost
  /\ config[s].budget /\ \A r \in Streams : b \notin pool[r]
  /\ Fenced(s, "pm4") /\ Submit(s, "pm4", {b}, {}, TRUE, 1)
  /\ owner' = [owner EXCEPT ![b] = s] /\ filling' = [filling EXCEPT ![s] = b]
  /\ reserved' = reserved \union {b}
  /\ UNCHANGED <<config, finished, uses, quarantine, backed, pool, cache, staging, stagePool,
                 event, graph, open, lost>>

ZeroedReturns(s) ==
  /\ filling[s] # Nothing /\ (Quiet(s) \/ lost)
  /\ owner' = IF Quiet(s) THEN owner ELSE [owner EXCEPT ![filling[s]] = Nothing]
  /\ filling' = [filling EXCEPT ![s] = Nothing]
  /\ UNCHANGED <<config, reserved, commands, queues, finished, last, uses, quarantine, backed, pool,
                 cache, staging, stagePool, event, graph, open, lost>>

-----------------------------------------------------------------------------
(* Uploads through staging, and what a fence gives back.                    *)

\* Mutant: polling an earlier completion reclaims staging.
Settled_Early(s) == TRUE

Settled(s) == Quiet(s)

Fence(s) ==
  /\ Settled(s)
  /\ uses' = [uses EXCEPT ![s] = {}]
  /\ stagePool' = [stagePool EXCEPT ![s] = @ \union staging[s]]
  /\ staging' = [staging EXCEPT ![s] = {}]

\* synchronize, a completed Submission::is_complete, and the waits that end
\* upload_blocking, read_blocking and Readback::wait.
Synchronize(s) ==
  /\ Ready(s) /\ Fence(s)
  /\ UNCHANGED <<config, reserved, commands, queues, finished, last, quarantine, owner, backed, pool,
                 cache, event, graph, filling, open, lost>>

\* upload_chunk: fence when staging is full, then a pooled or new staging buffer
\* is written by the host and copied.  The copy is cached like any other; one
\* that is refused drops the staging buffer, and with it what was cached.
Upload(s, b, t, parts) ==
  /\ Ready(s) /\ owner[b] # Nothing
  /\ LET full == Cardinality(staging[s]) >= StagingSlots
         free == stagePool[s] \union (IF full THEN staging[s] ELSE {})
         kept == IF full THEN {} ELSE staging[s]
     IN
     /\ full => Settled(s)
     /\ t \in free \/ (free = {} /\ t \notin backed /\ ~Charged(t) /\ ~Leased(t))
     /\ reserved' = IF t \in free THEN reserved
                    ELSE IF config[s].budget THEN reserved \union {t} ELSE reserved \ {t}
     /\ uses' = [uses EXCEPT ![s] = (IF full THEN {} ELSE @) \union ({b, t} \intersect reserved')]
     /\ stagePool' = [stagePool EXCEPT ![s] = free \ {t}]
     /\ staging' = [staging EXCEPT ![s] = IF parts = 2 THEN kept \union {t} ELSE kept]
  /\ IF lost THEN parts = 0 ELSE Fenced(s, CopyEngine(s))
  /\ Submit(s, CopyEngine(s), {b, t}, {}, FALSE, parts)
  /\ backed' = IF parts = 2 THEN backed \union {t} ELSE backed \ {t}
  /\ cache' = IF parts = 2 THEN Cached(s, {b, t}) ELSE Evicted({t})
  /\ UNCHANGED <<config, finished, quarantine, owner, pool, event, graph, filling, open, lost>>

-----------------------------------------------------------------------------
(* Events.                                                                  *)

RecordEvent(s) ==
  /\ Ready(s) /\ last[s] # 0 /\ event' = last[s]
  /\ UNCHANGED <<config, reserved, commands, queues, finished, last, uses, quarantine, owner, backed,
                 pool, cache, staging, stagePool, graph, filling, open, lost>>

DeviceWait(s) ==
  config[s].compute = "pm4" /\ config[s].copy = "compute" /\ commands[event].engine = "pm4"

\* A queued wait on the device where both sides are PM4, else a host wait.
WaitEvent(s) ==
  /\ Ready(s) /\ event # Nothing
  /\ IF DeviceWait(s)
       THEN ~lost /\ Fenced(s, "pm4") /\ Accept(s, "pm4", {}, {event}, FALSE, 1)
       ELSE event \in finished /\ Rejected
  /\ UNCHANGED <<config, reserved, finished, uses, quarantine, owner, backed, pool, cache, staging,
                 stagePool, event, graph, filling, open, lost>>

-----------------------------------------------------------------------------
(* Owned graphs.                                                            *)

\* Commands of the kinds named, one part each; transfers are cached.
FinishGraph(s, blocks, kinds) ==
  /\ Ready(s) /\ graph[s].state = "none" /\ blocks # {} /\ \A b \in blocks : owner[b] # Nothing
  /\ graph' = [graph EXCEPT ![s] =
       [held |-> blocks, kinds |-> kinds, next |-> 1, last |-> 0, state |-> "ready"]]
  /\ cache' = IF "copy" \in ToSet(kinds) THEN Cached(s, blocks) ELSE cache
  /\ UNCHANGED <<config, reserved, commands, queues, finished, last, uses, quarantine, owner, backed,
                 pool, staging, stagePool, event, filling, open, lost>>

\* launch marks the graph failed until its last command was accepted.  It
\* submits one command after the other, each on its engine and behind the
\* fence of a change of engines.
LaunchGraph(s) ==
  /\ Ready(s) /\ graph[s].state = "ready"
  /\ graph' = [graph EXCEPT ![s].state = "launching", ![s].next = 1]
  /\ UNCHANGED <<config, reserved, commands, queues, finished, last, uses, quarantine, owner, backed,
                 pool, cache, staging, stagePool, event, filling, open, lost>>

LaunchStep(s, parts) ==
  /\ graph[s].state = "launching"
  /\ LET g == graph[s]
         e == EngineFor(s, g.kinds[g.next])
     IN  /\ IF lost THEN parts = 0 ELSE Fenced(s, e)
         /\ Submit(s, e, g.held, {}, FALSE, parts)
         /\ graph' = [graph EXCEPT ![s] =
              IF parts = 0 THEN [g EXCEPT !.state = "failed"]
              ELSE IF g.next < Len(g.kinds) THEN [g EXCEPT !.next = @ + 1]
              ELSE [g EXCEPT !.state = "ready", !.last = last'[s]]]
  /\ UNCHANGED <<config, reserved, finished, uses, quarantine, owner, backed, pool, cache, staging,
                 stagePool, event, filling, open, lost>>

\* GraphExec::drop: wait for the last launch, or keep the charges for good.
DropGraph(s) ==
  /\ graph[s].state \in {"ready", "failed"}
  /\ graph' = [graph EXCEPT ![s] = NoGraph]
  /\ quarantine' = IF graph[s].state = "ready" /\ (graph[s].last = 0 \/ graph[s].last \in finished)
                   THEN quarantine ELSE quarantine \union graph[s].held
  /\ UNCHANGED <<config, reserved, commands, queues, finished, last, uses, owner, backed, pool, cache,
                 staging, stagePool, event, filling, open, lost>>

-----------------------------------------------------------------------------
\* Stream::drop: drained within ten seconds, or staging and charges are kept.
DropStream(s) ==
  /\ Ready(s) /\ (lost \/ Quiet(s))
  /\ open' = open \ {s}
  /\ quarantine' = IF Quiet(s) THEN quarantine ELSE quarantine \union uses[s] \union staging[s]
  /\ uses' = [uses EXCEPT ![s] = {}]
  /\ staging' = [staging EXCEPT ![s] = {}] /\ stagePool' = [stagePool EXCEPT ![s] = {}]
  /\ backed' = backed \ (staging[s] \union stagePool[s])
  /\ cache' = Evicted(stagePool[s] \union (IF Quiet(s) THEN staging[s] ELSE {}))
  /\ UNCHANGED <<config, reserved, commands, queues, finished, last, owner, pool, event, graph,
                 filling, lost>>

\* Each engine finishes its queue in order; a queued wait holds it (external).
Finish(s, e) ==
  /\ ~lost /\ queues[s][e] # <<>>
  /\ commands[Head(queues[s][e])].wait \subseteq finished
  /\ finished' = finished \union {Head(queues[s][e])}
  /\ queues' = [queues EXCEPT ![s][e] = Tail(@)]
  /\ UNCHANGED <<config, reserved, commands, last, uses, quarantine, owner, backed, pool, cache, staging,
                 stagePool, event, graph, filling, open, lost>>

LoseDevice ==
  /\ ~lost /\ lost' = TRUE
  /\ UNCHANGED <<config, reserved, commands, queues, finished, last, uses, quarantine, owner, backed,
                 pool, cache, staging, stagePool, event, graph, filling, open>>

StreamNext ==
  \/ \E s \in Streams :
       \/ \E kind \in {"fill", "copy", "dispatch"}, blocks \in SUBSET Blocks, parts \in 0 .. 2 :
            Enqueue(s, kind, blocks, parts)
       \/ \E b \in Blocks : Allocate(s, b) \/ AllocateZeroed(s, b)
       \/ \E b \in Blocks, t \in Stages, parts \in 0 .. 2 : Upload(s, b, t, parts)
       \/ ZeroedReturns(s) \/ Synchronize(s) \/ RecordEvent(s) \/ WaitEvent(s) \/ DropGraph(s) \/ DropStream(s)
       \/ \E blocks \in SUBSET Blocks, kinds \in GraphKinds : FinishGraph(s, blocks, kinds)
       \/ LaunchGraph(s) \/ \E parts \in 0 .. 1 : LaunchStep(s, parts)
       \/ \E e \in Engines : Finish(s, e)
  \/ \E b \in Blocks : DropBuffer(b)
  \/ LoseDevice

StreamSpec == StreamInit /\ [][StreamNext]_streamVars

-----------------------------------------------------------------------------
\* Commands of a stream finish in the order they were published although each
\* engine has its own queue and only the last completion is awaited
\* (runtime.rs:138-142), and work after wait_event finishes after everything
\* the event stands for, whether the wait is queued or on the host.
StreamOrder == \A i \in finished : commands[i].order \subseteq finished

\* "Queued uses keep their reservations until the fence" (runtime.rs:1239):
\* whatever was dropped, polled, refused half-way or lost meanwhile, a buffer
\* a budgeted stream may still be using stays charged.  The blocking zero fill
\* of new device-local memory is not such a use: it retains no reservation.
ChargesCoverUse ==
  \A i \in DOMAIN commands :
    i \notin finished /\ ~commands[i].zeroing => \A b \in commands[i].blocks \intersect reserved : Charged(b)

\* Memory handed out again is idle: pooled backing and reclaimed staging have
\* no queued use, and a cached command only binds live buffers of its stream,
\* staging included (runtime.rs:211-213, 449-468), or staging kept for good by a
\* drop that could not drain, so no later allocation meets an old command.
ReuseIsQuiet ==
  /\ \A s \in Streams : \A b \in pool[s] \union stagePool[s] : ~Outstanding(b)
  /\ \A s \in Streams : \A bound \in cache[s] :
       /\ \A b \in bound \intersect Blocks : owner[b] = s
       /\ bound \subseteq Blocks \union staging[s] \union stagePool[s] \union quarantine

-----------------------------------------------------------------------------
(***************************************************************************)
(* The bounded caches of a stream (src/runtime.rs), by size: recycled      *)
(* scratch, reclaimed staging, cached dispatches and the free pool.        *)
(* Which allocations may enter them, and when, is the part above.  A       *)
(* behaviour of this part exercises one of the four.                       *)
(***************************************************************************)
CONSTANTS
  Sizes,         \* bytes of buffers and of prepared commands
  Limits,        \* scratch limits a caller sets
  ByteLimit,     \* 64 MiB of staging and of free backing, 16 MiB of commands
  EntryLimit,    \* 8 staging buffers, 16 free buffers, 1024 commands
  Keys,          \* launches: kernel, geometry, constants and bindings
  HeldLimit      \* bound: buffers the caller holds or has queued

VARIABLES
  which,         \* "scratch", "staging", "dispatch" or "free"
  loans,          \* sizes of live buffers, in order; queued staging for "staging"
  lists,         \* Stream::scratch: size -> number of buffers
  scratchBytes, scratchLimit,
  entryPool,          \* staging_pool, or Inner::free: sizes in order
  cachedKeys,        \* dispatch_cache: [key, bytes] in order of insertion
  panicked       \* an unwrap or index failed

cacheVars == <<which, loans, lists, scratchBytes, scratchLimit, entryPool, cachedKeys, panicked>>

CacheInit ==
  /\ which \in {"scratch", "staging", "dispatch", "free"}
  /\ loans = <<>> /\ lists = [n \in Sizes |-> 0] /\ scratchBytes = 0 /\ scratchLimit \in Limits
  /\ entryPool = <<>> /\ cachedKeys = <<>> /\ panicked = FALSE

Total(sizes) == FoldLeft(+, 0, sizes)

-----------------------------------------------------------------------------
(* Stream::scratch, recycle and set_scratch_limit.                          *)

\* Mutant: a buffer that leaves the cache stays counted.
Left_Counted(size) == scratchBytes

Left(size) == scratchBytes - size

\* The smallest recycled size from the request to twice it, else a new buffer.
Scratch(bytes) ==
  /\ which = "scratch" /\ Len(loans) < HeldLimit
  /\ LET fits == {n \in Sizes : lists[n] > 0 /\ bytes <= n /\ n <= 2 * bytes} IN
     IF fits = {}
     THEN loans' = Append(loans, bytes) /\ UNCHANGED <<lists, scratchBytes>>
     ELSE /\ loans' = Append(loans, Min(fits))
          /\ lists' = [lists EXCEPT ![Min(fits)] = @ - 1]
          /\ scratchBytes' = Left(Min(fits))
  /\ UNCHANGED <<which, scratchLimit, entryPool, cachedKeys, panicked>>

\* A buffer that does not fit is dropped.
Recycle(i) ==
  /\ which = "scratch" /\ loans' = RemoveAt(loans, i)
  /\ IF loans[i] + scratchBytes <= scratchLimit
     THEN /\ lists' = [lists EXCEPT ![loans[i]] = @ + 1]
          /\ scratchBytes' = scratchBytes + loans[i]
     ELSE UNCHANGED <<lists, scratchBytes>>
  /\ UNCHANGED <<which, scratchLimit, entryPool, cachedKeys, panicked>>

Stored(sizes) == FoldSet(LAMBDA m, sum : sum + m * lists[m], 0, sizes)

\* Whole lists go, the largest buffers first, until the rest fits.
Popped(limit) ==
  {n \in Sizes : scratchBytes - Stored({m \in Sizes : m > n}) > limit}

SetScratchLimit(limit) ==
  /\ which = "scratch" /\ scratchLimit' = limit
  /\ lists' = [n \in Sizes |-> IF n \in Popped(limit) THEN 0 ELSE lists[n]]
  /\ scratchBytes' = scratchBytes - Stored(Popped(limit))
  /\ UNCHANGED <<which, loans, entryPool, cachedKeys, panicked>>

-----------------------------------------------------------------------------
(* Upload staging: upload_chunk's bound on what is queued, reclaim_staging. *)

Least(sizes) == CHOOSE i \in DOMAIN sizes :
                  \A j \in DOMAIN sizes : sizes[i] < sizes[j] \/ (sizes[i] = sizes[j] /\ i <= j)

SwapRemove(sizes, i) ==
  LET n == Len(sizes) IN SubSeq([sizes EXCEPT ![i] = sizes[n]], 1, n - 1)

\* Mutant: bytes are bounded, entries are not.
Crowded_Bytes(sizes, bytes) == bytes + Total(sizes) > ByteLimit

Crowded(sizes, bytes) == Len(sizes) >= EntryLimit \/ bytes + Total(sizes) > ByteLimit

\* Smallest buffers give way; a loop that finds none would panic.
RECURSIVE Reclaim(_, _)
Reclaim(sizes, bytes) ==
  IF ~Crowded(sizes, bytes) THEN Append(sizes, bytes)
  ELSE IF sizes = <<>> THEN <<>> ELSE Reclaim(SwapRemove(sizes, Least(sizes)), bytes)

Reclaimed(queued) ==
  FoldLeft(LAMBDA sizes, bytes : IF bytes > ByteLimit THEN sizes ELSE Reclaim(sizes, bytes), entryPool,
           queued)

UploadChunk(bytes) ==
  /\ which = "staging" /\ bytes <= ByteLimit \* chunks of STAGING_LIMIT
  /\ LET fence == Len(loans) >= EntryLimit \/ Total(loans) + bytes > ByteLimit
         free == IF fence THEN Reclaimed(loans) ELSE entryPool
         queued == IF fence THEN <<>> ELSE loans
         fits == {i \in DOMAIN free : free[i] >= bytes}
         best == CHOOSE i \in fits : \A j \in fits : free[i] < free[j] \/ (free[i] = free[j] /\ i <= j)
     IN  /\ entryPool' = IF fits = {} THEN free ELSE SwapRemove(free, best)
         /\ loans' = Append(queued, IF fits = {} THEN bytes ELSE free[best])
         /\ panicked' = (panicked \/ (fence /\ loans # <<>> /\ free = <<>>))
  /\ UNCHANGED <<which, lists, scratchBytes, scratchLimit, cachedKeys>>

SynchronizeStaging ==
  /\ which = "staging" /\ entryPool' = Reclaimed(loans) /\ loans' = <<>>
  /\ panicked' = (panicked \/ (loans # <<>> /\ entryPool' = <<>>))
  /\ UNCHANGED <<which, lists, scratchBytes, scratchLimit, cachedKeys>>

-----------------------------------------------------------------------------
(* The dispatch cache: first in, first out.                                 *)

Bytes(entries) == Total([i \in DOMAIN entries |-> entries[i].bytes])

\* Mutant: an entry makes room for one other.
MadeRoom_One(entries, bytes) ==
  IF Len(entries) >= EntryLimit \/ Bytes(entries) + bytes > ByteLimit THEN Tail(entries) ELSE entries

RECURSIVE MadeRoom(_, _)
MadeRoom(entries, bytes) ==
  IF entries # <<>> /\ (Len(entries) >= EntryLimit \/ Bytes(entries) + bytes > ByteLimit)
  THEN MadeRoom(Tail(entries), bytes) ELSE entries

\* A launch that was accepted is found again by everything that shaped it.
DispatchCached(key, bytes) ==
  /\ which = "dispatch"
  /\ cachedKeys' = IF (\E e \in ToSet(cachedKeys) : e.key = key) \/ bytes > ByteLimit THEN cachedKeys
               ELSE Append(MadeRoom(cachedKeys, bytes), [key |-> key, bytes |-> bytes])
  /\ UNCHANGED <<which, loans, lists, scratchBytes, scratchLimit, entryPool, panicked>>

\* Buffer::drop evicts the launches that bind it.
Forget(keys) ==
  /\ which = "dispatch" /\ cachedKeys' = SelectSeq(cachedKeys, LAMBDA e : e.key \notin keys)
  /\ UNCHANGED <<which, loans, lists, scratchBytes, scratchLimit, entryPool, panicked>>

-----------------------------------------------------------------------------
(* The free pool.                                                           *)

AllocateFree(bytes) ==
  /\ which = "free" /\ Len(loans) < HeldLimit /\ loans' = Append(loans, bytes)
  /\ LET same == {i \in DOMAIN entryPool : entryPool[i] = bytes} IN
     entryPool' = IF same = {} THEN entryPool ELSE SwapRemove(entryPool, Min(same))
  /\ UNCHANGED <<which, lists, scratchBytes, scratchLimit, cachedKeys, panicked>>

DropFree(i) ==
  /\ which = "free" /\ loans' = RemoveAt(loans, i)
  /\ entryPool' = IF loans[i] <= ByteLimit /\ Len(entryPool) < EntryLimit /\ loans[i] + Total(entryPool) <= ByteLimit
             THEN Append(entryPool, loans[i]) ELSE entryPool
  /\ UNCHANGED <<which, lists, scratchBytes, scratchLimit, cachedKeys, panicked>>

CacheNext ==
  \/ \E bytes \in Sizes : Scratch(bytes) \/ UploadChunk(bytes) \/ AllocateFree(bytes)
  \/ \E i \in DOMAIN loans : Recycle(i) \/ DropFree(i)
  \/ \E limit \in Limits : SetScratchLimit(limit)
  \/ \E key \in Keys, bytes \in Sizes : DispatchCached(key, bytes)
  \/ \E keys \in SUBSET Keys : Forget(keys)
  \/ SynchronizeStaging

CacheSpec == CacheInit /\ [][CacheNext]_cacheVars

-----------------------------------------------------------------------------
\* "An ordered GPU stream with explicit prepared commands and bounded pools"
\* (runtime.rs:775): whatever is allocated, recycled, reclaimed and limited, the
\* scratch count is exact and within its limit, the other caches are within
\* their entries and bytes, a launch has one entry, and making room never runs
\* out of entries to evict.
CachesBounded ==
  /\ scratchBytes = Stored(Sizes)
  /\ scratchBytes <= scratchLimit
  /\ Len(entryPool) <= EntryLimit /\ Total(entryPool) <= ByteLimit
  /\ Len(cachedKeys) <= EntryLimit /\ Bytes(cachedKeys) <= ByteLimit
  /\ IsInjective([i \in DOMAIN cachedKeys |-> cachedKeys[i].key])
  /\ which = "staging" => Len(loans) <= EntryLimit
  /\ ~panicked
=============================================================================
