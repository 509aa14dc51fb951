--------------------------- MODULE CommandStorage ---------------------------
(***************************************************************************)
(* Kernel batches of src/fabric/queue.rs: GpuBatchRecorder packs arguments *)
(* into shared pages (GraphArena), finishing freezes them into one batch,  *)
(* and GpuBatchStorage recycles the private pages and fences.  The second  *)
(* part is the dispatcher that rewrites one page and one fence.            *)
(***************************************************************************)
EXTENDS Naturals, Sequences, FiniteSets, SequencesExt

CONSTANTS
  Pages, Fences,   \* allocations, numbered; the first unused one is allocated
  PageUnits,       \* 1024 in the code: 64-byte units of an argument page
  Sizes,           \* units one command's arguments take
  CommandLimit,    \* bound: commands of one batch
  BatchLimit,      \* bound: batches prepared
  RunLimit,        \* bound: dispatches of one batch
  Absent

VARIABLES
  arena,     \* GraphArena of the open recording or of the recyclable storage
  stage,     \* "none", "recording" or "stored"
  recorded,  \* the recording's commands: <<page, first unit, size>>
  content,   \* page -> unit -> batch whose arguments it holds
  batches,   \* prepared batches
  word       \* fence -> completion word

batchVars == <<arena, stage, recorded, content, batches, word>>

NoArena == [page |-> Absent, used |-> 0, fence |-> Absent, completion |-> Absent]

BatchInit ==
  /\ arena = NoArena /\ stage = "none" /\ recorded = <<>> /\ batches = <<>>
  /\ content = [p \in Pages |-> [u \in 0 .. PageUnits - 1 |-> 0]]
  /\ word = [f \in Fences |-> 0]

\* A batch is retained by its handles and by every submission in flight.
Live(b) == batches[b].handle \/ batches[b].run < batches[b].sent
LiveBatches == {b \in DOMAIN batches : Live(b)}
PagesOf(b) == {c[1] : c \in ToSet(batches[b].commands)}
CommandPages == {c[1] : c \in ToSet(recorded)}
UsedPages == {arena.page} \union CommandPages \union UNION {PagesOf(b) : b \in LiveBatches}
UsedFences == {arena.fence, arena.completion} \union {batches[b].fence : b \in LiveBatches}
This == Len(batches) + 1
Fresh(all, used) == CHOOSE x \in all \ used : \A y \in all \ used : x <= y
HasFresh(all, used) == all \ used # {}

-----------------------------------------------------------------------------
RecordBatch ==
  /\ stage = "none"
  /\ stage' = "recording" /\ arena' = NoArena /\ recorded' = <<>>
  /\ UNCHANGED <<content, batches, word>>

\* A page that is full is left to the commands already in it.
NeedsPage(size) == arena.page = Absent \/ size > PageUnits - arena.used

\* dispatch: the arguments are written at the end of the page.
Dispatch(size) ==
  /\ stage = "recording" /\ This <= BatchLimit /\ Len(recorded) < CommandLimit
  /\ HasFresh(Pages, UsedPages) /\ HasFresh(Fences, UsedFences)
  /\ LET fresh == NeedsPage(size)
         at == IF fresh THEN 0 ELSE arena.used
         p == IF fresh THEN Fresh(Pages, UsedPages) ELSE arena.page
         fence == IF arena.fence = Absent THEN Fresh(Fences, UsedFences) ELSE arena.fence
     IN
     /\ arena' = [arena EXCEPT !.page = p, !.used = at + size, !.fence = fence]
     /\ content' = [content EXCEPT ![p] = [u \in DOMAIN @ |->
                      IF u \in at .. at + size - 1 THEN This ELSE @[u]]]
     /\ recorded' = Append(recorded, <<p, at, size>>)
  /\ UNCHANGED <<stage, batches, word>>

\* Mutant: a recycled completion fence keeps its last value.
Cleared_Never(fence) == word

Cleared(fence) == [word EXCEPT ![fence] = 0]

\* finish, finish_recyclable and finish_recyclable_with_fence.
Finish(recyclable, reuse) ==
  /\ stage = "recording" /\ recorded # <<>> /\ (reuse => recyclable)
  /\ HasFresh(Fences, UsedFences)
  /\ LET again == reuse /\ arena.completion # Absent
         fence == IF again THEN arena.completion ELSE Fresh(Fences, UsedFences)
     IN
     /\ word' = IF again THEN Cleared(fence) ELSE [word EXCEPT ![fence] = 0]
     /\ batches' = Append(batches, [commands |-> recorded, fence |-> fence, handle |-> TRUE,
                                    sent |-> 0, run |-> 0])
     /\ arena' = IF recyclable THEN [arena EXCEPT !.completion = IF reuse THEN fence ELSE Absent]
                 ELSE NoArena
  /\ recorded' = <<>>
  /\ stage' = IF recyclable THEN "stored" ELSE "none"
  /\ UNCHANGED content

\* Mutant: only the batch's handle is asked for, not its work in flight.
Exclusive_Handles ==
  \A b \in DOMAIN batches : batches[b].handle =>
    arena.page \notin PagesOf(b) /\ arena.completion # batches[b].fence

\* exclusively_owned: nothing but this storage holds its page and fences.
Exclusive ==
  \A b \in LiveBatches : arena.page \notin PagesOf(b) /\ arena.completion # batches[b].fence

\* GpuBatchStorage::record: Busy keeps the storage for another attempt.
Recycle ==
  /\ stage = "stored" /\ Exclusive
  /\ stage' = "recording" /\ arena' = [arena EXCEPT !.used = 0]
  /\ word' = IF arena.fence = Absent THEN word ELSE [word EXCEPT ![arena.fence] = 0]
  /\ UNCHANGED <<recorded, content, batches>>

DropStorage ==
  /\ stage # "none" /\ stage' = "none" /\ arena' = NoArena /\ recorded' = <<>>
  /\ UNCHANGED <<content, batches, word>>

-----------------------------------------------------------------------------
\* A batch is replayed; the GPU executes in order and writes its fence.
Submit(b) ==
  /\ batches[b].handle /\ batches[b].sent < RunLimit
  /\ batches' = [batches EXCEPT ![b].sent = @ + 1]
  /\ UNCHANGED <<arena, stage, recorded, content, word>>

Execute(b) ==
  /\ batches[b].run < batches[b].sent
  /\ batches' = [batches EXCEPT ![b].run = @ + 1]
  /\ word' = [word EXCEPT ![batches[b].fence] = batches[b].run + 1]
  /\ UNCHANGED <<arena, stage, recorded, content>>

DropBatch(b) ==
  /\ batches[b].handle /\ batches' = [batches EXCEPT ![b].handle = FALSE]
  /\ UNCHANGED <<arena, stage, recorded, content, word>>

BatchNext ==
  \/ RecordBatch \/ Recycle \/ DropStorage
  \/ \E size \in Sizes : Dispatch(size)
  \/ \E recyclable, reuse \in BOOLEAN : Finish(recyclable, reuse)
  \/ \E b \in DOMAIN batches : Submit(b) \/ Execute(b) \/ DropBatch(b)

BatchSpec == BatchInit /\ [][BatchNext]_batchVars
-----------------------------------------------------------------------------
\* Arguments a batch may still be executed with are its own, although storage is
\* recycled under it, and its fence never shows an invocation that has not run
\* (queue.rs:569-571, 1003-1008).
BatchesIntact ==
  \A b \in LiveBatches :
    /\ \A c \in ToSet(batches[b].commands) : \A u \in c[2] .. c[2] + c[3] - 1 :
         u < PageUnits /\ content[c[1]][u] = b
    /\ word[batches[b].fence] = batches[b].run

-----------------------------------------------------------------------------
(***************************************************************************)
(* SerialGpuDispatcher (src/fabric/queue/serial.rs): one argument page and *)
(* one fence, rewritten by every synchronous call once the previous call   *)
(* has retired. The queue is shared, so a wait prepared on another queue   *)
(* may snapshot the call's work and keep page and fence referenced.        *)
(***************************************************************************)
CONSTANTS
  Calls,          \* 1 .. n: the calls made, in order
  Rejected        \* calls whose kernel, arguments or scratch are refused

VARIABLES
  call,           \* calls made so far
  serialStage,    \* "idle", "prepared", "submitted"
  page, serialWord, \* whose arguments the page holds; the fence word (or "none")
  running,        \* the call the GPU has not completed, or 0
  snapshot,       \* another queue's wait holds the work of this call, or 0
  uncertain, broken, \* the command kept after an error; the failed flag
  latest,         \* last_kernel and last_argument_bytes: the call they describe
  counters        \* executions and allocations

serialVars == <<call, serialStage, page, serialWord, running, snapshot, uncertain, broken, latest,
                counters>>

SerialInit ==
  /\ call = 0 /\ serialStage = "idle" /\ page = 0 /\ serialWord = "none" /\ running = 0
  /\ snapshot = 0 /\ uncertain = 0 /\ broken = FALSE /\ latest = 0
  /\ counters = [executions |-> 0, allocations |-> 0]

\* Buffer::exclusively_owned on page and fence: nothing but the arena holds them.
PageExclusive == snapshot = 0 /\ uncertain = 0

\* Mutant: a failed call does not disable the dispatcher, and only the page's
\* owner by this dispatcher is looked at.
Reusable_Always == TRUE

Reusable == ~broken /\ PageExclusive

Allocated == [counters EXCEPT !.allocations = IF page = 0 THEN 2 ELSE @]

\* The checks, the reset of the arena and preparation, which writes the
\* arguments and resets the fence.  A refused preparation still forgets the
\* latest call, and may have packed the page before it fails.
ExecuteBegin ==
  /\ serialStage = "idle" /\ call + 1 \in Calls
  /\ call' = call + 1
  /\ IF ~Reusable
       THEN UNCHANGED <<serialStage, page, serialWord, uncertain, latest, counters>>
       ELSE IF call' \in Rejected
       THEN /\ \/ UNCHANGED <<latest, page, counters>>
               \/ latest' = 0 /\ page' = page /\ counters' = counters
               \/ latest' = 0 /\ page' = call' /\ counters' = Allocated
            /\ UNCHANGED <<serialStage, serialWord, uncertain>>
       ELSE /\ serialStage' = "prepared" /\ page' = call' /\ serialWord' = 0 /\ latest' = 0
            /\ uncertain' = call'
            /\ counters' = Allocated
  /\ UNCHANGED <<running, snapshot, broken>>

\* dispatch: published, or refused because the shared queue is full.
ExecuteDispatch ==
  /\ serialStage = "prepared"
  /\ \/ serialStage' = "submitted" /\ running' = call /\ UNCHANGED broken
     \/ serialStage' = "idle" /\ broken' = TRUE /\ UNCHANGED running
  /\ UNCHANGED <<call, page, serialWord, snapshot, uncertain, latest, counters>>

\* wait: retirement, or a device error while the call may still be running.
ExecuteWait ==
  /\ serialStage = "submitted" /\ serialStage' = "idle"
  /\ \/ /\ serialWord = 1
        /\ uncertain' = 0 /\ latest' = call
        /\ counters' = [counters EXCEPT !.executions = @ + 1]
        /\ UNCHANGED broken
     \/ /\ serialWord = 0 /\ broken' = TRUE
        /\ UNCHANGED <<uncertain, latest, counters>>
  /\ UNCHANGED <<call, page, serialWord, running, snapshot>>

\* The GPU reads the page and writes the fence (external).
Complete ==
  /\ running # 0
  /\ running' = 0 /\ serialWord' = 1
  /\ UNCHANGED <<call, serialStage, page, snapshot, uncertain, broken, latest, counters>>

\* prepare_wait on another queue takes the pending work as a dependency, and
\* drops it once that wait has retired.
TakeSnapshot ==
  /\ snapshot = 0 /\ serialStage = "submitted" /\ snapshot' = call
  /\ UNCHANGED <<call, serialStage, page, serialWord, running, uncertain, broken, latest, counters>>

DropSnapshot ==
  /\ snapshot # 0 /\ serialWord = 1 /\ snapshot' = 0
  /\ UNCHANGED <<call, serialStage, page, serialWord, running, uncertain, broken, latest, counters>>

SerialNext ==
  ExecuteBegin \/ ExecuteDispatch \/ ExecuteWait \/ Complete \/ TakeSnapshot \/ DropSnapshot

SerialSpec == SerialInit /\ [][SerialNext]_serialVars

-----------------------------------------------------------------------------
\* "Retired argument bytes and the completion word may be overwritten for the
\* next call" (serial.rs:7) and no earlier: a running call finds its own
\* arguments, a waiter on its work a fence that was not reset under it, and the
\* snapshot call describes the bytes in the page.
SerialReuse ==
  /\ running # 0 => page = running
  /\ snapshot # 0 => page = snapshot
  /\ latest # 0 => page = latest /\ serialWord = 1
=============================================================================
