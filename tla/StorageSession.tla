--------------------------- MODULE StorageSession ---------------------------
(***************************************************************************)
(* The storage queue of src/storage/mod.rs: a bounded pool of payload      *)
(* slots, clients that submit reads and writes and copy completed payloads *)
(* on a device stream, and one service thread that runs batches.           *)
(*                                                                         *)
(* A request lives as long as something refers to it (an Arc): the queue,  *)
(* the batch, a client's ticket, lease or transfer, or a transfer that was *)
(* deliberately leaked.  A slot holds a Weak reference and is free when    *)
(* its request is not alive.  Each action is one critical section of the   *)
(* session's mutex, one native completion, or one client step.             *)
(***************************************************************************)
EXTENDS Integers, Sequences, FiniteSets, FiniteSetsExt, SequencesExt

CONSTANTS
  Limit,            \* 2^64, the first value a u64 cannot hold
  Clients,          \* callers, each with at most one ticket, lease or transfer
  Files,            \* indices of registered files
  Identity,         \* the inode of each file: two handles may share one
  Alignment,        \* the direct-I/O alignment (1 when buffered)
  Slots, SlotBytes, \* StorageConfig::slots, slot_bytes
  Extents,          \* the extents clients ask for
  InitialBytes,     \* length of each inode when the session opens
  MaxRequests       \* bound: accepted requests

-----------------------------------------------------------------------------
(***************************************************************************)
(* The extent arithmetic of src/storage/mod.rs: how a logical file extent  *)
(* becomes the physical transfer of a storage request. A request is        *)
(* refused with a reason, or widened to the alignment of direct I/O.       *)
(***************************************************************************)
Down(n, a) == n - (n % a)

\* Mutant: the end of the extent is rounded down.
Up_Down(n, a) == Down(n, a)

Up(n, a) == Down(n + a - 1, a)

Refused(why) == [ok |-> FALSE, why |-> why]

Overflow(e, a) ==
  \/ e.offset + e.bytes >= Limit
  \/ e.offset + e.bytes + a - 1 >= Limit

OutOfRange(e, size, capacity) ==
  \/ e.bytes = 0
  \/ e.bytes > capacity
  \/ ~e.writing /\ e.offset + e.bytes > size

Unaligned(e, a) == e.writing /\ (e.offset % a # 0 \/ e.bytes % a # 0)

Widened(e, a) ==
  LET first == Down(e.offset, a)
  IN  [ok |-> TRUE, offset |-> first,
       bytes |-> Up(e.offset + e.bytes, a) - first,
       skip |-> e.offset - first]

\* physical: every refusal is an error of the submission.
Physical(e, size, a, capacity) ==
  IF \/ Overflow(e, a) \/ OutOfRange(e, size, capacity) \/ Unaligned(e, a)
     \/ Widened(e, a).bytes > capacity
    THEN Refused("extent") ELSE Widened(e, a)

\* Mutant: the padding of the last block is forgotten.
ReadChunk_Full(alignments, capacity) == capacity

\* read_chunk_bytes: what fits however it lies, saturating at zero.
ReadChunk(alignments, capacity) ==
  LET widest == CHOOSE a \in alignments : \A b \in alignments : b <= a
  IN  IF capacity > widest - 1 THEN capacity - (widest - 1) ELSE 0

-----------------------------------------------------------------------------
VARIABLES
  requests,   \* accepted requests: extent, physical, slot, outcome
  slots,      \* State::slots, the request a slot points at (0: none)
  pending,    \* State::pending
  stop, failed, errors, \* State::stop, failed, statistics.errors
  bytes,      \* RegisteredFile::bytes
  worker,     \* service thread: "ready", "asleep", "executing", "exited"
  jobs,       \* the batch the worker holds
  moving,     \* transfers of the batch the device has not completed
  result,     \* last native result of each job of the batch
  completed,  \* bytes completed by earlier attempts
  late,       \* native transfers abandoned by a timeout
  client,     \* what each client holds: "idle", "ticket", "lease", "transfer", "failed"
  holds,      \* the request it holds (0: none)
  copying,    \* the request whose slot an outstanding device copy reads
  leaked,     \* requests whose lease was forgotten
  session,    \* "open", "dropping", "closed"
  payload,    \* registered pages: contents of every slot
  disk        \* contents of every inode

state == <<slots, pending, stop, failed, errors>>
batch == <<worker, jobs, moving, result, completed, late>>
users == <<client, holds, copying, leaked>>
memory == <<payload, disk>>
vars == <<requests, state, bytes, batch, users, session, memory>>

Requests == 1..MaxRequests
Accepted == DOMAIN requests
Inode(f) == Identity[f]

Init ==
  /\ requests = <<>>
  /\ slots = [s \in Slots |-> 0] /\ pending = <<>>
  /\ stop = FALSE /\ failed = FALSE /\ errors = 0
  /\ bytes = [f \in Files |-> InitialBytes]
  /\ worker = "ready" /\ jobs = {} /\ moving = {}
  /\ result = [r \in Requests |-> 0] /\ completed = [r \in Requests |-> 0]
  /\ late = {}
  /\ client = [c \in Clients |-> "idle"] /\ holds = [c \in Clients |-> 0]
  /\ copying = [c \in Clients |-> 0] /\ leaked = {}
  /\ session = "open"
  /\ payload = [s \in Slots |-> [i \in 0..(SlotBytes - 1) |-> 0]]
  /\ disk = [d \in {Inode(f) : f \in Files} |-> [i \in 1..InitialBytes |-> 0]]

-----------------------------------------------------------------------------
(* References *)

Held == {holds[c] : c \in Clients} \ {0}

Alive == Range(pending) \union jobs \union Held \union leaked

\* Mutant: the service thread is not told.
Notified_Silent == worker

Notified == IF worker = "asleep" THEN "ready" ELSE worker

Fail(rs) == [r \in Accepted |-> IF r \in rs THEN [requests[r] EXCEPT !.outcome = "err"]
                                            ELSE requests[r]]

\* Mutant: every retained request is failed, not only the queued ones.
Queued_Alive == Alive

Queued == Range(pending)

\* Mutant: the requests failed in the queue are not counted.
Abandon_Uncounted(rs) == errors

Abandon(rs) == errors + Cardinality(rs)

\* Mutant: what is queued stays queued.
StopAfterFailure_Kept ==
  /\ failed' = TRUE /\ stop' = TRUE
  /\ worker' = Notified
  /\ UNCHANGED <<requests, errors, pending>>

\* stop_after_failure: a failed copy ends the session for what is queued.
StopAfterFailure ==
  /\ requests' = Fail(Queued)
  /\ errors' = Abandon(Queued)
  /\ failed' = TRUE /\ stop' = TRUE /\ pending' = <<>>
  /\ worker' = Notified

-----------------------------------------------------------------------------
(* Submission *)

SharedWith(e, r) ==
  LET o == requests[r].extent
  IN  /\ ~e.writing /\ ~o.writing
      /\ o.offset = e.offset /\ o.bytes = e.bytes
      /\ requests[r].outcome # "err"

\* Mutant: overlap is looked for on the same handle only.
Overlaps_Handle(e, r) ==
  LET o == requests[r].extent
  IN  /\ e.writing \/ o.writing
      /\ e.file = o.file
      /\ e.offset < o.offset + o.bytes /\ o.offset < e.offset + e.bytes

Overlaps(e, r) ==
  LET o == requests[r].extent
  IN  /\ e.writing \/ o.writing
      /\ e.offset < o.offset + o.bytes /\ o.offset < e.offset + e.bytes

\* The retained requests on the same inode, in slot order.
Related(e) ==
  {s \in Slots : /\ slots[s] \in Alive
                 /\ Inode(requests[slots[s]].extent.file) = Inode(e.file)}

\* The first related slot that shares or conflicts decides.
Deciding(e) ==
  {s \in Related(e) : SharedWith(e, slots[s]) \/ Overlaps(e, slots[s])}

FreeSlots == {s \in Slots : slots[s] \notin Alive}

\* Device use of the registered allocation refuses host writes (Busy).
DeviceUse == worker = "executing" \/ late # {} \/ \E c \in Clients : copying[c] # 0

Admits == session = "open" /\ ~failed /\ ~stop

\* Lengths only grow and do not shape an accepted transfer, so reading one
\* before the lock is taken can only refuse a read of what was just written.
Placed(e) == Physical(e, bytes[e.file], Alignment, SlotBytes)

Share(c, e) ==
  /\ client[c] = "idle" /\ Admits
  /\ Placed(e).ok
  /\ Deciding(e) # {}
  /\ LET s == Min(Deciding(e))
     IN  /\ SharedWith(e, slots[s])
         /\ holds' = [holds EXCEPT ![c] = slots[s]]
  /\ client' = [client EXCEPT ![c] = "ticket"]
  /\ UNCHANGED <<requests, state, bytes, batch, copying, leaked, session, memory>>

\* submit: a fresh request takes the first free slot; a write fills it first.
Submit(c, e) ==
  /\ client[c] = "idle" /\ Admits
  /\ Placed(e).ok /\ Len(requests) < MaxRequests
  /\ Deciding(e) = {} /\ FreeSlots # {}
  /\ e.writing => ~DeviceUse
  /\ LET s == Min(FreeSlots)
         r == Len(requests) + 1
     IN  /\ requests' = Append(requests, [extent |-> e, physical |-> Placed(e),
                                          slot |-> s, outcome |-> "none"])
         /\ slots' = [slots EXCEPT ![s] = r]
         /\ pending' = Append(pending, r)
         /\ holds' = [holds EXCEPT ![c] = r]
         /\ payload' = IF e.writing
              THEN [payload EXCEPT ![s] = [i \in DOMAIN @ |-> IF i < e.bytes THEN r ELSE @[i]]]
              ELSE payload
  /\ client' = [client EXCEPT ![c] = "ticket"]
  /\ worker' = Notified
  /\ UNCHANGED <<stop, failed, errors, bytes, jobs, moving, result, completed, late,
                 copying, leaked, session, disk>>

-----------------------------------------------------------------------------
(* The service thread *)

Sleep ==
  /\ worker = "ready" /\ pending = <<>> /\ ~stop
  /\ worker' = "asleep"
  /\ UNCHANGED <<requests, state, bytes, jobs, moving, result, completed, late,
                 users, session, memory>>

\* Mutant: a stopping session leaves its queue behind.
Exits_Early == stop

Exits == pending = <<>> /\ stop

Exit ==
  /\ worker = "ready" /\ Exits
  /\ worker' = "exited"
  /\ UNCHANGED <<requests, state, bytes, jobs, moving, result, completed, late,
                 users, session, memory>>

Take ==
  /\ worker = "ready" /\ pending # <<>> /\ ~Exits
  /\ worker' = "executing"
  /\ jobs' = Range(pending) /\ moving' = jobs'
  /\ completed' = [r \in Requests |-> IF r \in jobs' THEN 0 ELSE completed[r]]
  /\ pending' = <<>>
  /\ UNCHANGED <<requests, slots, stop, failed, errors, bytes, result, late,
                 users, session, memory>>

Position(r) == requests[r].physical.offset + completed[r]

Room(r) == requests[r].physical.bytes - completed[r]

Contents(r) == disk[Inode(requests[r].extent.file)]

Readable(r) == Min({Room(r), Max({0, Len(Contents(r)) - Position(r)})})

\* The kernel moves n bytes between the slot and the file.
Moved(r, n) ==
  LET e == requests[r].extent
      s == requests[r].slot
      done == completed[r]
      from == Position(r)
      old == Contents(r)
  IN  IF e.writing
        THEN /\ disk' = [disk EXCEPT ![Inode(e.file)] =
                  [i \in 1..Max({Len(old), IF n = 0 THEN 0 ELSE from + n}) |->
                     IF i \in (from + 1)..(from + n) THEN payload[s][done + i - 1 - from]
                     ELSE IF i <= Len(old) THEN old[i] ELSE 0]]
             /\ UNCHANGED payload
        ELSE /\ payload' = [payload EXCEPT ![s] =
                  [i \in DOMAIN @ |->
                     IF i \in done..(done + n - 1) THEN old[from + i - done + 1] ELSE @[i]]]
             /\ UNCHANGED disk

Amounts(r) == 0..(IF requests[r].extent.writing THEN Room(r) ELSE Readable(r))

\* One completion of the batch: an error, or possibly fewer bytes than asked.
Complete(r) ==
  /\ worker = "executing" /\ r \in moving
  /\ moving' = moving \ {r}
  /\ \/ /\ result' = [result EXCEPT ![r] = -1]
        /\ UNCHANGED memory
     \/ \E n \in Amounts(r) :
          /\ result' = [result EXCEPT ![r] = n]
          /\ Moved(r, n)
  /\ UNCHANGED <<requests, state, bytes, worker, jobs, completed, late, users, session>>

\* A transfer the worker stopped waiting for still reaches memory.
CompleteLate(r) ==
  /\ r \in late
  /\ late' = late \ {r}
  /\ \E n \in Amounts(r) : Moved(r, n)
  /\ UNCHANGED <<requests, state, bytes, worker, jobs, moving, result, completed,
                 users, session>>

Total(r) == completed[r] + Max({0, result[r]})

Required(r) == requests[r].physical.skip + requests[r].extent.bytes

\* Mutant: an extent is whole when its physical bytes start to arrive.
Whole_Padding(r) == result[r] >= 0 /\ Total(r) >= requests[r].extent.bytes

Whole(r) == result[r] >= 0 /\ Total(r) >= Required(r)

\* A short completion is retried only from a legal boundary.
Broken(r) ==
  /\ ~Whole(r)
  /\ result[r] <= 0 \/ Total(r) % Alignment # 0

Short == {r \in jobs : ~Whole(r)}

BatchDone == worker = "executing" /\ moving = {}

Retry ==
  /\ BatchDone /\ Short # {} /\ \A r \in jobs : ~Broken(r)
  /\ completed' = [r \in Requests |-> IF r \in Short THEN Total(r) ELSE completed[r]]
  /\ moving' = Short
  /\ UNCHANGED <<requests, state, bytes, worker, jobs, result, late, users, session, memory>>

\* Mutant: only the handle that was written learns the new length.
Grown_Handle(f, r) == requests[r].extent.file = f

Grown(f, r) == Inode(requests[r].extent.file) = Inode(f)

\* fetch_max of the length of every handle of a written inode.
Lengths ==
  [f \in Files |->
     Max({bytes[f]} \union
         {requests[r].extent.offset + requests[r].extent.bytes :
            r \in {q \in jobs \ Short : requests[q].extent.writing /\ Grown(f, q)}})]

\* Mutant: the batch is still owned after its requests are answered.
Retained_Batch == jobs

Retained == {}

\* Worker::run after a batch: outcomes, and the queue too after a failure.
Publish ==
  /\ BatchDone /\ (Short = {} \/ \E r \in jobs : Broken(r))
  /\ LET broken == failed \/ Short # {}
         lost == Short \union (IF broken THEN Range(pending) ELSE {})
     IN  /\ requests' = [r \in Accepted |->
              IF r \in lost THEN [requests[r] EXCEPT !.outcome = "err"]
              ELSE IF r \in jobs THEN [requests[r] EXCEPT !.outcome = "ok"]
              ELSE requests[r]]
         /\ errors' = Abandon(lost)
         /\ failed' = broken /\ stop' = (stop \/ Short # {})
         /\ pending' = IF broken THEN <<>> ELSE pending
         /\ worker' = IF broken THEN "exited" ELSE "ready"
  /\ bytes' = Lengths
  /\ jobs' = Retained
  /\ UNCHANGED <<slots, moving, result, completed, late, users, session, memory>>

\* Dispatch fails or does not retire in 30 seconds; what moves is leaked.
TimeOut ==
  /\ worker = "executing"
  /\ LET lost == jobs \union Range(pending)
     IN  requests' = Fail(lost) /\ errors' = Abandon(lost)
  /\ failed' = TRUE /\ stop' = TRUE /\ pending' = <<>>
  /\ worker' = "exited" /\ jobs' = {} /\ moving' = {} /\ late' = moving
  /\ UNCHANGED <<slots, bytes, result, completed, users, session, memory>>

-----------------------------------------------------------------------------
(* Tickets, leases and transfers *)

Become(c, what) == client' = [client EXCEPT ![c] = what]

LetGo(c) == Become(c, "idle") /\ holds' = [holds EXCEPT ![c] = 0]

\* ReadTicket::wait_timeout: a lease only for a completed request.
Wait(c) ==
  /\ client[c] = "ticket" /\ requests[holds[c]].outcome = "ok"
  /\ Become(c, "lease")
  /\ UNCHANGED <<requests, state, bytes, batch, holds, copying, leaked, session, memory>>

DropTicket(c) ==
  /\ client[c] \in {"ticket", "lease"}
  /\ LetGo(c)
  /\ UNCHANGED <<requests, state, bytes, batch, copying, leaked, session, memory>>

\* Mutant: submitting the copy consumes the lease.
Retains_Nothing(c) == LetGo(c)

Retains(c) == Become(c, "transfer") /\ UNCHANGED holds

\* ReadLease::enqueue: the transfer keeps the lease while the device reads.
Enqueue(c) ==
  /\ client[c] = "lease"
  /\ copying' = [copying EXCEPT ![c] = holds[c]]
  /\ Retains(c)
  /\ UNCHANGED <<requests, state, bytes, batch, leaked, session, memory>>

Leak(c) == leaked' = leaked \union {holds[c]}

\* The operation fails; the stream is synchronised, or the slot is leaked.
EnqueueFails(c) ==
  /\ client[c] = "lease"
  /\ LetGo(c)
  /\ \/ /\ UNCHANGED <<requests, state, worker, copying, leaked>>
     \/ /\ copying' = [copying EXCEPT ![c] = holds[c]]
        /\ Leak(c)
        /\ StopAfterFailure
        /\ UNCHANGED slots
  /\ UNCHANGED <<bytes, jobs, moving, result, completed, late, session, memory>>

\* The device finishes the copy.
Copied(c) ==
  /\ copying[c] # 0
  /\ copying' = [copying EXCEPT ![c] = 0]
  /\ UNCHANGED <<requests, state, bytes, batch, client, holds, leaked, session, memory>>

\* Mutant: the source is released although the copy is outstanding.
Settled_Asked(c) == TRUE

Settled(c) == copying[c] = 0

\* StorageTransfer::is_complete, wait and drop after the copy.
Reclaim(c) ==
  /\ client[c] \in {"transfer", "failed"} /\ Settled(c)
  /\ LetGo(c)
  /\ UNCHANGED <<requests, state, bytes, batch, copying, leaked, session, memory>>

\* The stream reports an error; the transfer keeps its source.
TransferFails(c) ==
  /\ client[c] = "transfer"
  /\ Become(c, "failed")
  /\ StopAfterFailure
  /\ UNCHANGED <<slots, bytes, jobs, moving, result, completed, late,
                 holds, copying, leaked, session, memory>>

\* StorageTransfer::drop after an error forgets the lease.
DropFailed(c) ==
  /\ client[c] = "failed"
  /\ Leak(c) /\ LetGo(c)
  /\ UNCHANGED <<requests, state, bytes, batch, copying, session, memory>>

DropSession ==
  /\ session = "open"
  /\ session' = "dropping" /\ stop' = TRUE
  /\ worker' = Notified
  /\ UNCHANGED <<requests, slots, pending, failed, errors, bytes, jobs, moving, result,
                 completed, late, users, memory>>

Join ==
  /\ session = "dropping" /\ worker = "exited"
  /\ session' = "closed"
  /\ UNCHANGED <<requests, state, bytes, batch, users, memory>>

-----------------------------------------------------------------------------
Service ==
  \/ Sleep \/ Exit \/ Take \/ Retry \/ Publish \/ TimeOut
  \/ \E r \in Requests : Complete(r)

Client(c) ==
  \/ \E e \in Extents : Share(c, e) \/ Submit(c, e)
  \/ Wait(c) \/ DropTicket(c)
  \/ Enqueue(c) \/ EnqueueFails(c) \/ Copied(c) \/ Reclaim(c)
  \/ TransferFails(c) \/ DropFailed(c)

Next ==
  \/ Service
  \/ \E r \in Requests : CompleteLate(r)
  \/ \E c \in Clients : Client(c)
  \/ DropSession \/ Join

Spec == Init /\ [][Next]_vars

-----------------------------------------------------------------------------
\* Requests whose slot a client or a native operation may still touch.
Touching == Alive \union late \union ({copying[c] : c \in Clients} \ {0})

(* "Files, native commands and payload slots remain owned through I/O and  *)
(* downstream copies": no two requests that a client holds, the batch      *)
(* transfers, an abandoned transfer still writes or a device copy still    *)
(* reads share a payload slot (submit, enqueue, StorageTransfer::drop).    *)
SlotExclusive ==
  \A r, q \in Touching : requests[r].slot = requests[q].slot => r = q

Logical(r) == 0..(requests[r].extent.bytes - 1)

(* While a successful request is retained, its slot and its file agree on  *)
(* every byte of its logical extent: a read, shared or not, is never stale *)
(* against a write accepted by the session, through any handle of the      *)
(* file, and a finished write is what the file holds (submit, execute).    *)
RetainedCurrent ==
  \A r \in Alive \cap Accepted :
    LET q == requests[r]
    IN  q.outcome = "ok" =>
          \A i \in Logical(r) :
            /\ q.extent.offset + i + 1 <= Len(Contents(r))
            /\ payload[q.slot][q.physical.skip + i] = Contents(r)[q.extent.offset + i + 1]

(* RegisteredFile::bytes: no handle admits a read past what the file has,  *)
(* and a finished write is known to every handle of its file (Worker::run). *)
LengthsKnown ==
  /\ \A f \in Files : bytes[f] <= Len(disk[Inode(f)])
  /\ \A f, g \in Files : Inode(f) = Inode(g) => bytes[f] = bytes[g]

(* "Release service references under the admission lock": an answered      *)
(* request of a working session keeps its slot only through clients, so a  *)
(* client that released its lease can submit at once (Worker::run).        *)
ServiceReleases ==
  \A s \in Slots :
    (~failed /\ slots[s] \in Accepted \ Held /\ requests[slots[s]].outcome # "none")
      => s \in FreeSlots

(* "The first I/O failure stops new issuance": once the session failed no  *)
(* new batch is taken, and neither stop_after_failure nor the failure      *)
(* paths of Worker::run change an outcome that was published.  Statistics  *)
(* count "distinct requests ending in an error", each of them once.        *)
Erring == {r \in Accepted : requests[r].outcome = "err"}
FailureFinal ==
  /\ failed => jobs' \subseteq jobs
  /\ \A r \in Accepted :
       requests[r].outcome # "none" => requests'[r].outcome = requests[r].outcome
  /\ errors' - errors = Cardinality(Erring' \ Erring)
=============================================================================
