--------------------------- MODULE TensorTransfers ---------------------------
(***************************************************************************)
(* Owned tensor transfers of a model context (src/inference.rs): uploads    *)
(* and readbacks through pooled host staging, copies between tensors and    *)
(* concatenation, each a copy graph submitted after its producers.          *)
(* Running a graph is the scheduler's part (Scheduler.tla): a job runs when *)
(* its producers succeeded and earlier conflicting jobs are done.           *)
(***************************************************************************)
EXTENDS Integers, Sequences, FiniteSets, SequencesExt, FiniteSetsExt

CONSTANTS
  Length,        \* tensor -> bytes
  Budgeted,      \* whether the runtime has a memory budget
  PoolEntries,   \* STAGING_POOL_ENTRIES
  JobLimit       \* bound: submitted jobs

VARIABLES
  tensors,       \* tensor -> [producer, cells, poison, ideal]
  staging,       \* host buffers ever allocated: [cells, poison]
  pool,          \* StagingPool: sequence of [buffer, job]
  jobs,          \* submitted copy graphs
  readbacks      \* TensorReadback handles and what they returned

transferVars == <<tensors, staging, pool, jobs, readbacks>>

Tensors == DOMAIN Length
Unset == 0

TransferInit ==
  /\ tensors = [t \in Tensors |->
       [producer |-> 0, poison |-> FALSE, cells |-> [i \in 1 .. Length[t] |-> Unset],
        ideal |-> [i \in 1 .. Length[t] |-> Unset]]]
  /\ staging = <<>> /\ pool = <<>> /\ jobs = <<>> /\ readbacks = {}

\* Job 0 is Completion::ready.
IsComplete(job) == job = 0 \/ jobs[job].state \in {"ok", "failed", "cancelled"}
Succeeded(job) == job = 0 \/ jobs[job].state = "ok"

-----------------------------------------------------------------------------
(* StagingPool.                                                             *)

\* Mutant: staging is reused while its copy is queued.
Reusable_Pending(i, bytes) ==
  Len(staging[pool[i].buffer].cells) \in bytes .. 2 * bytes

Reusable(i, bytes) ==
  Len(staging[pool[i].buffer].cells) \in bytes .. 2 * bytes /\ IsComplete(pool[i].job)

Size(i) == Len(staging[pool[i].buffer].cells)

\* min_by_key over the pool, then swap_remove.
Best(bytes) ==
  LET fits == {i \in DOMAIN pool : Reusable(i, bytes)}
  IN  Min({i \in fits : \A j \in fits : Size(i) <= Size(j)})

SwapRemoved(i) ==
  LET last == Len(pool) IN
  [k \in 1 .. last - 1 |-> IF k = i THEN pool[last] ELSE pool[k]]

Reuses(bytes) == \E i \in DOMAIN pool : Reusable(i, bytes)
Taken(bytes) == IF Reuses(bytes) THEN pool[Best(bytes)].buffer ELSE Len(staging) + 1
PoolAfter(bytes) == IF Reuses(bytes) THEN SwapRemoved(Best(bytes)) ELSE pool
StagingAfter(bytes) ==
  IF Reuses(bytes) THEN staging
  ELSE Append(staging, [cells |-> [i \in 1 .. bytes |-> Unset], poison |-> FALSE])

\* Mutant: the oldest entry is not dropped at the limit.
Recycled_Grows(entries, buffer, job) == Append(entries, [buffer |-> buffer, job |-> job])

Recycled(entries, buffer, job) ==
  Append(IF Len(entries) = PoolEntries THEN Tail(entries) ELSE entries,
         [buffer |-> buffer, job |-> job])

-----------------------------------------------------------------------------
(* Jobs.  A copy moves bytes between places <<"tensor", t>> and             *)
(* <<"staging", s>>.                                                        *)

Copy(to, at, from, bytes) == [to |-> to, at |-> at, from |-> from, bytes |-> bytes]
Job(copies, after) == [copies |-> copies, after |-> after, state |-> "queued"]
Next_ == Len(jobs) + 1
Room == Len(jobs) < JobLimit

Places(job) == UNION {{c.to, c.from} : c \in ToSet(job.copies)}
Written(job) == {c.to : c \in ToSet(job.copies)}
Conflict(j, k) ==
  Written(j) \intersect Places(k) # {} \/ Places(j) \intersect Written(k) # {}

Poison(place) == IF place[1] = "tensor" THEN tensors[place[2]].poison ELSE staging[place[2]].poison
CellsOf(place) == IF place[1] = "tensor" THEN tensors[place[2]].cells ELSE staging[place[2]].cells
Usable(copies) == \A c \in ToSet(copies) : ~Poison(c.to) /\ ~Poison(c.from)

Moved(cells, at, new) ==
  [i \in DOMAIN cells |-> IF at < i /\ i <= at + Len(new) THEN new[i - at] ELSE cells[i]]

Turn(j) ==
  /\ jobs[j].state = "queued" /\ \A k \in jobs[j].after : IsComplete(k)
  /\ \A k \in 1 .. j - 1 : Conflict(jobs[k], jobs[j]) => IsComplete(k)

\* The first n copies have run; the copies of a graph write different ranges.
Ran(j, n) ==
  LET after(place) == FoldLeft(LAMBDA cells, c :
          IF c.to = place THEN Moved(cells, c.at, SubSeq(CellsOf(c.from), 1, c.bytes)) ELSE cells,
          CellsOf(place), SubSeq(jobs[j].copies, 1, n))
  IN  /\ tensors' = [t \in Tensors |-> [tensors[t] EXCEPT !.cells = after(<<"tensor", t>>)]]
      /\ staging' = [s \in DOMAIN staging |-> [staging[s] EXCEPT !.cells = after(<<"staging", s>>)]]

Starts(j) == Turn(j) /\ \A k \in jobs[j].after : Succeeded(k)
Ends(j, state) == jobs' = [jobs EXCEPT ![j].state = state] /\ UNCHANGED <<pool, readbacks>>

JobRun(j) == Starts(j) /\ Usable(jobs[j].copies) /\ Ran(j, Len(jobs[j].copies)) /\ Ends(j, "ok")

\* A region fails: its graph poisons everything it uses.
JobFails(j) ==
  /\ Starts(j) /\ Ends(j, "failed")
  /\ tensors' = [t \in Tensors |->
       [tensors[t] EXCEPT !.poison = @ \/ <<"tensor", t>> \in Places(jobs[j])]]
  /\ staging' = [s \in DOMAIN staging |->
       [staging[s] EXCEPT !.poison = @ \/ <<"staging", s>> \in Places(jobs[j])]]

\* One failed producer is enough: the job ends before its turn, untouched.
JobRefused(j) ==
  /\ jobs[j].state = "queued" /\ \E k \in jobs[j].after : IsComplete(k) /\ ~Succeeded(k)
  /\ Ends(j, "failed") /\ UNCHANGED <<tensors, staging>>

\* Nothing more of a cancelled job starts; what ran before stays written.
JobCancelled(j) ==
  /\ jobs[j].state = "queued" /\ Ends(j, "cancelled")
  /\ \/ UNCHANGED <<tensors, staging>>
     \/ /\ Starts(j) /\ Usable(jobs[j].copies)
        /\ \E n \in DOMAIN jobs[j].copies : Ran(j, n)

-----------------------------------------------------------------------------
(* ModelContext.                                                            *)

\* upload and upload_parts allocate the tensor (a caller uploads each once),
\* fill staging through a host guard, and recycle it with the copy's
\* completion unless reservations are counted.
Upload(t) ==
  LET n == Length[t]
      buffer == Taken(n)
      value == [i \in 1 .. n |-> Next_]
      mapped == StagingAfter(n)
  IN  /\ Room /\ tensors[t].producer = 0 /\ tensors[t].ideal[1] = Unset
      /\ ~mapped[buffer].poison
      /\ staging' = [mapped EXCEPT ![buffer].cells = Moved(@, 0, value)]
      /\ jobs' = Append(jobs, Job(<<Copy(<<"tensor", t>>, 0, <<"staging", buffer>>, n)>>, {}))
      /\ pool' = IF Budgeted THEN PoolAfter(n) ELSE Recycled(PoolAfter(n), buffer, Next_)
      /\ tensors' = [tensors EXCEPT ![t].producer = Next_, ![t].ideal = value]
      /\ UNCHANGED readbacks

\* Poisoned staging comes out of the pool and is not put back, by a refused
\* download neither.
UploadRefused(t) ==
  LET n == Length[t] IN
  /\ Reuses(n) /\ staging[Taken(n)].poison /\ pool' = PoolAfter(n)
  /\ UNCHANGED <<tensors, staging, jobs, readbacks>>

\* Mutant: the destination's own producer is forgotten.
CopyAfter_Source(to, from) == {tensors[from].producer}

CopyAfter(to, from) == {tensors[to].producer, tensors[from].producer}

CopyInto(to, at, from) ==
  LET n == Length[from]
      copies == <<Copy(<<"tensor", to>>, at, <<"tensor", from>>, n)>>
  IN  /\ Room /\ to # from /\ at + n <= Length[to] /\ Usable(copies)
      /\ jobs' = Append(jobs, Job(copies, CopyAfter(to, from) \ {0}))
      /\ tensors' = [tensors EXCEPT ![to].producer = Next_,
                                    ![to].ideal = Moved(@, at, tensors[from].ideal)]
      /\ UNCHANGED <<staging, pool, readbacks>>

\* concatenate of two inputs into a new tensor.
Concatenate(to, a, b) ==
  LET copies == <<Copy(<<"tensor", to>>, 0, <<"tensor", a>>, Length[a]),
                  Copy(<<"tensor", to>>, Length[a], <<"tensor", b>>, Length[b])>>
  IN  /\ Room /\ to \notin {a, b} /\ Length[to] = Length[a] + Length[b] /\ Usable(copies)
      /\ tensors[to].producer = 0
      /\ jobs' = Append(jobs, Job(copies, {tensors[a].producer, tensors[b].producer} \ {0}))
      /\ tensors' = [tensors EXCEPT ![to].producer = Next_,
                                    ![to].ideal = tensors[a].ideal \o tensors[b].ideal]
      /\ UNCHANGED <<staging, pool, readbacks>>

Download(t) ==
  LET n == Length[t]
      buffer == Taken(n)
      copies == <<Copy(<<"staging", buffer>>, 0, <<"tensor", t>>, n)>>
  IN  /\ Room /\ ~tensors[t].poison /\ ~StagingAfter(n)[buffer].poison
      /\ staging' = StagingAfter(n) /\ pool' = PoolAfter(n)
      /\ jobs' = Append(jobs, Job(copies, {tensors[t].producer} \ {0}))
      /\ readbacks' = readbacks \union
           {[job |-> Next_, buffer |-> buffer, wanted |-> tensors[t].ideal, got |-> <<>>,
             state |-> "open"]}
      /\ UNCHANGED tensors

\* wait, poll and bytes: the bytes are copied out and the staging recycled.
ReadbackReady(r) ==
  /\ r.state = "open" /\ Succeeded(r.job) /\ ~staging[r.buffer].poison
  /\ readbacks' = (readbacks \ {r}) \union
       {[r EXCEPT !.state = "read", !.got = SubSeq(staging[r.buffer].cells, 1, Len(r.wanted))]}
  /\ pool' = IF Budgeted THEN pool ELSE Recycled(pool, r.buffer, r.job)
  /\ UNCHANGED <<tensors, staging, jobs>>

DropReadback(r) ==
  /\ r.state = "open" /\ readbacks' = (readbacks \ {r}) \union {[r EXCEPT !.state = "dropped"]}
  /\ UNCHANGED <<tensors, staging, pool, jobs>>

TransferNext ==
  \/ \E t \in Tensors : Upload(t) \/ UploadRefused(t) \/ Download(t)
  \/ \E to, from \in Tensors, at \in 0 .. 1 : CopyInto(to, at, from)
  \/ \E to, a, b \in Tensors : Concatenate(to, a, b)
  \/ \E j \in DOMAIN jobs : JobRun(j) \/ JobFails(j) \/ JobRefused(j) \/ JobCancelled(j)
  \/ \E r \in readbacks : ReadbackReady(r) \/ DropReadback(r)

TransferSpec == TransferInit /\ [][TransferNext]_transferVars
-----------------------------------------------------------------------------
\* A readback that succeeds returns the bytes the calls before it say the
\* tensor has, whatever was reused or failed meanwhile; a failed or cancelled
\* producer anywhere behind it makes it fail (inference.rs:130-325).
ReadbackExact == \A r \in readbacks : r.state = "read" => r.got = r.wanted

\* Pooled staging is quiet where it is taken: no two unfinished jobs use one
\* host buffer, an open readback's buffer is in nobody else's hands, and the
\* pool keeps to its limit (inference.rs:16-48).
StagingQuiet ==
  /\ Len(pool) <= PoolEntries
  /\ \A j, k \in DOMAIN jobs : j # k /\ ~IsComplete(j) /\ ~IsComplete(k) =>
       \A s \in DOMAIN staging : ~(<<"staging", s>> \in Places(jobs[j]) \intersect Places(jobs[k]))
  /\ \A r \in readbacks : r.state = "open" =>
       \A i \in DOMAIN pool : pool[i].buffer # r.buffer
=============================================================================
