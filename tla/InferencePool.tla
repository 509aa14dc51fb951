---------------------------- MODULE InferencePool ----------------------------
(***************************************************************************)
(* PreparedModel: a bounded pool of inference slots.  A caller reserves a  *)
(* slot without waiting, by blocking or by polling a future; it stages its *)
(* inputs, runs the slot's graph, may read the outputs back, and releases  *)
(* the slot when the last reference of its lease is dropped.               *)
(*                                                                         *)
(* The pool's mutex is `holder': acquire_locked reads completions, which   *)
(* change under other locks, several times while it is held, so it is      *)
(* several steps here.  Device work is the promise of the scheduler: the   *)
(* conflicting jobs of a slot execute in submission order, and a cancelled *)
(* job that has not started ends without waiting for its producers.        *)
(***************************************************************************)
EXTENDS Integers, FiniteSets

CONSTANTS
  Capacities, \* numbers of slots a model may be prepared with
  Callers,   \* threads and tasks that use the model
  Modes,     \* the ways of acquiring: "try", "block", "async"
  Staging,   \* whether a call needs a staging copy, as its tensors decide
  Failing,   \* whether device work may fail
  MaxLeases, \* bound on the acquisitions that are asked for
  MaxJobs    \* bound on the device submissions

ASSUME PoolAssumption ==
  /\ Capacities \subseteq Nat \ {0} /\ IsFiniteSet(Callers)
  /\ Modes \subseteq {"try", "block", "async"}
  /\ Staging \subseteq BOOLEAN /\ Failing \in BOOLEAN
  /\ MaxLeases \in Nat /\ MaxJobs \in Nat

Leases == 1 .. MaxLeases
Jobs   == 1 .. MaxJobs
NoJob  == [slot |-> 0, lease |-> 0, kind |-> "none", after |-> 0,
           status |-> "none", cancel |-> FALSE]

VARIABLES
  leased, completion,   \* SlotState: reserved, and the last job (0 if none)
  usable,               \* the slot's graph and storage are not quarantined
  wakers, holder,       \* PoolState::wakers, and who holds its mutex (0 if nobody)
  jobs, watchers,       \* submissions, and the tasks registered with their signals
  at, how, lease, slot, job, failure,   \* the position and the locals of a caller
  exported,             \* leases that a clone of an output tensor keeps alive
  asked                 \* acquisitions asked for so far

slotVars   == <<leased, completion, usable>>
jobVars    == <<jobs, watchers>>
callerVars == <<how, lease, slot, job, failure>>
vars == <<slotVars, wakers, holder, jobVars, at, callerVars, exported, asked>>

Slots == DOMAIN leased
Init ==
  /\ \E capacity \in Capacities : leased = [s \in 1 .. capacity |-> FALSE]
  /\ completion = [s \in Slots |-> 0]
  /\ usable = [s \in Slots |-> TRUE]
  /\ wakers = {} /\ holder = 0
  /\ jobs = [j \in Jobs |-> NoJob] /\ watchers = [j \in Jobs |-> {}]
  /\ at = [c \in Callers |-> "idle"] /\ how = [c \in Callers |-> "none"]
  /\ lease = [c \in Callers |-> 0] /\ slot = [c \in Callers |-> 0]
  /\ job = [c \in Callers |-> 0] /\ failure = [c \in Callers |-> FALSE]
  /\ exported = {} /\ asked = 0

Terminal == {"ok", "failed", "cancelled"}
IsComplete(j) == jobs[j].status \in Terminal
Drained(s) == completion[s] = 0 \/ IsComplete(completion[s])
Go(c, where) == at' = [at EXCEPT ![c] = where]
\* The call returns: its locals are gone.
Return(c) ==
  /\ how' = [how EXCEPT ![c] = "none"] /\ lease' = [lease EXCEPT ![c] = 0]
  /\ slot' = [slot EXCEPT ![c] = 0] /\ job' = [job EXCEPT ![c] = 0]
  /\ failure' = [failure EXCEPT ![c] = FALSE]
-----------------------------------------------------------------------------
(* Acquisition. *)

Ask(c, mode) ==
  /\ at[c] = "idle" /\ asked < MaxLeases /\ mode \in Modes
  /\ asked' = asked + 1
  /\ lease' = [lease EXCEPT ![c] = asked + 1] /\ how' = [how EXCEPT ![c] = mode]
  /\ Go(c, "scan")
  /\ UNCHANGED <<slotVars, wakers, holder, jobVars, slot, job, failure, exported>>

\* Mutant: an output that is still exported does not keep its slot.
Available_Retained(s) == Drained(s)
\* A slot acquire_locked does not skip.
Available(s) == ~leased[s] /\ Drained(s)

\* The loop of acquire_locked: the first available slot that is not quarantined.
Scan(c) ==
  /\ at[c] = "scan" /\ holder = 0
  /\ LET healthy == {s \in Slots : Available(s) /\ usable[s]} IN
     \/ /\ \E s \in healthy :
             /\ \A t \in healthy : s <= t
             /\ leased' = [leased EXCEPT ![s] = TRUE]
             /\ completion' = [completion EXCEPT ![s] = 0]
             /\ slot' = [slot EXCEPT ![c] = s]
        /\ Go(c, "slot")
        /\ UNCHANGED <<holder, failure>>
     \/ /\ healthy = {}
        /\ failure' = [failure EXCEPT ![c] = \E s \in Slots : Available(s)]
        /\ holder' = c /\ Go(c, "classify")
        /\ UNCHANGED <<leased, completion, slot>>
  /\ UNCHANGED <<usable, wakers, jobVars, how, lease, job, exported, asked>>

\* The end of acquire_locked: the failure of a slot if none can come back, or Busy.
Classify(c) ==
  /\ at[c] = "classify" /\ holder = c
  /\ LET lost == failure[c] /\ \A s \in Slots : ~leased[s] /\ Drained(s) IN
     /\ Go(c, CASE lost -> "failed"
                [] ~lost /\ how[c] = "try" -> "busy"
                [] ~lost /\ how[c] = "block" -> "find"
                [] OTHER -> "register")
     /\ holder' = IF lost \/ how[c] = "try" THEN 0 ELSE c
  /\ UNCHANGED <<slotVars, wakers, jobVars, callerVars, exported, asked>>
Answer(c) ==
  /\ at[c] \in {"failed", "busy"} /\ Go(c, "idle") /\ Return(c)
  /\ UNCHANGED <<slotVars, wakers, holder, jobVars, exported, asked>>

\* acquire_blocking after Busy: wait for a running job, or for a released lease.
Find(c) ==
  /\ at[c] = "find" /\ holder' = 0
  /\ LET running == {s \in Slots : ~leased[s] /\ ~Drained(s)} IN
     \/ /\ \E s \in running : /\ \A t \in running : s <= t
                             /\ job' = [job EXCEPT ![c] = completion[s]]
        /\ Go(c, "drain")
     \/ running = {} /\ Go(c, "changed") /\ UNCHANGED job
  /\ UNCHANGED <<slotVars, wakers, jobVars, how, lease, slot, failure, exported, asked>>
Drain(c) ==
  /\ at[c] = "drain" /\ IsComplete(job[c]) /\ Go(c, "scan")
  /\ job' = [job EXCEPT ![c] = 0]
  /\ UNCHANGED <<slotVars, wakers, holder, jobVars, how, lease, slot, failure, exported, asked>>

\* Mutant: only the pool's own list is told of the task.
Register_Pool(c) ==
  /\ at[c] = "register" /\ holder' = 0 /\ wakers' = wakers \union {c}
  /\ Go(c, "parked")
  /\ UNCHANGED <<slotVars, jobVars, callerVars, exported, asked>>
\* AcquireSlot::poll after Busy: register with every running job and with the pool,
\* and ask to be polled again if a job has completed meanwhile.
Register(c) ==
  /\ at[c] = "register" /\ holder' = 0
  /\ LET polled == {s \in Slots : ~leased[s] /\ completion[s] # 0}
         ready == \E s \in polled : IsComplete(completion[s])
     IN /\ watchers' = [j \in Jobs |-> IF \E s \in polled : completion[s] = j /\ ~IsComplete(j)
                                       THEN watchers[j] \union {c} ELSE watchers[j]]
        /\ Go(c, IF ready THEN "scan" ELSE "parked")
  /\ wakers' = wakers \union {c}
  /\ UNCHANGED <<slotVars, jobs, callerVars, exported, asked>>
\* The application drops the future.
Abandon(c) ==
  /\ at[c] = "parked" /\ Go(c, "idle") /\ Return(c)
  /\ UNCHANGED <<slotVars, wakers, holder, jobVars, exported, asked>>
-----------------------------------------------------------------------------
(* Use of a reserved slot. *)

Submitted == {j \in Jobs : jobs[j].status # "none"}
\* ExecutableGraph::submit_after, when the scheduler accepts the submission.
Enqueue(c, kind, after) ==
  \E j \in Jobs \ Submitted :
    /\ \A k \in Jobs \ Submitted : j <= k
    /\ jobs' = [jobs EXCEPT ![j] = [slot |-> slot[c], lease |-> lease[c], kind |-> kind,
                                    after |-> after, status |-> "pending", cancel |-> FALSE]]
    /\ job' = [job EXCEPT ![c] = j]

\* submit_host_with and submit: write the inputs; a staging copy is a job of its own.
Stage(c) ==
  /\ at[c] = "slot"
  /\ \/ TRUE \in Staging /\ Enqueue(c, "stage", 0) /\ Go(c, "record_stage")
     \/ FALSE \in Staging /\ job' = [job EXCEPT ![c] = 0] /\ Go(c, "execute") /\ UNCHANGED jobs
  /\ UNCHANGED <<slotVars, wakers, holder, watchers, how, lease, slot, failure, exported, asked>>
Execute(c) ==
  /\ at[c] = "execute" /\ usable[slot[c]]
  /\ Enqueue(c, "graph", job[c]) /\ Go(c, "record_graph")
  /\ UNCHANGED <<slotVars, wakers, holder, watchers, how, lease, slot, failure, exported, asked>>
Download(c) ==
  /\ at[c] = "inference"
  /\ \/ TRUE \in Staging /\ Enqueue(c, "download", job[c])
     \/ FALSE \in Staging /\ UNCHANGED <<jobs, job>>
  /\ Go(c, "record_download")
  /\ UNCHANGED <<slotVars, wakers, holder, watchers, how, lease, slot, failure, exported, asked>>

Recording == [record_stage |-> "execute", record_graph |-> "inference",
              record_download |-> "readback"]
\* Mutant: the staging copy is not recorded in the slot.
Record_NotStage(c) ==
  /\ at[c] \in DOMAIN Recording /\ holder = 0
  /\ completion' = IF at[c] = "record_stage" THEN completion
                   ELSE [completion EXCEPT ![slot[c]] = job[c]]
  /\ Go(c, Recording[at[c]])
  /\ UNCHANGED <<leased, usable, wakers, holder, jobVars, callerVars, exported, asked>>
\* Each submission becomes the slot's completion.
Record(c) ==
  /\ at[c] \in DOMAIN Recording /\ holder = 0
  /\ completion' = [completion EXCEPT ![slot[c]] = job[c]]
  /\ Go(c, Recording[at[c]])
  /\ UNCHANGED <<leased, usable, wakers, holder, jobVars, callerVars, exported, asked>>

\* The caller keeps an output tensor, whose clone of the lease reserves the slot.
Export(c) ==
  /\ at[c] = "inference" /\ lease[c] \notin exported
  /\ exported' = exported \union {lease[c]}
  /\ UNCHANGED <<slotVars, wakers, holder, jobVars, at, callerVars, asked>>
Cancel(c) ==
  /\ at[c] \in {"inference", "readback"} /\ ~jobs[job[c]].cancel
  /\ jobs' = [jobs EXCEPT ![job[c]].cancel = TRUE]
  /\ UNCHANGED <<slotVars, wakers, holder, watchers, at, callerVars, exported, asked>>

\* The callers a released lease wakes; a task elsewhere polls on its own.
Wake(tasks, position) ==
  [c \in Callers |-> IF position[c] = "changed" \/ (position[c] = "parked" /\ c \in tasks)
                     THEN "scan" ELSE position[c]]
\* Mutant: only blocked threads are told of the released slot.
LeaseDrop_Threads(s, position) ==
  /\ holder = 0
  /\ leased' = [leased EXCEPT ![s] = FALSE] /\ wakers' = wakers
  /\ at' = Wake({}, position)
\* Lease::drop.
LeaseDrop(s, position) ==
  /\ holder = 0
  /\ leased' = [leased EXCEPT ![s] = FALSE] /\ wakers' = {}
  /\ at' = Wake(wakers, position)

\* The end of a ModelSlot, Inference or InferenceReadback, or an error in one of them.
Drop(c) ==
  /\ at[c] \in {"slot", "execute", "inference", "readback"}
  /\ LET left == [at EXCEPT ![c] = "idle"] IN
     IF lease[c] \in exported THEN at' = left /\ UNCHANGED <<leased, wakers>>
     ELSE LeaseDrop(slot[c], left)
  /\ Return(c)
  /\ UNCHANGED <<completion, usable, holder, jobVars, exported, asked>>
Holds(c, l) ==
  lease[c] = l /\ at[c] \in {"slot", "execute", "inference", "readback"} \union DOMAIN Recording
\* The last clone of an exported output goes.
DropOutput(l, s) ==
  /\ l \in exported /\ \E j \in Jobs : jobs[j].lease = l /\ jobs[j].slot = s
  /\ exported' = exported \ {l}
  /\ IF \E c \in Callers : Holds(c, l) THEN UNCHANGED <<leased, wakers, at>>
     ELSE LeaseDrop(s, at)
  /\ UNCHANGED <<completion, usable, holder, jobVars, callerVars, asked>>
-----------------------------------------------------------------------------
(* Device work, as the scheduler runs it. *)

Clash(a, b) == {a, b} \notin {{"stage", "download"}}
Blocked(j) == \E k \in Jobs : k < j /\ jobs[k].slot = jobs[j].slot /\ ~IsComplete(k)
                                /\ Clash(jobs[k].kind, jobs[j].kind)
\* The signal is published: its waiters and registered tasks run again.
Publish(j, status) ==
  /\ jobs' = [jobs EXCEPT ![j].status = status]
  /\ watchers' = [watchers EXCEPT ![j] = {}]
  /\ at' = [c \in Callers |-> IF at[c] = "parked" /\ c \in watchers[j] THEN "scan" ELSE at[c]]
JobStart(j) ==
  /\ jobs[j].status = "pending" /\ ~jobs[j].cancel /\ ~Blocked(j)
  /\ jobs[j].after # 0 => jobs[jobs[j].after].status = "ok"
  /\ jobs' = [jobs EXCEPT ![j].status = "running"]
  /\ UNCHANGED <<slotVars, wakers, holder, watchers, at, callerVars, exported, asked>>
JobFinish(j, fails) ==
  /\ jobs[j].status = "running"
  /\ fails => Failing
  /\ ~usable[jobs[j].slot] => fails
  /\ Publish(j, CASE fails -> "failed"
                  [] ~fails /\ jobs[j].cancel -> "cancelled"
                  [] ~fails /\ ~jobs[j].cancel -> "ok")
  /\ usable' = [usable EXCEPT ![jobs[j].slot] = @ /\ ~fails]
  /\ UNCHANGED <<leased, completion, wakers, holder, callerVars, exported, asked>>
JobStop(j) ==
  /\ jobs[j].status = "pending"
  /\ \/ jobs[j].cancel /\ Publish(j, "cancelled")
     \/ /\ jobs[j].after # 0 /\ jobs[jobs[j].after].status \in {"failed", "cancelled"}
        /\ Publish(j, "failed")
  /\ UNCHANGED <<slotVars, wakers, holder, callerVars, exported, asked>>
-----------------------------------------------------------------------------
Acquiring(c) == Scan(c) \/ Classify(c) \/ Find(c) \/ Drain(c) \/ Register(c)
Using(c) == Stage(c) \/ Execute(c) \/ Download(c) \/ Record(c)
Device(j) == JobStart(j) \/ (\E fails \in BOOLEAN : JobFinish(j, fails)) \/ JobStop(j)

Next ==
  \/ \E c \in Callers : \/ \E mode \in Modes : Ask(c, mode)
                        \/ Acquiring(c) \/ Answer(c) \/ Abandon(c)
                        \/ Using(c) \/ Export(c) \/ Cancel(c) \/ Drop(c)
  \/ \E l \in Leases, s \in Slots : DropOutput(l, s)
  \/ \E j \in Jobs : Device(j)

Spec == Init /\ [][Next]_vars

\* Threads run and take the mutex, devices return, and applications use up what they hold.
Fairness ==
  /\ \A c \in Callers : SF_vars(Acquiring(c) \/ Record(c) \/ Drop(c))
  /\ SF_vars(\E l \in Leases, s \in Slots : DropOutput(l, s))
  /\ WF_vars(\E j \in Jobs : Device(j))
FairSpec == Spec /\ Fairness
-----------------------------------------------------------------------------
(* Properties. *)

\* The leases somebody still refers to, and the slot each reserves.
Live(l, s) == \/ \E c \in Callers : Holds(c, l) /\ slot[c] = s
              \/ l \in exported /\ \E j \in Jobs : jobs[j].lease = l /\ jobs[j].slot = s

\* acquire_locked and Lease::drop: a slot is reserved exactly while one lease, held by a
\* ModelSlot, an Inference, a readback or an exported output, refers to it.
LeaseExclusive ==
  \A s \in Slots : Cardinality({l \in Leases : Live(l, s)}) = IF leased[s] THEN 1 ELSE 0

\* "exported outputs keep the slot reserved": once a live lease's graph has succeeded no
\* other submission that writes the slot's outputs is queued or running, although a slot
\* may be reserved again while a job of its previous lease still runs.
OutputsStable ==
  \A j, k \in Jobs :
    /\ jobs[j].kind = "graph" /\ jobs[j].status = "ok" /\ Live(jobs[j].lease, jobs[j].slot)
    /\ jobs[k].kind = "graph" /\ jobs[k].slot = jobs[j].slot
    => IsComplete(k)

\* ModelSlot::submit_host_with, execute and Inference::download record the last accepted
\* job only: a slot is handed out with every earlier job complete, unless its previous
\* user cancelled a later one.
DrainedUnlessCancelled ==
  \A c \in Callers, j \in Submitted :
    at[c] = "slot" /\ jobs[j].slot = slot[c] /\ ~IsComplete(j)
      => \E k \in Jobs : jobs[k].lease = jobs[j].lease /\ jobs[k].cancel

\* Every request for a slot returns: a slot, Busy or an error.
Asking(c) == at[c] \in {"scan", "classify", "find", "drain", "changed", "register", "parked"}
RequestsReturn == \A c \in Callers : Asking(c) ~> ~Asking(c)
\* The future of AcquireSlot is resolved when capacity comes back, whoever releases it.
FuturesResolve == \A c \in Callers : Asking(c) /\ how[c] = "async" ~> ~Asking(c)

\* is_idle: "every slot is unleased and drained, suitable for idle cache eviction".
IsIdle == \A s \in Slots : ~leased[s] /\ Drained(s)
IdleDrained == IsIdle => \A j \in Submitted : IsComplete(j)

\* "Native failures do: leave that slot disabled, but try healthy peers": an acquisition
\* fails with a slot's failure only when no slot is healthy.
HealthyPeersTried == \A c \in Callers : at[c] = "failed" => \A s \in Slots : ~usable[s]
=============================================================================
