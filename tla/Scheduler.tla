------------------------------ MODULE Scheduler ------------------------------
(***************************************************************************)
(* The execution core of hrx: prepared graphs are submitted to a bounded   *)
(* scheduler, worker threads and blocking callers run their regions on     *)
(* five lanes, conflicting submissions are ordered by counting blockers,   *)
(* native sessions take the compute lane by FIFO ticket, host mappings and *)
(* external handoffs reserve allocations, and every submission publishes   *)
(* one outcome to its completion signal.                                   *)
(*                                                                         *)
(* One action is one critical section of the scheduler mutex, or one step  *)
(* a thread takes outside it.  The vector `pending' is kept in submission  *)
(* order by the code, so it is the set of its sequence numbers here; the   *)
(* deque `native' receives increasing tickets, so its front is its least   *)
(* element.  A failure message is the fact that there is one.              *)
(***************************************************************************)
EXTENDS Integers, FiniteSets

CONSTANTS
  Workers,      \* threads of Runtime::with_options
  Clients,      \* application threads
  Submitters,   \* the clients that submit, wait, cancel
  Natives,      \* the clients that run native stages
  Hosts,        \* the clients that map buffers and hand them to a stream
  Cancellers,   \* the submitters that cancel
  Droppers,     \* the clients that may drop the last handle of the runtime
  Failing,      \* the graphs whose device work may fail
  Spurious,     \* the threads whose condition waits may return without a notification
  Graphs,       \* prepared graphs
  Slots,        \* preallocated run slots of each graph
  Storages,     \* tracked allocations
  Shared,       \* the allocations imported into a second device
  Operations,   \* graph -> sequence of [lane, dependencies, uses]
  Capacity,     \* RuntimeOptions::max_submissions
  MaxSequence,  \* bound on the sequence numbers a behaviour issues
  StageAwaits,  \* whether a native stage may await a completion without helping
  None          \* the absent run or graph

Lanes   == 0 .. 4
Compute == 1
Runs    == Graphs \X Slots
Tickets == 0 .. (MaxSequence - 1)
Threads == Workers \union Clients
Nodes(g) == DOMAIN Operations[g]
AllNodes == UNION {Nodes(g) : g \in Graphs}

ASSUME SchedulerAssumption ==
  /\ Workers \intersect Clients = {} /\ IsFiniteSet(Clients)
  /\ Submitters \subseteq Clients /\ Natives \subseteq Clients /\ Hosts \subseteq Clients
  /\ Cancellers \subseteq Submitters /\ Droppers \subseteq Clients
  /\ Failing \subseteq Graphs /\ Spurious \subseteq Threads
  /\ Slots \subseteq Nat
  /\ Shared \subseteq Storages
  /\ Capacity \in Nat \ {0}
  /\ MaxSequence \in Nat
  /\ StageAwaits \in BOOLEAN
  /\ None \notin Runs \union Graphs
  /\ \A g \in Graphs : \A n \in Nodes(g) :
       /\ n \in Nat
       /\ Operations[g][n].lane \in Lanes
       /\ Operations[g][n].dependencies \subseteq {m \in Nodes(g) : m < n}
       /\ \A u \in Operations[g][n].uses : u.storage \in Storages

VARIABLES
  pending, finishing, running, sequence, last_started, next_lane, native,
  native_active, shutdown,                                   \* Scheduler
  run, dependencies, blockers,                               \* Pending
  nodes, occupied, failure,                                  \* Slot
  done, failed, cancelled, cancel,                           \* Signal
  quarantined, poison, readers, writer, external,            \* Prepared, HostState
  changed, host_changed,                                     \* condition variables
  at, cur, node, carried, graph, after, held,                \* threads
  leases,                                                    \* NativeLease holders
  app, leaked,                                               \* owners of RuntimeOwner
  handles,                                                   \* live Completion values
  requested, result                                          \* history of each ticket

schedulerVars == <<pending, finishing, running, sequence, last_started, next_lane,
                   native, native_active, shutdown>>
pendingVars   == <<run, dependencies, blockers>>
slotVars      == <<nodes, occupied, failure>>
signalVars    == <<done, failed, cancelled, cancel>>
storageVars   == <<quarantined, poison, readers, writer, external>>
waitVars      == <<changed, host_changed>>
threadVars    == <<at, cur, node, carried>>
callVars      == <<graph, after, held>>
ownerVars     == <<app, leaked>>
historyVars   == <<requested, result>>
vars == <<schedulerVars, pendingVars, slotVars, signalVars, storageVars, waitVars,
          threadVars, callVars, leases, ownerVars, handles, historyVars>>

Init ==
  /\ pending = {} /\ finishing = {} /\ running = [l \in Lanes |-> FALSE]
  /\ sequence = 0 /\ last_started = [l \in Lanes |-> -1] /\ next_lane = 0
  /\ native = {} /\ native_active = FALSE /\ shutdown = FALSE
  /\ run = [q \in Tickets |-> None] /\ dependencies = [q \in Tickets |-> {}]
  /\ blockers = [q \in Tickets |-> 0]
  /\ nodes = [r \in Runs |-> [n \in Nodes(r[1]) |-> "Pending"]]
  /\ occupied = [r \in Runs |-> FALSE] /\ failure = [r \in Runs |-> FALSE]
  /\ done = [r \in Runs |-> TRUE] /\ failed = [r \in Runs |-> FALSE]
  /\ cancelled = [r \in Runs |-> FALSE] /\ cancel = [r \in Runs |-> FALSE]
  /\ quarantined = [g \in Graphs |-> FALSE] /\ poison = [s \in Storages |-> FALSE]
  /\ readers = [s \in Storages |-> 0] /\ writer = [s \in Storages |-> FALSE]
  /\ external = [s \in Storages |-> FALSE]
  /\ changed = {} /\ host_changed = {}
  /\ at = [t \in Threads |-> IF t \in Workers THEN "poll" ELSE "idle"]
  /\ cur = [t \in Threads |-> 0] /\ node = [t \in Threads |-> 0]
  /\ carried = [t \in Threads |-> FALSE] /\ graph = [c \in Clients |-> None]
  /\ after = [c \in Clients |-> {}] /\ held = [c \in Clients |-> {}]
  /\ leases = {} /\ app = TRUE /\ leaked = FALSE
  /\ handles = [c \in Clients |-> {}]
  /\ requested = [q \in Tickets |-> FALSE] /\ result = [q \in Tickets |-> "none"]

-----------------------------------------------------------------------------
(* Accesses.  A byte range is one of the disjoint regions of an allocation. *)

Uses(g) == UNION {Operations[g][n].uses : n \in Nodes(g)}
Clash(u, v) ==
  /\ u.storage = v.storage
  /\ u.storage \in Shared \/ u.region = v.region
  /\ u.write \/ v.write
Conflicts(g, h) == \E u \in Uses(g), v \in Uses(h) : Clash(u, v)
Parallel(g) == \E n \in Nodes(g) : n > 1 /\ n - 1 \notin Operations[g][n].dependencies

Graph(q) == run[q][1]
Lane(q, n) == Operations[Graph(q)][n].lane

\* Scheduler::conflicts for a view of the whole allocation.
DeviceConflict(s, write) ==
  \E q \in pending : \E u \in Uses(Graph(q)) : u.storage = s /\ (write \/ u.write)
\* Storage::host_conflict, and the same test in Buffer::acquire_with.
\* Mutant: poisoned storage is not refused.
HostConflict_Healthy(s, write) == external[s] \/ writer[s] \/ (write /\ readers[s] # 0)
\* Mutant: readers do not keep a writer out.
HostConflict_Readers(s, write) == poison[s] \/ external[s] \/ writer[s]
HostConflict(s, write) ==
  poison[s] \/ external[s] \/ writer[s] \/ (write /\ readers[s] # 0)

Occupied == Cardinality(pending) + Cardinality(finishing) + Cardinality(native)
              + (IF native_active THEN 1 ELSE 0)

\* Completion values keep their signal from being reset.
Observed(r) ==
  \/ \E c \in Clients : \E q \in handles[c] : run[q] = r
  \/ \E p \in Tickets : \E q \in dependencies[p] : run[q] = r
\* Mutant: a slot is reused while its completion is still observed.
FreeSlot_Unobserved(r) == ~occupied[r] /\ done[r]
\* Mutant: a slot is reused before its signal is done.
FreeSlot_NotDone(r) == ~occupied[r] /\ ~Observed(r)
FreeSlot(r) == ~occupied[r] /\ ~Observed(r) /\ done[r]

Loop(t) == IF t \in Workers THEN "poll" ELSE "help"
\* The locals of perform and of a call go out of scope; a helper keeps its target.
LeavePerform(t) ==
  /\ at' = [at EXCEPT ![t] = Loop(t)]
  /\ cur' = [cur EXCEPT ![t] = IF t \in Workers THEN 0 ELSE @]
  /\ node' = [node EXCEPT ![t] = 0]
  /\ carried' = [carried EXCEPT ![t] = FALSE]
LeaveSubmit(c, pc) ==
  /\ at' = [at EXCEPT ![c] = pc]
  /\ graph' = [graph EXCEPT ![c] = None]
  /\ after' = [after EXCEPT ![c] = {}]
LeaveHost(c) ==
  /\ at' = [at EXCEPT ![c] = "idle"]
  /\ held' = [held EXCEPT ![c] = {}]
-----------------------------------------------------------------------------
(* Submission: ExecutableGraph::submit_after. *)

\* usable() reads the quarantine and poison flags before the lock is taken.
CheckUsable(c, g, ds) ==
  /\ c \in Submitters /\ at[c] = "idle" /\ app
  /\ ds \subseteq handles[c]
  /\ ~quarantined[g] /\ \A u \in Uses(g) : ~poison[u.storage]
  /\ at' = [at EXCEPT ![c] = "submit"]
  /\ graph' = [graph EXCEPT ![c] = g]
  /\ after' = [after EXCEPT ![c] = ds]
  /\ UNCHANGED <<schedulerVars, pendingVars, slotVars, signalVars, storageVars, waitVars,
                 cur, node, carried, held, leases, ownerVars, handles, historyVars>>

\* Mutant: one submission too many.
Admissible_OffByOne(g) ==
  /\ Occupied <= Capacity
  /\ \A u \in Uses(g) : ~HostConflict(u.storage, u.write)
Admissible(g) ==
  /\ Occupied < Capacity
  /\ \A u \in Uses(g) : ~HostConflict(u.storage, u.write)

\* The pending jobs a new submission of graph g has to wait for.
EarlierConflicts(g) == {p \in pending : Conflicts(Graph(p), g)}

Enqueue(r, ds) ==
  /\ pending' = pending \union {sequence}
  /\ sequence' = sequence + 1
  /\ run' = [run EXCEPT ![sequence] = r]
  /\ dependencies' = [dependencies EXCEPT ![sequence] = ds]
  /\ blockers' = [blockers EXCEPT ![sequence] =
                    Cardinality(EarlierConflicts(r[1]))]

\* The slot and its signal are reset, and the caller gets a completion.
Accept(c, r) ==
  /\ Enqueue(r, after[c])
  /\ done' = [done EXCEPT ![r] = FALSE]
  /\ failed' = [failed EXCEPT ![r] = FALSE]
  /\ cancelled' = [cancelled EXCEPT ![r] = FALSE]
  /\ cancel' = [cancel EXCEPT ![r] = FALSE]
  /\ nodes' = [nodes EXCEPT ![r] = [n \in Nodes(r[1]) |-> "Pending"]]
  /\ failure' = [failure EXCEPT ![r] = FALSE]
  /\ occupied' = [occupied EXCEPT ![r] = TRUE]
  /\ handles' = [handles EXCEPT ![c] = @ \union {sequence}]
  /\ LeaveSubmit(c, "notify")
  /\ UNCHANGED <<finishing, running, last_started, next_lane, native, native_active,
                 shutdown, storageVars, waitVars, cur, node, carried, held, leases,
                 ownerVars, historyVars>>

Submit(c) ==
  /\ at[c] = "submit" /\ sequence < MaxSequence
  /\ Admissible(graph[c])
  /\ \E s \in Slots :
       /\ FreeSlot(<<graph[c], s>>)
       /\ \A z \in Slots : z < s => ~FreeSlot(<<graph[c], z>>)
       /\ Accept(c, <<graph[c], s>>)

\* The Busy and DeviceLost returns; the bound on sequence ends a call the same way.
SubmitRejected(c) ==
  /\ at[c] = "submit"
  /\ \/ ~Admissible(graph[c])
     \/ \A s \in Slots : ~FreeSlot(<<graph[c], s>>)
     \/ sequence >= MaxSequence
  /\ LeaveSubmit(c, "idle")
  /\ UNCHANGED <<schedulerVars, pendingVars, slotVars, signalVars, storageVars, waitVars,
                 cur, node, carried, held, leases, ownerVars, handles, historyVars>>

\* Mutant: the notification is lost.
WakeOne_Lost == changed' = changed
WakeOne == IF changed = {} THEN changed' = changed
           ELSE \E t \in changed : changed' = changed \ {t}

NotifyOne(c) ==
  /\ at[c] = "notify"
  /\ WakeOne
  /\ at' = [at EXCEPT ![c] = "idle"]
  /\ UNCHANGED <<schedulerVars, pendingVars, slotVars, signalVars, storageVars,
                 host_changed, cur, node, carried, callVars, leases, ownerVars, handles,
                 historyVars>>
-----------------------------------------------------------------------------
(* next_action: what a worker, or a caller helping its own submission, does *)
(* next.  The scan marks the nodes of stopped jobs as it passes them.       *)

\* Mutant: a cancelled producer counts as success.
DependencyFailed_Cancelled(q) ==
  \E d \in dependencies[q] : done[run[d]] /\ failed[run[d]]
DependencyFailed(q) ==
  \E d \in dependencies[q] : done[run[d]] /\ (failed[run[d]] \/ cancelled[run[d]])
Waiting(q) == \E d \in dependencies[q] : ~done[run[d]]
Stopped(q) == cancel[run[q]] \/ failure[run[q]] \/ DependencyFailed(q)
AllDone(q) ==
  \A n \in Nodes(Graph(q)) :
    nodes[run[q]][n] = "Done" \/ (Stopped(q) /\ nodes[run[q]][n] = "Pending")
Target(t, q) == t \in Workers \/ run[q] = run[cur[t]]
Finishable(t) == {q \in pending : AllDone(q) /\ Target(t, q)}

ScanNodes(S) ==
  [r \in Runs |->
    IF \E q \in S : run[q] = r /\ Stopped(q)
    THEN [n \in Nodes(r[1]) |-> IF nodes[r][n] = "Pending" THEN "Done" ELSE nodes[r][n]]
    ELSE nodes[r]]
ScanFailure(S) ==
  [r \in Runs |-> failure[r] \/ \E q \in S : run[q] = r /\ DependencyFailed(q)]

\* The lane is idle and, for compute, no earlier native ticket waits for it.
\* Mutant: the lane itself is not tested.
LaneFree_Native(lane, q) == lane = Compute => \A k \in native : q < k
LaneFree(lane, q) == ~running[lane] /\ (lane = Compute => \A k \in native : q < k)

\* Mutant: the blocker count is not tested.
Unblocked_Uncounted(q) == ~Waiting(q)
Unblocked(q) == blockers[q] = 0 /\ ~Waiting(q)

\* Operation n of job q could start on its lane now.
Ready(lane, q, n) ==
  /\ n \in Nodes(Graph(q)) /\ Lane(q, n) = lane
  /\ ~Stopped(q) /\ Unblocked(q)
  /\ LaneFree(lane, q)
  /\ nodes[run[q]][n] = "Pending"
  /\ \A m \in Operations[Graph(q)][n].dependencies : nodes[run[q]][m] = "Done"
\* Jobs after the last one started on the lane come first, each part by sequence.
\* Mutant: always the oldest job first.
Before_Oldest(lane, p, q) == p < q
Before(lane, p, q) ==
  LET turn(x) == x <= last_started[lane]
  IN  (~turn(p) /\ turn(q)) \/ (turn(p) = turn(q) /\ p < q)
Candidate(lane, q, n) ==
  /\ Ready(lane, q, n)
  /\ \A p \in pending, m \in AllNodes :
       Ready(lane, p, m) => Before(lane, q, p) \/ (p = q /\ n <= m)
Startable(t, lane) ==
  \E q \in pending, n \in AllNodes : Candidate(lane, q, n) /\ Target(t, q)
Offset(lane) == (lane + 5 - next_lane) % 5

Looking(t) == at[t] = Loop(t) /\ t \notin changed

\* Only later jobs counted the removed one, and only if they conflict with it.
\* Mutant: earlier jobs are decremented too.
Unblocks_Any(q, p) == p \in pending \ {q} /\ Conflicts(Graph(q), Graph(p))
Unblocks(q, p) == p \in pending /\ p > q /\ Conflicts(Graph(q), Graph(p))

\* Scheduler::remove, with the failure the slot carried.
Remove(t, q, passed) ==
  /\ nodes' = ScanNodes(passed)
  /\ failure' = [ScanFailure(passed) EXCEPT ![run[q]] = FALSE]
  /\ carried' = [carried EXCEPT ![t] = ScanFailure(passed)[run[q]]]
  /\ pending' = pending \ {q}
  /\ finishing' = finishing \union {q}
  /\ blockers' = [p \in Tickets |->
       IF Unblocks(q, p) THEN blockers[p] - 1 ELSE blockers[p]]
  /\ cur' = [cur EXCEPT ![t] = q]
  /\ at' = [at EXCEPT ![t] = "release"]
  /\ UNCHANGED <<running, sequence, last_started, next_lane, native, native_active,
                 shutdown, run, dependencies, occupied, signalVars, storageVars, waitVars,
                 node, callVars, leases, ownerVars, handles, historyVars>>

TakeFinish(t) ==
  /\ Looking(t)
  /\ \E q \in Finishable(t) :
       /\ \A p \in Finishable(t) : q <= p
       /\ Remove(t, q, {p \in pending : p <= q})

Start(t, lane, q, n) ==
  /\ nodes' = [ScanNodes(pending) EXCEPT ![run[q]][n] = "Running"]
  /\ failure' = ScanFailure(pending)
  /\ running' = [running EXCEPT ![lane] = TRUE]
  /\ last_started' = [last_started EXCEPT ![lane] = q]
  /\ next_lane' = (lane + 1) % 5
  /\ cur' = [cur EXCEPT ![t] = q]
  /\ node' = [node EXCEPT ![t] = n]
  /\ at' = [at EXCEPT ![t] = "begin"]
  /\ UNCHANGED <<pending, finishing, sequence, native, native_active, shutdown,
                 pendingVars, occupied, signalVars, storageVars, waitVars, carried,
                 callVars, leases, ownerVars, handles, historyVars>>

TakeRun(t) ==
  /\ Looking(t) /\ Finishable(t) = {}
  /\ \E lane \in Lanes, q \in pending, n \in AllNodes :
       /\ Candidate(lane, q, n) /\ Target(t, q)
       /\ \A other \in Lanes : Startable(t, other) => Offset(lane) <= Offset(other)
       /\ Start(t, lane, q, n)

\* Nothing to do: a worker returns or sleeps, a helper goes on to wait.
TakeNothing(t) ==
  /\ Looking(t) /\ Finishable(t) = {}
  /\ \A lane \in Lanes : ~Startable(t, lane)
  /\ nodes' = ScanNodes(pending) /\ failure' = ScanFailure(pending)
  /\ \/ /\ t \in Workers /\ shutdown /\ pending = {}
        /\ at' = [at EXCEPT ![t] = "exited"] /\ UNCHANGED changed
     \/ /\ t \in Workers /\ ~(shutdown /\ pending = {})
        /\ changed' = changed \union {t} /\ UNCHANGED at
     \/ /\ t \in Clients
        /\ at' = [at EXCEPT ![t] = "wait"] /\ UNCHANGED changed
  /\ UNCHANGED <<schedulerVars, pendingVars, occupied, signalVars, storageVars,
                 host_changed, cur, node, carried, callVars, leases, ownerVars, handles,
                 historyVars>>
-----------------------------------------------------------------------------
(* perform: run one operation. *)

\* An operation that meets a poisoned allocation fails before its backend runs.
Begin(t) ==
  LET g == Graph(cur[t]) IN
  /\ at[t] = "begin"
  /\ changed' = IF Parallel(g) THEN {} ELSE changed
  /\ carried' = [carried EXCEPT ![t] =
                   \E u \in Operations[g][node[t]].uses : poison[u.storage]]
  /\ at' = [at EXCEPT ![t] = "run"]
  /\ UNCHANGED <<schedulerVars, pendingVars, slotVars, signalVars, storageVars,
                 host_changed, cur, node, callVars, leases, ownerVars, handles, historyVars>>

CompleteRun(t, fails) ==
  LET q == cur[t]
      g == Graph(q)
  IN
  /\ at[t] = "run" /\ (carried[t] => fails) /\ (fails => carried[t] \/ g \in Failing)
  /\ running' = [running EXCEPT ![Lane(q, node[t])] = FALSE]
  /\ nodes' = [nodes EXCEPT ![run[q]][node[t]] = "Done"]
  /\ failure' = [failure EXCEPT ![run[q]] = @ \/ fails]
  /\ quarantined' = [quarantined EXCEPT ![g] = @ \/ fails]
  /\ poison' = [s \in Storages |->
                  poison[s] \/ (fails /\ \E u \in Uses(g) : u.storage = s)]
  /\ changed' = IF pending # {q} THEN {} ELSE changed
  /\ LeavePerform(t)
  /\ UNCHANGED <<pending, finishing, sequence, last_started, next_lane, native,
                 native_active, shutdown, pendingVars, occupied, signalVars, readers,
                 writer, external, host_changed, callVars, leases, ownerVars, handles,
                 historyVars>>
-----------------------------------------------------------------------------
(* perform: finish a job.  Its graph is dropped, or kept for ever when it is *)
(* quarantined; dropping the last owner of the runtime joins the workers.    *)

LastOwner(t) ==
  ~app /\ ~leaked /\ pending = {} /\ \A u \in Threads \ {t} : at[u] # "release"

\* Mutant: one worker is told of the shutdown.
WakeWorkers_One(last) == IF last THEN WakeOne ELSE changed' = changed
WakeWorkers(last) == changed' = IF last THEN {} ELSE changed

Release(t) ==
  LET q == cur[t]
      kept == quarantined[Graph(q)]
      last == LastOwner(t) /\ ~kept
  IN
  /\ at[t] = "release"
  /\ occupied' = [occupied EXCEPT ![run[q]] = FALSE]
  /\ leaked' = (leaked \/ kept)
  /\ shutdown' = (shutdown \/ last)
  /\ WakeWorkers(last)
  /\ dependencies' = [dependencies EXCEPT ![q] = {}]
  /\ at' = [at EXCEPT ![t] = IF last THEN "join" ELSE "publish"]
  /\ UNCHANGED <<pending, finishing, running, sequence, last_started, next_lane, native,
                 native_active, run, blockers, nodes, failure, signalVars, storageVars,
                 host_changed, cur, node, carried, callVars, leases, app, handles,
                 historyVars>>

Publish(t) ==
  LET q == cur[t] IN
  /\ at[t] = "publish"
  /\ finishing' = finishing \ {q}
  /\ failed' = [failed EXCEPT ![run[q]] = carried[t]]
  /\ cancelled' = [cancelled EXCEPT ![run[q]] = cancel[run[q]]]
  /\ done' = [done EXCEPT ![run[q]] = TRUE]
  /\ result' = [result EXCEPT ![q] = IF carried[t] THEN "failed"
                                     ELSE IF cancel[run[q]] THEN "cancelled" ELSE "ok"]
  /\ at' = [at EXCEPT ![t] = "announce"]
  /\ UNCHANGED <<pending, running, sequence, last_started, next_lane, native,
                 native_active, shutdown, pendingVars, slotVars, cancel, storageVars,
                 waitVars, cur, node, carried, callVars, leases, ownerVars, handles,
                 requested>>

\* Mutant: host waiters are not notified.
Announce_Workers(t) ==
  /\ at[t] = "announce"
  /\ changed' = {}
  /\ LeavePerform(t)
  /\ UNCHANGED <<schedulerVars, pendingVars, slotVars, signalVars, storageVars, callVars,
                 host_changed, leases, ownerVars, handles, historyVars>>
Announce(t) ==
  /\ at[t] = "announce"
  /\ changed' = {} /\ host_changed' = {}
  /\ LeavePerform(t)
  /\ UNCHANGED <<schedulerVars, pendingVars, slotVars, signalVars, storageVars, callVars,
                 leases, ownerVars, handles, historyVars>>

\* RuntimeOwner::drop, when no job still holds a graph.
DropRuntime(c) ==
  /\ c \in Droppers /\ at[c] = "idle" /\ app /\ leases = {}
  /\ \A d \in Clients : at[d] \in {"idle", "help", "wait", "await", "cancel", "begin",
                                   "run", "release", "publish", "announce"}
  /\ app' = FALSE
  /\ LET last == ~leaked /\ pending = {} /\ \A u \in Threads : at[u] # "release" IN
     /\ shutdown' = last
     /\ WakeWorkers(last)
     /\ at' = [at EXCEPT ![c] = IF last THEN "drop" ELSE "idle"]
  /\ UNCHANGED <<pending, finishing, running, sequence, last_started, next_lane, native,
                 native_active, pendingVars, slotVars, signalVars, storageVars,
                 host_changed, cur, node, carried, callVars, leases, leaked, handles,
                 historyVars>>

Join(t) ==
  /\ at[t] \in {"join", "drop"}
  /\ \A w \in Workers \ {t} : at[w] = "exited"
  /\ at' = [at EXCEPT ![t] = IF @ = "join" THEN "publish" ELSE "idle"]
  /\ UNCHANGED <<schedulerVars, pendingVars, slotVars, signalVars, storageVars, waitVars,
                 cur, node, carried, callVars, leases, ownerVars, handles, historyVars>>
-----------------------------------------------------------------------------
(* Completion. *)

Cancel(c, q) ==
  /\ c \in Cancellers /\ at[c] = "idle" /\ q \in handles[c]
  /\ cancel' = [cancel EXCEPT ![run[q]] = TRUE]
  /\ requested' = [requested EXCEPT ![q] = TRUE]
  /\ at' = [at EXCEPT ![c] = "cancel"]
  /\ UNCHANGED <<schedulerVars, pendingVars, slotVars, done, failed, cancelled,
                 storageVars, waitVars, cur, node, carried, callVars, leases, ownerVars,
                 handles, result>>

CancelNotify(c) ==
  /\ at[c] = "cancel"
  /\ changed' = {}
  /\ at' = [at EXCEPT ![c] = "idle"]
  /\ UNCHANGED <<schedulerVars, pendingVars, slotVars, signalVars, storageVars,
                 host_changed, cur, node, carried, callVars, leases, ownerVars, handles,
                 historyVars>>

\* A native stage does not wait for coordinated compute: it holds that lane.
StageMayWait(c, q) ==
  c \in leases => \A p \in pending : p <= q =>
                 \A n \in Nodes(Graph(p)) : Lane(p, n) # Compute

\* wait() helps first; wait_timeout and a polled future do not.
Wait(c, q) ==
  /\ c \in Submitters /\ at[c] = "idle" /\ q \in handles[c] /\ StageMayWait(c, q)
  /\ \/ at' = [at EXCEPT ![c] = "help"]
     \/ (c \in leases => StageAwaits) /\ at' = [at EXCEPT ![c] = "await"]
  /\ cur' = [cur EXCEPT ![c] = q]
  /\ UNCHANGED <<schedulerVars, pendingVars, slotVars, signalVars, storageVars, waitVars,
                 node, carried, callVars, leases, ownerVars, handles, historyVars>>

WaitDone(c) ==
  /\ at[c] \in {"wait", "await"} /\ done[run[cur[c]]]
  /\ at' = [at EXCEPT ![c] = "idle"]
  /\ cur' = [cur EXCEPT ![c] = 0]
  /\ UNCHANGED <<schedulerVars, pendingVars, slotVars, signalVars, storageVars, waitVars,
                 node, carried, callVars, leases, ownerVars, handles, historyVars>>

WaitTimeout(c) ==
  /\ at[c] = "await" /\ ~done[run[cur[c]]]
  /\ at' = [at EXCEPT ![c] = "idle"]
  /\ cur' = [cur EXCEPT ![c] = 0]
  /\ UNCHANGED <<schedulerVars, pendingVars, slotVars, signalVars, storageVars, waitVars,
                 node, carried, callVars, leases, ownerVars, handles, historyVars>>

Clone(c, d, q) ==
  /\ at[c] = "idle" /\ q \in handles[c] /\ d \in Submitters \ {c} /\ q \notin handles[d]
  /\ handles' = [handles EXCEPT ![d] = @ \union {q}]
  /\ UNCHANGED <<schedulerVars, pendingVars, slotVars, signalVars, storageVars, waitVars,
                 threadVars, callVars, leases, ownerVars, historyVars>>

DropCompletion(c, q) ==
  /\ at[c] = "idle" /\ q \in handles[c]
  /\ handles' = [handles EXCEPT ![c] = @ \ {q}]
  /\ UNCHANGED <<schedulerVars, pendingVars, slotVars, signalVars, storageVars, waitVars,
                 threadVars, callVars, leases, ownerVars, historyVars>>
-----------------------------------------------------------------------------
(* NativeLease: FIFO tickets for the compute lane. *)

\* Mutant: a busy lane does not delay the stage.
NativeReady_Busy(ticket, queue, busy) ==
  /\ \A k \in queue : ticket <= k
  /\ \A q \in pending \union finishing : ticket <= q
\* Mutant: a stage waits for the front of its own queue too.
NativeReady_Strict(ticket, queue, busy) ==
  /\ \A k \in queue : ticket < k
  /\ ~busy
  /\ \A q \in pending \union finishing : ticket <= q
NativeReady(ticket, queue, busy) ==
  /\ \A k \in queue : ticket <= k
  /\ ~busy
  /\ \A q \in pending \union finishing : ticket <= q

\* The loop of acquire and yield_now: take the lane, or sleep on `changed'.
Admit(c, ticket, queue, busy, active, holders, sleepers) ==
  \/ /\ NativeReady(ticket, queue, busy)
     /\ native' = queue \ {ticket} /\ native_active' = TRUE
     /\ running' = [running EXCEPT ![Compute] = TRUE]
     /\ leases' = holders \union {c} /\ changed' = sleepers
     /\ at' = [at EXCEPT ![c] = "idle"] /\ cur' = [cur EXCEPT ![c] = 0]
  \/ /\ ~NativeReady(ticket, queue, busy)
     /\ native' = queue /\ native_active' = active
     /\ running' = [running EXCEPT ![Compute] = busy]
     /\ leases' = holders /\ changed' = sleepers \union {c}
     /\ at' = [at EXCEPT ![c] = "native"] /\ cur' = [cur EXCEPT ![c] = ticket]

NativeAcquire(c) ==
  /\ c \in Natives /\ at[c] = "idle" /\ c \notin leases /\ app
  /\ Occupied < Capacity /\ sequence < MaxSequence
  /\ sequence' = sequence + 1
  /\ Admit(c, sequence, native \union {sequence}, running[Compute], native_active, leases, {})
  /\ UNCHANGED <<pending, finishing, last_started, next_lane, shutdown, pendingVars,
                 slotVars, signalVars, storageVars, host_changed, node, carried, callVars,
                 ownerVars, handles, historyVars>>

NativeWake(c) ==
  /\ at[c] = "native" /\ c \notin changed
  /\ Admit(c, cur[c], native, running[Compute], native_active, leases, changed)
  /\ UNCHANGED <<pending, finishing, sequence, last_started, next_lane, shutdown,
                 pendingVars, slotVars, signalVars, storageVars, host_changed, node,
                 carried, callVars, ownerVars, handles, historyVars>>

\* checkpoint_inner: has_waiters and yield_now lock the scheduler separately.
Checkpoint(c) ==
  /\ c \in leases /\ at[c] = "idle"
  /\ pending # {} \/ finishing # {} \/ native # {}
  /\ at' = [at EXCEPT ![c] = "yield"]
  /\ UNCHANGED <<schedulerVars, pendingVars, slotVars, signalVars, storageVars, waitVars,
                 cur, node, carried, callVars, leases, ownerVars, handles, historyVars>>

YieldNow(c) ==
  /\ at[c] = "yield" /\ sequence < MaxSequence
  /\ sequence' = sequence + 1
  /\ Admit(c, sequence, native \union {sequence}, FALSE, FALSE, leases \ {c}, {})
  /\ UNCHANGED <<pending, finishing, last_started, next_lane, shutdown, pendingVars,
                 slotVars, signalVars, storageVars, host_changed, node, carried, callVars,
                 ownerVars, handles, historyVars>>

\* Also ends a stage whose checkpoint met the bound on sequence.
NativeDrop(c) ==
  /\ c \in leases /\ (at[c] = "idle" \/ (at[c] = "yield" /\ sequence >= MaxSequence))
  /\ native_active' = FALSE
  /\ running' = [running EXCEPT ![Compute] = FALSE]
  /\ changed' = {} /\ leases' = leases \ {c}
  /\ at' = [at EXCEPT ![c] = "idle"]
  /\ UNCHANGED <<pending, finishing, sequence, last_started, next_lane, native, shutdown,
                 pendingVars, slotVars, signalVars, storageVars, host_changed, cur, node,
                 carried, callVars, ownerVars, handles, historyVars>>
-----------------------------------------------------------------------------
(* Host mappings (Buffer::acquire_with and the guards) and the reservation *)
(* of Runtime::with_gpu_access.                                            *)

Asking == {"map_read", "map_write", "handoff"}
Holding == [map_read |-> "reading", map_write |-> "writing", handoff |-> "external"]
Writes(c) == at[c] # "map_read"

HostAsk(c, S, how) ==
  /\ c \in Hosts /\ at[c] = "idle" /\ c \notin leases /\ app
  /\ how # "handoff" => Cardinality(S) = 1
  /\ at' = [at EXCEPT ![c] = how]
  /\ held' = [held EXCEPT ![c] = S]
  /\ UNCHANGED <<schedulerVars, pendingVars, slotVars, signalVars, storageVars, waitVars,
                 cur, node, carried, graph, after, leases, ownerVars, handles, historyVars>>

\* One pass of the loop: an error, a lease, a sleep, or Busy from a try_map.
HostTry(c) ==
  /\ at[c] \in Asking /\ c \notin host_changed
  /\ \/ /\ \E s \in held[c] : HostConflict(s, Writes(c))
        /\ LeaveHost(c)
        /\ UNCHANGED <<readers, writer, external, host_changed>>
     \/ /\ \A s \in held[c] : ~HostConflict(s, Writes(c)) /\ ~DeviceConflict(s, Writes(c))
        /\ at' = [at EXCEPT ![c] = Holding[@]] /\ UNCHANGED held
        /\ readers' = [s \in Storages |->
             IF at[c] = "map_read" /\ s \in held[c] THEN readers[s] + 1 ELSE readers[s]]
        /\ writer' = [s \in Storages |->
             writer[s] \/ (at[c] = "map_write" /\ s \in held[c])]
        /\ external' = [s \in Storages |->
             external[s] \/ (at[c] = "handoff" /\ s \in held[c])]
        /\ UNCHANGED host_changed
     \/ /\ \A s \in held[c] : ~HostConflict(s, Writes(c))
        /\ \E s \in held[c] : DeviceConflict(s, Writes(c))
        /\ \/ host_changed' = host_changed \union {c} /\ UNCHANGED <<at, held>>
           \/ at[c] # "handoff" /\ LeaveHost(c) /\ UNCHANGED host_changed
        /\ UNCHANGED <<readers, writer, external>>
  /\ UNCHANGED <<schedulerVars, pendingVars, slotVars, signalVars, quarantined, poison,
                 changed, cur, node, carried, graph, after, leases, ownerVars, handles,
                 historyVars>>

\* A guard is dropped, or make_visible failed and the lease is rolled back.
Unmap(c) ==
  /\ at[c] \in {"reading", "writing"}
  /\ readers' = [s \in Storages |->
       IF at[c] = "reading" /\ s \in held[c] THEN readers[s] - 1 ELSE readers[s]]
  /\ writer' = [s \in Storages |-> writer[s] /\ ~(at[c] = "writing" /\ s \in held[c])]
  /\ host_changed' = {}
  /\ LeaveHost(c)
  /\ UNCHANGED <<schedulerVars, pendingVars, slotVars, signalVars, quarantined, poison,
                 external, changed, cur, node, carried, graph, after, leases, ownerVars, handles,
                 historyVars>>

\* An uncertain stream poisons the allocations and keeps them for ever.
HandoffEnd(c, uncertain) ==
  /\ at[c] = "external"
  /\ poison' = [s \in Storages |-> poison[s] \/ (uncertain /\ s \in held[c])]
  /\ external' = [s \in Storages |-> external[s] /\ s \notin held[c]]
  /\ leaked' = (leaked \/ uncertain)
  /\ host_changed' = {}
  /\ LeaveHost(c)
  /\ UNCHANGED <<schedulerVars, pendingVars, slotVars, signalVars, quarantined, readers,
                 writer, changed, cur, node, carried, graph, after, leases, app, handles,
                 historyVars>>
-----------------------------------------------------------------------------
\* std::sync::Condvar permits a wait to return without a notification.
SpuriousWake(t) ==
  /\ t \in Spurious /\ t \in changed \union host_changed
  /\ changed' = changed \ {t} /\ host_changed' = host_changed \ {t}
  /\ UNCHANGED <<schedulerVars, pendingVars, slotVars, signalVars, storageVars, threadVars,
                 callVars, leases, ownerVars, handles, historyVars>>

\* The steps a thread takes without the application deciding anything.
Step(t) ==
  \/ TakeFinish(t) \/ TakeRun(t) \/ TakeNothing(t)
  \/ Begin(t) \/ \E f \in BOOLEAN : CompleteRun(t, f)
  \/ Release(t) \/ Publish(t) \/ Announce(t) \/ Join(t)
Call(c) ==
  \/ Submit(c) \/ SubmitRejected(c) \/ NotifyOne(c) \/ CancelNotify(c) \/ WaitDone(c)
  \/ NativeWake(c) \/ YieldNow(c) \/ HostTry(c) \/ Unmap(c)
  \/ \E u \in BOOLEAN : HandoffEnd(c, u)
\* What the application may or may not do next.
Choose(c) ==
  \/ \E g \in Graphs, ds \in SUBSET handles[c] : CheckUsable(c, g, ds)
  \/ \E q \in handles[c] : Cancel(c, q) \/ Wait(c, q) \/ DropCompletion(c, q)
  \/ \E d \in Clients, q \in handles[c] : Clone(c, d, q)
  \/ WaitTimeout(c) \/ DropRuntime(c)
  \/ NativeAcquire(c) \/ Checkpoint(c)
  \/ \E S \in SUBSET Storages \ {{}}, how \in Asking : HostAsk(c, S, how)

Next ==
  \/ \E t \in Threads : Step(t) \/ SpuriousWake(t)
  \/ \E c \in Clients : Call(c) \/ NativeDrop(c) \/ Choose(c)

Spec == Init /\ [][Next]_vars

\* Threads keep running, devices return, and a native stage that is not inside
\* a call ends.
Fairness ==
  /\ \A t \in Threads : WF_vars(Step(t))
  /\ \A c \in Clients : WF_vars(Call(c)) /\ SF_vars(NativeDrop(c))
FairSpec == Spec /\ Fairness
-----------------------------------------------------------------------------
(* Properties. *)

\* The fields of Scheduler, Job, Slot, Signal and HostState stay in their ranges; in
\* particular remove never takes a blocker count below zero.
TypeOK ==
  /\ pending \subseteq Tickets /\ finishing \subseteq Tickets /\ native \subseteq Tickets
  /\ running \in [Lanes -> BOOLEAN] /\ sequence \in 0 .. MaxSequence
  /\ last_started \in [Lanes -> Tickets \union {-1}] /\ next_lane \in Lanes
  /\ native_active \in BOOLEAN /\ shutdown \in BOOLEAN
  /\ run \in [Tickets -> Runs \union {None}]
  /\ dependencies \in [Tickets -> SUBSET Tickets] /\ blockers \in [Tickets -> Nat]
  /\ DOMAIN nodes = Runs
  /\ \A r \in Runs : nodes[r] \in [Nodes(r[1]) -> {"Pending", "Running", "Done"}]
  /\ occupied \in [Runs -> BOOLEAN] /\ failure \in [Runs -> BOOLEAN]
  /\ done \in [Runs -> BOOLEAN] /\ failed \in [Runs -> BOOLEAN]
  /\ cancelled \in [Runs -> BOOLEAN] /\ cancel \in [Runs -> BOOLEAN]
  /\ quarantined \in [Graphs -> BOOLEAN] /\ poison \in [Storages -> BOOLEAN]
  /\ readers \in [Storages -> Nat] /\ writer \in [Storages -> BOOLEAN]
  /\ external \in [Storages -> BOOLEAN]
  /\ changed \subseteq Threads /\ host_changed \subseteq Clients
  /\ at \in [Threads -> {"idle", "submit", "notify", "cancel", "help", "wait", "await",
                         "poll", "begin", "run", "release", "join", "publish", "announce",
                         "exited", "drop", "native", "yield", "map_read", "map_write",
                         "handoff", "reading", "writing", "external"}]
  /\ cur \in [Threads -> Tickets \union {0}] /\ node \in [Threads -> AllNodes \union {0}]
  /\ carried \in [Threads -> BOOLEAN]
  /\ graph \in [Clients -> Graphs \union {None}]
  /\ after \in [Clients -> SUBSET Tickets] /\ held \in [Clients -> SUBSET Storages]
  /\ leases \subseteq Clients /\ app \in BOOLEAN /\ leaked \in BOOLEAN
  /\ handles \in [Clients -> SUBSET Tickets]
  /\ requested \in [Tickets -> BOOLEAN]
  /\ result \in [Tickets -> {"none", "ok", "failed", "cancelled"}]

Executing == {t \in Threads : at[t] \in {"begin", "run"}}
Ending == {t \in Threads : at[t] \in {"release", "join", "publish"}}

\* Admission control (scheduler.rs occupied, acquire; graph.rs submit_after): jobs,
\* publications in flight, queued stages and the active stage never exceed the
\* runtime's capacity, although a yield takes a ticket without checking it.
CapacityBound == Occupied <= Capacity

\* Scheduler::enqueue and remove: a job's blocker count is exactly the number of
\* earlier pending conflicting jobs, also when a cancelled job leaves out of order.
BlockersExact ==
  \A q \in pending :
    blockers[q] = Cardinality({p \in pending : p < q /\ Conflicts(Graph(p), Graph(q))})

\* "conflicting memory accesses are ordered across all lanes and submissions": an
\* operation on a device belongs to a pending job, and no earlier conflicting job is
\* still pending, so conflicting jobs execute one after the other in submission order.
ConflictOrder ==
  \A t \in Executing :
    /\ cur[t] \in pending
    /\ \A p \in pending : p < cur[t] => ~Conflicts(Graph(p), Graph(cur[t]))

\* "Each lane runs one region at a time": a lane is reserved exactly while one thread
\* executes on it or, for compute, while a native stage is active, never both.
LaneExclusive ==
  \A l \in Lanes :
    LET users == {t \in Executing : Lane(cur[t], node[t]) = l}
        stages == IF l = Compute THEN leases ELSE {}
    IN  Cardinality(users) + Cardinality(stages) = IF running[l] THEN 1 ELSE 0

\* A node is Running exactly while one thread executes it for the job that occupies its
\* slot; a slot is occupied by at most one live job, whose signal is not done.
SlotOwnership ==
  /\ \A q \in pending \union finishing :
       /\ ~done[run[q]]
       /\ \A p \in pending \union finishing : run[p] = run[q] => p = q
  /\ \A q \in pending : occupied[run[q]] /\ \A n \in Nodes(Graph(q)) :
       Cardinality({t \in Executing : cur[t] = q /\ node[t] = n})
         = IF nodes[run[q]][n] = "Running" THEN 1 ELSE 0
  /\ finishing = {cur[t] : t \in Ending}
  /\ \A t, u \in Ending : cur[t] = cur[u] => t = u

\* Completion::result: while a Completion or a dependent job holds the signal of a
\* submission, the signal tells that submission's outcome and never a later one's, and
\* Completion::cancel "does not ... abort an unrelated submission".
OutcomeStable ==
  /\ \A q \in Tickets : result[q] = "cancelled" => requested[q]
  /\ \A q \in UNION ({handles[c] : c \in Clients} \union {dependencies[p] : p \in Tickets}) :
    result[q] = IF ~done[run[q]] THEN "none"
                ELSE IF failed[run[q]] THEN "failed"
                ELSE IF cancelled[run[q]] THEN "cancelled" ELSE "ok"

\* submit_after: "Failed or cancelled producers prevent execution, even when no memory
\* range overlaps": an executing job's producers have all succeeded.
ProducersSucceeded ==
  \A t \in Executing : \A d \in dependencies[cur[t]] : result[d] = "ok"

\* Host leases and pending device work never meet: a mapped or handed-over allocation has
\* no conflicting pending job, and a host writer or a handoff is alone on its allocation.
HostExclusion ==
  \A c \in Clients :
    /\ at[c] = "reading" => \A s \in held[c] : ~DeviceConflict(s, FALSE) /\ readers[s] > 0
    /\ at[c] \in {"writing", "external"} => \A s \in held[c] :
         /\ ~DeviceConflict(s, TRUE)
         /\ \A d \in Clients \ {c} :
              at[d] \in {"reading", "writing", "external"} => s \notin held[d]

\* usable() is read before the lock, yet a graph quarantined in between is not enqueued:
\* its poisoned allocations refuse it under the lock.
QuarantineHolds ==
  [][\A q \in pending' \ pending : Uses(run'[q][1]) # {} => ~quarantined[run'[q][1]]]_vars

\* next_action "give[s] each ready submission a turn between regions on each lane": a job
\* starts twice in a row on a lane only when no other job was ready on it.
RoundRobin ==
  [][\A l \in Lanes :
       (~running[l] /\ running'[l] /\ ~native_active' /\ last_started'[l] = last_started[l])
         => \A p \in pending, n \in AllNodes : Ready(l, p, n) => p = last_started[l]]_vars

\* Every accepted submission reaches a terminal result.
SubmissionsComplete == \A q \in Tickets : q \in pending ~> result[q] # "none"
\* Every blocking call returns: a wait for a completion without a bound, a native stage
\* that is queued for the compute lane, a host mapping and a handoff.
Blocked(c) == at[c] \in {"wait", "native"} \union Asking
CallsReturn == \A c \in Clients : Blocked(c) ~> ~Blocked(c)
\* Once the runtime is dropped with nothing in flight every worker thread returns.
WorkersExit == shutdown ~> \A w \in Workers : at[w] = "exited"
\* Nobody waits forever: submissions, blocking calls and the drop of the runtime, which
\* share one lock and one condition variable, all end.
WaitsEnd == SubmissionsComplete /\ CallsReturn /\ WorkersExit
=============================================================================
