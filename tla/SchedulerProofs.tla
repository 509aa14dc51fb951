--------------------------- MODULE SchedulerProofs ---------------------------
(***************************************************************************)
(* Theorems about Scheduler, for every value of its constants.  First the  *)
(* types: every action keeps every variable in its type, one lemma per     *)
(* action, combined by NextTyped.  Then the jobs: which steps are quiet    *)
(* (they change nothing the jobs or the lanes depend on), who owns a job   *)
(* and a running node, the blocker counts and the order of conflicting     *)
(* jobs.  Then lanes, native stages and admission.  The inductive          *)
(* invariant Inv combines them.                                            *)
(***************************************************************************)
EXTENDS Scheduler, FiniteSetTheorems, TLAPS

PCs == {"idle", "submit", "notify", "cancel", "help", "wait", "await", "poll", "begin",
        "run", "release", "join", "publish", "announce", "exited", "drop", "native",
        "yield", "map_read", "map_write", "handoff", "reading", "writing", "external"}

SchedulerTyped ==
  /\ pending \subseteq Tickets /\ finishing \subseteq Tickets /\ native \subseteq Tickets
  /\ running \in [Lanes -> BOOLEAN] /\ sequence \in 0 .. MaxSequence
  /\ last_started \in [Lanes -> Tickets \union {-1}] /\ next_lane \in Lanes
FlagsTyped ==
  /\ native_active \in BOOLEAN /\ shutdown \in BOOLEAN
  /\ app \in BOOLEAN /\ leaked \in BOOLEAN
JobsTyped ==
  /\ run \in [Tickets -> Runs \union {None}]
  /\ dependencies \in [Tickets -> SUBSET Tickets] /\ blockers \in [Tickets -> Int]
SlotsTyped ==
  /\ DOMAIN nodes = Runs
  /\ \A r \in Runs : nodes[r] \in [Nodes(r[1]) -> {"Pending", "Running", "Done"}]
  /\ occupied \in [Runs -> BOOLEAN] /\ failure \in [Runs -> BOOLEAN]
SignalsTyped ==
  /\ done \in [Runs -> BOOLEAN] /\ failed \in [Runs -> BOOLEAN]
  /\ cancelled \in [Runs -> BOOLEAN] /\ cancel \in [Runs -> BOOLEAN]
StorageTyped ==
  /\ quarantined \in [Graphs -> BOOLEAN] /\ poison \in [Storages -> BOOLEAN]
  /\ readers \in [Storages -> Int] /\ writer \in [Storages -> BOOLEAN]
  /\ external \in [Storages -> BOOLEAN]
ThreadsTyped ==
  /\ changed \subseteq Threads /\ host_changed \subseteq Clients
  /\ at \in [Threads -> PCs]
  /\ cur \in [Threads -> Tickets \union {0}] /\ node \in [Threads -> AllNodes \union {0}]
  /\ carried \in [Threads -> BOOLEAN]
  /\ graph \in [Clients -> Graphs \union {None}]
  /\ after \in [Clients -> SUBSET Tickets] /\ held \in [Clients -> SUBSET Storages]
  /\ leases \subseteq Clients
OwnersTyped ==
  /\ handles \in [Clients -> SUBSET Tickets]
  /\ requested \in [Tickets -> BOOLEAN]
  /\ result \in [Tickets -> {"none", "ok", "failed", "cancelled"}]

\* Where each kind of ticket comes from.
Issued ==
  /\ \A q \in Tickets : q >= sequence => run[q] = None
  /\ \A q \in pending \union finishing : run[q] \in Runs
  /\ \A k \in native : k < sequence
  /\ \A c \in Clients : \A q \in handles[c] \union after[c] : run[q] \in Runs
  /\ \A p \in Tickets : \A q \in dependencies[p] : run[q] \in Runs
  /\ \A c \in Clients : at[c] = "submit" => graph[c] \in Graphs
  /\ \A t \in Threads :
       /\ at[t] \in {"begin", "run", "release", "join", "publish", "announce",
                    "help", "wait", "await"}
            => cur[t] \in Tickets /\ run[cur[t]] \in Runs
       /\ at[t] \in {"begin", "run"} => node[t] \in Nodes(Graph(cur[t]))

Typed ==
  /\ SchedulerTyped /\ JobsTyped /\ SlotsTyped /\ SignalsTyped /\ StorageTyped
  /\ ThreadsTyped /\ OwnersTyped /\ FlagsTyped /\ Issued

\* A stage waiting in acquire or yield_now owns its own ticket in the queue.
Queued ==
  /\ \A c \in Clients : at[c] = "native" => cur[c] \in native
  /\ \A c, d \in Clients : at[c] = "native" /\ at[d] = "native" /\ cur[c] = cur[d] => c = d

LEMMA InitTyped == Init => Typed
<1> SUFFICES ASSUME Init PROVE Typed
  BY Zenon
<1>1. SchedulerTyped
  BY SchedulerAssumption DEF Init, SchedulerTyped, Lanes
<1>2. JobsTyped
  BY DEF Init, JobsTyped
<1>3. SlotsTyped
  BY Zenon DEF Init, SlotsTyped
<1>4. SignalsTyped /\ StorageTyped /\ OwnersTyped
  BY DEF Init, SignalsTyped, StorageTyped, OwnersTyped
<1>5. ThreadsTyped
  BY Zenon DEF Init, ThreadsTyped, PCs
<1>6. Issued
  BY Zenon DEF Init, Issued, Threads
<1>7. FlagsTyped
  BY Zenon DEF Init, FlagsTyped
<1> QED
  BY Zenon, <1>1, <1>2, <1>3, <1>4, <1>5, <1>6, <1>7 DEF Typed

LEMMA CheckUsableTyped ==
  ASSUME Typed, NEW c \in Clients, NEW g \in Graphs, NEW ds \in SUBSET handles[c],
         CheckUsable(c, g, ds)
  PROVE  Typed'
  BY ZenonT(30) DEF CheckUsable, Typed, SchedulerTyped, JobsTyped, SlotsTyped, SignalsTyped, StorageTyped,
         ThreadsTyped, OwnersTyped, FlagsTyped, Issued, PCs, Threads, schedulerVars, pendingVars, slotVars,
         signalVars, storageVars, waitVars, ownerVars, historyVars, Graph

LEMMA TicketsFinite == ASSUME NEW S \in SUBSET Tickets
                       PROVE  IsFiniteSet(S) /\ Cardinality(S) \in Nat
<1>1. IsFiniteSet(Tickets)
  BY SchedulerAssumption, FS_Interval DEF Tickets
<1> QED
  BY Zenon, <1>1, FS_Subset, FS_CardinalityType

\* The next ticket is a number not yet in use.
LEMMA Numbered ==
  ASSUME Typed
  PROVE  /\ sequence \in Int /\ \A q \in Tickets : q \in Int
         /\ \A q \in Tickets : run[q] # None => q < sequence
  BY SchedulerAssumption DEF Typed, SchedulerTyped, Tickets, Issued

LEMMA SubmitIssues ==
  ASSUME Typed, NEW c \in Clients, Submit(c)
  PROVE  sequence \in Tickets /\ graph[c] \in Graphs
  BY SchedulerAssumption DEF Typed, SchedulerTyped, Tickets, Issued, Submit

LEMMA SubmitTyped ==
  ASSUME Typed, NEW c \in Clients, Submit(c)
  PROVE  Typed'
<1>a. sequence \in Tickets /\ graph[c] \in Graphs
  BY Zenon, SubmitIssues
<1>b. \E r \in Runs : r[1] \in Graphs /\ Accept(c, r)
  BY Zenon, <1>a DEF Submit, Runs
<1>c. PICK r \in Runs : r[1] \in Graphs /\ Accept(c, r)
  BY Zenon, <1>b
<1>1. SchedulerTyped'
  <2>1. sequence' \in 0 .. MaxSequence
    BY <1>a, <1>c, SchedulerAssumption DEF Accept, Enqueue, Tickets
  <2> QED
    BY Zenon, <1>a, <1>c, <2>1 DEF Accept, Enqueue, Typed, SchedulerTyped
<1>2. JobsTyped'
  <2>1. Cardinality(EarlierConflicts(r[1])) \in Nat
    BY Zenon, TicketsFinite DEF Typed, SchedulerTyped, EarlierConflicts
  <2> QED
    BY <1>a, <1>c, <2>1 DEF Accept, Enqueue, Typed, JobsTyped, OwnersTyped, ThreadsTyped
<1>3. SlotsTyped'
  BY Zenon, <1>c DEF Accept, Typed, SlotsTyped
<1>4. SignalsTyped' 
  BY Zenon, <1>c DEF Accept, Typed, SignalsTyped
<1>5. StorageTyped'
  BY Zenon, <1>c DEF Accept, Typed, StorageTyped, storageVars
<1>6. ThreadsTyped'
  BY Zenon, <1>c DEF Accept, Typed, ThreadsTyped, LeaveSubmit, PCs, waitVars
<1>7. OwnersTyped'
  BY Zenon, <1>a, <1>c DEF Accept, Typed, OwnersTyped, historyVars
<1>8. Issued'
  <2>1. /\ pending' = pending \union {sequence} /\ sequence' = sequence + 1
        /\ run' = [run EXCEPT ![sequence] = r]
        /\ dependencies' = [dependencies EXCEPT ![sequence] = after[c]]
        /\ handles' = [handles EXCEPT ![c] = @ \union {sequence}]
        /\ UNCHANGED <<finishing, native, cur, node>>
    BY Zenon, <1>c DEF Accept, Enqueue
  <2>2. \A q \in Tickets : run[q] \in Runs => run'[q] = run[q]
    BY <1>a, <2>1, SchedulerAssumption DEF Typed, Issued, JobsTyped, Tickets
  <2>3. \A q \in Tickets : q >= sequence' => run'[q] = None
    BY <1>a, <2>1 DEF Typed, Issued, JobsTyped, Tickets
  <2>4. \A q \in Tickets : run[q] \in Runs \/ q = sequence => run'[q] \in Runs
    BY Zenon, <1>a, <1>c, <2>1 DEF Typed, JobsTyped
  <2>5. /\ \A q \in pending' \union finishing' : run'[q] \in Runs
        /\ \A p \in Tickets : \A q \in dependencies'[p] : run'[q] \in Runs
    BY ZenonT(30), <1>a, <2>1, <2>4 DEF Typed, Issued, JobsTyped, SchedulerTyped, ThreadsTyped
  <2>6. \A k \in native' : k < sequence'
    BY <2>1 DEF Typed, Issued, SchedulerTyped, Tickets
  <2>7. \A d \in Clients : \A q \in handles'[d] \union after'[d] : run'[q] \in Runs
    BY <1>a, <1>c, <2>1, <2>4 DEF Accept, LeaveSubmit, Typed, Issued, OwnersTyped, ThreadsTyped
  <2>8. \A d \in Clients : at'[d] = "submit" => graph'[d] \in Graphs
    BY Zenon, <1>c DEF Accept, LeaveSubmit, Typed, Issued, ThreadsTyped, Threads
  <2>9. \A t \in Threads :
       /\ at'[t] \in {"begin", "run", "release", "join", "publish", "announce",
                    "help", "wait", "await"}
            => cur'[t] \in Tickets /\ run'[cur'[t]] \in Runs
       /\ at'[t] \in {"begin", "run"} => node'[t] \in Nodes(run'[cur'[t]][1])
    BY <1>c, <2>1, <2>2, <2>4 DEF Accept, LeaveSubmit, Typed, Issued, ThreadsTyped, Graph
  <2> QED
    BY Zenon, <2>3, <2>5, <2>6, <2>7, <2>8, <2>9 DEF Issued, Graph
<1>9. FlagsTyped'
  BY Zenon, <1>c DEF Accept, Typed, FlagsTyped, ownerVars
<1> QED
  BY Zenon, <1>1, <1>2, <1>3, <1>4, <1>5, <1>6, <1>7, <1>8, <1>9 DEF Typed

LEMMA SubmitRejectedTyped ==
  ASSUME Typed, NEW c \in Clients, SubmitRejected(c)
  PROVE  Typed'
    BY ZenonT(60) DEF SubmitRejected, LeaveSubmit, Typed, SchedulerTyped, JobsTyped, SlotsTyped,
         SignalsTyped, StorageTyped, ThreadsTyped, OwnersTyped, FlagsTyped, Issued, PCs,
         Threads, Graph, schedulerVars, pendingVars, slotVars, signalVars, storageVars,
         waitVars, threadVars, callVars, ownerVars, historyVars

LEMMA NotifyOneTyped ==
  ASSUME Typed, NEW c \in Clients, NotifyOne(c)
  PROVE  Typed'
    BY DEF NotifyOne, WakeOne, Typed, SchedulerTyped, JobsTyped, SlotsTyped, SignalsTyped,
         StorageTyped, ThreadsTyped, OwnersTyped, FlagsTyped, Issued, PCs, Threads, Graph,
         schedulerVars, pendingVars, slotVars, signalVars, storageVars, waitVars, threadVars,
         callVars, ownerVars, historyVars

LEMMA ScanTyped ==
  ASSUME Typed, NEW S
  PROVE  /\ DOMAIN ScanNodes(S) = Runs
         /\ \A r \in Runs : ScanNodes(S)[r] \in [Nodes(r[1]) -> {"Pending", "Running", "Done"}]
         /\ ScanFailure(S) \in [Runs -> BOOLEAN]
  BY Zenon DEF Typed, SlotsTyped, ScanNodes, ScanFailure

LEMMA TakeFinishTyped ==
  ASSUME Typed, NEW t \in Threads, TakeFinish(t)
  PROVE  Typed'
<1>1. \E q \in pending : Remove(t, q, {p \in pending : p <= q})
  BY Zenon DEF TakeFinish, Finishable
<1>2. PICK q \in pending : Remove(t, q, {p \in pending : p <= q})
  BY Zenon, <1>1
<1>3. q \in Tickets /\ run[q] \in Runs
  BY Zenon DEF Typed, SchedulerTyped, Issued
<1>4. SchedulerTyped'
  BY Zenon, <1>2 DEF Remove, Typed, SchedulerTyped
<1>5. JobsTyped'
  <2>1. blockers' \in [Tickets -> Int]
    BY <1>2 DEF Remove, Typed, JobsTyped
  <2> QED
    BY Zenon, <1>2, <2>1 DEF Remove, Typed, JobsTyped
<1>6. SlotsTyped'
  <2> DEFINE S == {p \in pending : p <= q}
  <2>1. /\ nodes' = ScanNodes(S) /\ failure' = [ScanFailure(S) EXCEPT ![run[q]] = FALSE]
        /\ occupied' = occupied
    BY Zenon, <1>2 DEF Remove
  <2> HIDE DEF S
  <2>2. failure' \in [Runs -> BOOLEAN]
    BY Zenon, <2>1, ScanTyped
  <2> QED
    BY Zenon, <2>1, <2>2, ScanTyped DEF Typed, SlotsTyped
<1>7. ThreadsTyped'
  <2>1. carried' \in [Threads -> BOOLEAN]
    <3>1. ScanFailure({p \in pending : p <= q})[run[q]] \in BOOLEAN
      BY Zenon, <1>3, ScanTyped
    <3> QED
      BY Zenon, <1>2, <3>1 DEF Remove, Typed, ThreadsTyped
  <2>2. /\ at' \in [Threads -> PCs] /\ cur' \in [Threads -> Tickets \union {0}]
    BY Zenon, <1>2, <1>3 DEF Remove, Typed, ThreadsTyped, PCs
  <2> QED
    BY Zenon, <1>2, <2>1, <2>2 DEF Remove, Typed, ThreadsTyped, waitVars, callVars
<1>8. Issued'
  <2>1. /\ pending' = pending \ {q} /\ finishing' = finishing \union {q}
        /\ at' = [at EXCEPT ![t] = "release"] /\ cur' = [cur EXCEPT ![t] = q]
        /\ UNCHANGED <<sequence, native, run, dependencies, handles, after, graph, node>>
    BY Zenon, <1>2 DEF Remove, callVars
  <2> QED
    BY Zenon, <1>3, <2>1 DEF Typed, Issued, ThreadsTyped, Threads, Graph
<1>9. SignalsTyped' /\ StorageTyped' /\ OwnersTyped' /\ FlagsTyped'
  BY Zenon, <1>2 DEF Remove, Typed, SignalsTyped, StorageTyped, OwnersTyped, FlagsTyped, signalVars,
     storageVars, ownerVars, historyVars
<1> QED
  BY Zenon, <1>4, <1>5, <1>6, <1>7, <1>8, <1>9 DEF Typed

LEMMA TakeRunTyped ==
  ASSUME Typed, NEW t \in Threads, TakeRun(t)
  PROVE  Typed'
<1>1. \E lane \in Lanes, q \in pending, n \in AllNodes :
        n \in Nodes(Graph(q)) /\ Start(t, lane, q, n)
  BY Zenon DEF TakeRun, Candidate, Ready
<1>2. PICK lane \in Lanes, q \in pending, n \in AllNodes :
        n \in Nodes(Graph(q)) /\ Start(t, lane, q, n)
  BY Zenon, <1>1
<1>3. q \in Tickets /\ run[q] \in Runs
  BY Zenon DEF Typed, SchedulerTyped, Issued
<1>4. SchedulerTyped'
  <2>1. (lane + 1) % 5 \in Lanes
    BY DEF Lanes
  <2> QED
    BY Zenon, <1>2, <1>3, <2>1 DEF Start, Typed, SchedulerTyped
<1>6. SlotsTyped'
  <2>1. /\ nodes' = [ScanNodes(pending) EXCEPT ![run[q]][n] = "Running"]
        /\ failure' = ScanFailure(pending) /\ occupied' = occupied
    BY Zenon, <1>2 DEF Start
  <2> QED
    BY Zenon, <1>2, <1>3, <2>1, ScanTyped DEF Typed, SlotsTyped, Graph
<1>7. ThreadsTyped'
  BY Zenon, <1>2, <1>3 DEF Start, Typed, ThreadsTyped, PCs, waitVars, callVars
<1>8. Issued'
  <2>1. /\ at' = [at EXCEPT ![t] = "begin"] /\ cur' = [cur EXCEPT ![t] = q]
        /\ node' = [node EXCEPT ![t] = n]
        /\ UNCHANGED <<pending, finishing, sequence, native, run, dependencies, handles,
                       after, graph>>
    BY Zenon, <1>2 DEF Start, pendingVars, callVars
  <2> QED
    BY Zenon, <1>2, <1>3, <2>1 DEF Typed, Issued, ThreadsTyped, Threads, Graph
<1>9. JobsTyped' /\ SignalsTyped' /\ StorageTyped' /\ OwnersTyped' /\ FlagsTyped'
  BY Zenon, <1>2 DEF Start, Typed, JobsTyped, SignalsTyped, StorageTyped, OwnersTyped, FlagsTyped,
     pendingVars, signalVars, storageVars, ownerVars, historyVars
<1> QED
  BY Zenon, <1>4, <1>6, <1>7, <1>8, <1>9 DEF Typed

LEMMA TakeNothingTyped ==
  ASSUME Typed, NEW t \in Threads, TakeNothing(t)
  PROVE  Typed'
<1>1. SlotsTyped'
  BY Zenon, ScanTyped DEF TakeNothing, Typed, SlotsTyped
<1>2. ThreadsTyped'
  <2>1. at' \in [Threads -> PCs]
    BY Zenon DEF TakeNothing, Typed, ThreadsTyped, PCs
  <2>2. changed' \subseteq Threads
    BY Zenon DEF TakeNothing, Typed, ThreadsTyped
  <2> QED
    BY Zenon, <2>1, <2>2 DEF TakeNothing, Typed, ThreadsTyped, callVars
<1>3. Issued'
  <2>1. /\ \A c \in Clients : at'[c] = "submit" => at[c] = "submit"
        /\ \A u \in Threads : at'[u] \in {"begin", "run", "release", "join", "publish",
                                          "announce", "help", "await"} => at'[u] = at[u]
        /\ \A u \in Threads : at'[u] = "wait" => at[u] \in {"help", "wait"}
    BY ZenonT(30), SchedulerAssumption DEF TakeNothing, Looking, Loop, Typed, ThreadsTyped, Threads
  <2>2. UNCHANGED <<pending, finishing, sequence, native, run, dependencies, handles, after,
                    graph, cur, node>>
    BY Zenon DEF TakeNothing, schedulerVars, pendingVars, callVars
  <2> QED
    BY Zenon, <2>1, <2>2 DEF Typed, Issued, Graph
<1>4. /\ SchedulerTyped' /\ JobsTyped' /\ SignalsTyped' /\ StorageTyped' /\ OwnersTyped'
      /\ FlagsTyped'
  BY Zenon DEF TakeNothing, Typed, SchedulerTyped, JobsTyped, SignalsTyped, StorageTyped,
         OwnersTyped, FlagsTyped, schedulerVars, pendingVars, signalVars, storageVars,
         ownerVars, historyVars
<1> QED
  BY Zenon, <1>1, <1>2, <1>3, <1>4 DEF Typed

LEMMA BeginTyped ==
  ASSUME Typed, NEW t \in Threads, Begin(t)
  PROVE  Typed'
    BY Zenon DEF Begin, Typed, SchedulerTyped, JobsTyped, SlotsTyped, SignalsTyped, StorageTyped,
         ThreadsTyped, OwnersTyped, FlagsTyped, Issued, PCs, Threads, Graph, schedulerVars,
         pendingVars, slotVars, signalVars, storageVars, waitVars, threadVars, callVars,
         ownerVars, historyVars

LEMMA ReleaseTyped ==
  ASSUME Typed, NEW t \in Threads, Release(t)
  PROVE  Typed'
    BY Zenon DEF Release, WakeWorkers, Typed, SchedulerTyped, JobsTyped, SlotsTyped, SignalsTyped,
         StorageTyped, ThreadsTyped, OwnersTyped, FlagsTyped, Issued, PCs, Threads, Graph,
         schedulerVars, pendingVars, slotVars, signalVars, storageVars, waitVars, threadVars,
         callVars, ownerVars, historyVars

LEMMA PublishTyped ==
  ASSUME Typed, NEW t \in Threads, Publish(t)
  PROVE  Typed'
    BY Zenon DEF Publish, Typed, SchedulerTyped, JobsTyped, SlotsTyped, SignalsTyped, StorageTyped,
         ThreadsTyped, OwnersTyped, FlagsTyped, Issued, PCs, Threads, Graph, schedulerVars,
         pendingVars, slotVars, signalVars, storageVars, waitVars, threadVars, callVars,
         ownerVars, historyVars

LEMMA AnnounceTyped ==
  ASSUME Typed, NEW t \in Threads, Announce(t)
  PROVE  Typed'
    BY ZenonT(60) DEF Announce, LeavePerform, Loop, Typed, SchedulerTyped, JobsTyped, SlotsTyped,
         SignalsTyped, StorageTyped, ThreadsTyped, OwnersTyped, FlagsTyped, Issued, PCs,
         Threads, Graph, schedulerVars, pendingVars, slotVars, signalVars, storageVars,
         waitVars, threadVars, callVars, ownerVars, historyVars

LEMMA DropRuntimeTyped ==
  ASSUME Typed, NEW c \in Clients, DropRuntime(c)
  PROVE  Typed'
    BY Zenon DEF DropRuntime, WakeWorkers, Typed, SchedulerTyped, JobsTyped, SlotsTyped, SignalsTyped,
         StorageTyped, ThreadsTyped, OwnersTyped, FlagsTyped, Issued, PCs, Threads, Graph,
         schedulerVars, pendingVars, slotVars, signalVars, storageVars, waitVars, threadVars,
         callVars, ownerVars, historyVars

LEMMA JoinTyped ==
  ASSUME Typed, NEW t \in Threads, Join(t)
  PROVE  Typed'
    BY ZenonT(60) DEF Join, Typed, SchedulerTyped, JobsTyped, SlotsTyped, SignalsTyped, StorageTyped,
         ThreadsTyped, OwnersTyped, FlagsTyped, Issued, PCs, Threads, Graph, schedulerVars,
         pendingVars, slotVars, signalVars, storageVars, waitVars, threadVars, callVars,
         ownerVars, historyVars

LEMMA CancelNotifyTyped ==
  ASSUME Typed, NEW c \in Clients, CancelNotify(c)
  PROVE  Typed'
    BY Zenon DEF CancelNotify, Typed, SchedulerTyped, JobsTyped, SlotsTyped, SignalsTyped,
         StorageTyped, ThreadsTyped, OwnersTyped, FlagsTyped, Issued, PCs, Threads, Graph,
         schedulerVars, pendingVars, slotVars, signalVars, storageVars, waitVars, threadVars,
         callVars, ownerVars, historyVars

LEMMA WaitDoneTyped ==
  ASSUME Typed, NEW c \in Clients, WaitDone(c)
  PROVE  Typed'
    BY Zenon DEF WaitDone, Typed, SchedulerTyped, JobsTyped, SlotsTyped, SignalsTyped, StorageTyped,
         ThreadsTyped, OwnersTyped, FlagsTyped, Issued, PCs, Threads, Graph, schedulerVars,
         pendingVars, slotVars, signalVars, storageVars, waitVars, threadVars, callVars,
         ownerVars, historyVars

LEMMA WaitTimeoutTyped ==
  ASSUME Typed, NEW c \in Clients, WaitTimeout(c)
  PROVE  Typed'
    BY Zenon DEF WaitTimeout, Typed, SchedulerTyped, JobsTyped, SlotsTyped, SignalsTyped,
         StorageTyped, ThreadsTyped, OwnersTyped, FlagsTyped, Issued, PCs, Threads, Graph,
         schedulerVars, pendingVars, slotVars, signalVars, storageVars, waitVars, threadVars,
         callVars, ownerVars, historyVars

LEMMA AdmitTyped ==
  ASSUME Typed, NEW c \in Clients, NEW ticket \in Tickets, NEW queue \in SUBSET Tickets,
         NEW busy, NEW active, NEW holders \in SUBSET Clients, NEW sleepers \in SUBSET Threads,
         Admit(c, ticket, queue, busy, active, holders, sleepers)
  PROVE  /\ native' \in SUBSET queue
         /\ \/ running' = [running EXCEPT ![Compute] = TRUE]
            \/ running' = [running EXCEPT ![Compute] = busy]
         /\ native_active' = TRUE \/ native_active' = active
         /\ leases' \subseteq Clients /\ changed' \subseteq Threads
         /\ cur' \in [Threads -> Tickets \union {0}]
         /\ \E pc \in {"idle", "native"} : at' = [at EXCEPT ![c] = pc]
         /\ \A t \in Threads \ {c} : cur'[t] = cur[t]
<1>1. native' \in SUBSET queue
  BY Zenon DEF Admit
<1>2. \/ running' = [running EXCEPT ![Compute] = TRUE]
      \/ running' = [running EXCEPT ![Compute] = busy]
  BY Zenon DEF Admit
<1>3. native_active' = TRUE \/ native_active' = active
  BY Zenon DEF Admit
<1>4. leases' \subseteq Clients /\ changed' \subseteq Threads
  BY Zenon DEF Admit, Threads
<1>5. cur' \in [Threads -> Tickets \union {0}] /\ \A t \in Threads \ {c} : cur'[t] = cur[t]
  BY ZenonT(30) DEF Admit, Typed, ThreadsTyped
<1>6. \E pc \in {"idle", "native"} : at' = [at EXCEPT ![c] = pc]
  BY Zenon DEF Admit
<1> QED
  BY Zenon, <1>1, <1>2, <1>3, <1>4, <1>5, <1>6

LEMMA AdmittedTyped ==
  ASSUME Typed, NEW c \in Clients,
         native' \in SUBSET (native \union {sequence})
           /\ (sequence' = sequence \/ (sequence \in Tickets /\ sequence' = sequence + 1)),
         native' \subseteq native \/ sequence' # sequence,
         running' \in [Lanes -> BOOLEAN], native_active' \in BOOLEAN,
         leases' \subseteq Clients, changed' \subseteq Threads,
         cur' \in [Threads -> Tickets \union {0}],
         \E pc \in {"idle", "native"} : at' = [at EXCEPT ![c] = pc],
         \A t \in Threads \ {c} : cur'[t] = cur[t],
         UNCHANGED <<pending, finishing, last_started, next_lane, shutdown, pendingVars,
                     slotVars, signalVars, storageVars, host_changed, node, carried, callVars,
                     ownerVars, handles, historyVars>>
  PROVE  Typed'
<1>1. SchedulerTyped'
  <2>1. sequence' \in 0 .. MaxSequence
    BY SchedulerAssumption DEF Typed, SchedulerTyped, Tickets
  <2>2. native' \subseteq Tickets
    BY Zenon DEF Typed, SchedulerTyped
  <2> QED
    BY Zenon, <2>1, <2>2 DEF Typed, SchedulerTyped
<1>2. ThreadsTyped'
  BY DEF Typed, ThreadsTyped, PCs, callVars, Threads
<1>3. Issued'
  <2>1. \A q \in Tickets : q >= sequence' => run'[q] = None
    BY DEF Typed, Issued, SchedulerTyped, Tickets, pendingVars
  <2>2. \A k \in native' : k < sequence'
    <3>1. CASE native' \subseteq native /\ sequence' = sequence
      BY Zenon, <3>1 DEF Typed, Issued
    <3>2. CASE sequence' = sequence + 1
      BY <3>2 DEF Typed, Issued, SchedulerTyped, Tickets
    <3> QED
      BY Zenon, <3>1, <3>2
  <2>3. /\ \A d \in Clients : at'[d] = "submit" => at[d] = "submit"
        /\ \A t \in Threads : at'[t] \in {"begin", "run", "release", "join", "publish",
                                          "announce", "help", "wait", "await"}
                                => at'[t] = at[t] /\ cur'[t] = cur[t]
    BY Zenon DEF Typed, ThreadsTyped, Threads
  <2>4. UNCHANGED <<pending, finishing, run, dependencies, handles, after, graph, node>>
    BY Zenon DEF pendingVars, callVars
  <2> QED
    BY Zenon, <2>1, <2>2, <2>3, <2>4 DEF Typed, Issued, Graph
<1>4. FlagsTyped'
  BY Zenon DEF Typed, FlagsTyped, ownerVars
<1>5. JobsTyped' /\ SlotsTyped' /\ SignalsTyped' /\ StorageTyped' /\ OwnersTyped'
  BY Zenon DEF Typed, JobsTyped, SlotsTyped, SignalsTyped, StorageTyped, OwnersTyped, pendingVars,
         slotVars, signalVars, storageVars, ownerVars, historyVars
<1> QED
  BY Zenon, <1>1, <1>2, <1>3, <1>4, <1>5 DEF Typed

LEMMA NativeAcquireTyped ==
  ASSUME Typed, NEW c \in Clients, NativeAcquire(c)
  PROVE  Typed'
<1>1. sequence \in Tickets
  BY SchedulerAssumption DEF NativeAcquire, Typed, SchedulerTyped, Tickets
<1>2. /\ leases \in SUBSET Clients
      /\ native \union {sequence} \in SUBSET Tickets /\ {} \in SUBSET Threads
  BY Zenon, <1>1 DEF Typed, SchedulerTyped, ThreadsTyped
<1>3. Admit(c, sequence, native \union {sequence}, running[Compute], native_active, leases, {})
  BY Zenon DEF NativeAcquire
<1>4. /\ native' \in SUBSET (native \union {sequence})
      /\ \/ running' = [running EXCEPT ![Compute] = TRUE]
         \/ running' = [running EXCEPT ![Compute] = running[Compute]]
      /\ native_active' = TRUE \/ native_active' = native_active
      /\ leases' \subseteq Clients /\ changed' \subseteq Threads
      /\ cur' \in [Threads -> Tickets \union {0}]
      /\ \E pc \in {"idle", "native"} : at' = [at EXCEPT ![c] = pc]
      /\ \A t \in Threads \ {c} : cur'[t] = cur[t]
  BY Zenon, <1>1, <1>2, <1>3, AdmitTyped
<1>a. running' \in [Lanes -> BOOLEAN]
  BY Zenon, <1>4 DEF Typed, SchedulerTyped
<1>b. native_active' \in BOOLEAN
  BY Zenon, <1>4 DEF Typed, FlagsTyped
<1>5. sequence' = sequence + 1 /\ sequence' # sequence
  BY <1>1 DEF NativeAcquire, Tickets
<1>6. UNCHANGED <<pending, finishing, last_started, next_lane, shutdown, pendingVars,
                  slotVars, signalVars, storageVars, host_changed, node, carried, callVars,
                  ownerVars, handles, historyVars>>
  BY Zenon DEF NativeAcquire
<1> QED
  BY Zenon, <1>1, <1>4, <1>5, <1>6, <1>a, <1>b, AdmittedTyped

LEMMA NativeWakeTyped ==
  ASSUME Typed, NEW c \in Clients, NativeWake(c), cur[c] \in native
  PROVE  Typed'
<1>1. cur[c] \in Tickets /\ changed \in SUBSET Threads
  BY Zenon DEF Typed, SchedulerTyped, ThreadsTyped
<1>2. /\ leases \in SUBSET Clients
      /\ native \in SUBSET Tickets
  BY Zenon DEF Typed, SchedulerTyped, ThreadsTyped
<1>3. Admit(c, cur[c], native, running[Compute], native_active, leases, changed)
  BY Zenon DEF NativeWake
<1>4. /\ native' \in SUBSET native
      /\ \/ running' = [running EXCEPT ![Compute] = TRUE]
         \/ running' = [running EXCEPT ![Compute] = running[Compute]]
      /\ native_active' = TRUE \/ native_active' = native_active
      /\ leases' \subseteq Clients /\ changed' \subseteq Threads
      /\ cur' \in [Threads -> Tickets \union {0}]
      /\ \E pc \in {"idle", "native"} : at' = [at EXCEPT ![c] = pc]
      /\ \A t \in Threads \ {c} : cur'[t] = cur[t]
  BY Zenon, <1>1, <1>2, <1>3, AdmitTyped
<1>a. running' \in [Lanes -> BOOLEAN]
  BY Zenon, <1>4 DEF Typed, SchedulerTyped
<1>b. native_active' \in BOOLEAN
  BY Zenon, <1>4 DEF Typed, FlagsTyped
<1>5. sequence' = sequence /\ native' \in SUBSET (native \union {sequence})
      /\ native' \subseteq native
  BY Zenon, <1>4 DEF NativeWake
<1>6. UNCHANGED <<pending, finishing, last_started, next_lane, shutdown, pendingVars,
                  slotVars, signalVars, storageVars, host_changed, node, carried, callVars,
                  ownerVars, handles, historyVars>>
  BY Zenon DEF NativeWake
<1> QED
  BY Zenon, <1>4, <1>5, <1>6, <1>a, <1>b, AdmittedTyped

LEMMA CheckpointTyped ==
  ASSUME Typed, NEW c \in Clients, Checkpoint(c)
  PROVE  Typed'
    BY Zenon DEF Checkpoint, Typed, SchedulerTyped, JobsTyped, SlotsTyped, SignalsTyped, StorageTyped,
         ThreadsTyped, OwnersTyped, FlagsTyped, Issued, PCs, Threads, Graph, schedulerVars,
         pendingVars, slotVars, signalVars, storageVars, waitVars, threadVars, callVars,
         ownerVars, historyVars

LEMMA YieldNowTyped ==
  ASSUME Typed, NEW c \in Clients, YieldNow(c)
  PROVE  Typed'
<1>1. sequence \in Tickets
  BY SchedulerAssumption DEF YieldNow, Typed, SchedulerTyped, Tickets
<1>2. /\ leases \ {c} \in SUBSET Clients /\ {} \in SUBSET Threads
      /\ native \union {sequence} \in SUBSET Tickets
  BY Zenon, <1>1 DEF Typed, SchedulerTyped, ThreadsTyped
<1>3. Admit(c, sequence, native \union {sequence}, FALSE, FALSE, leases \ {c}, {})
  BY Zenon DEF YieldNow
<1>4. /\ native' \in SUBSET (native \union {sequence})
      /\ \/ running' = [running EXCEPT ![Compute] = TRUE]
         \/ running' = [running EXCEPT ![Compute] = FALSE]
      /\ native_active' = TRUE \/ native_active' = FALSE
      /\ leases' \subseteq Clients /\ changed' \subseteq Threads
      /\ cur' \in [Threads -> Tickets \union {0}]
      /\ \E pc \in {"idle", "native"} : at' = [at EXCEPT ![c] = pc]
      /\ \A t \in Threads \ {c} : cur'[t] = cur[t]
  BY Zenon, <1>1, <1>2, <1>3, AdmitTyped
<1>a. running' \in [Lanes -> BOOLEAN]
  BY Zenon, <1>4 DEF Typed, SchedulerTyped
<1>b. native_active' \in BOOLEAN
  BY Zenon, <1>4 DEF Typed, FlagsTyped
<1>5. sequence' = sequence + 1 /\ sequence' # sequence
  BY <1>1 DEF YieldNow, Tickets
<1>6. UNCHANGED <<pending, finishing, last_started, next_lane, shutdown, pendingVars,
                  slotVars, signalVars, storageVars, host_changed, node, carried, callVars,
                  ownerVars, handles, historyVars>>
  BY Zenon DEF YieldNow
<1> QED
  BY Zenon, <1>1, <1>4, <1>5, <1>6, <1>a, <1>b, AdmittedTyped

LEMMA NativeDropTyped ==
  ASSUME Typed, NEW c \in Clients, NativeDrop(c)
  PROVE  Typed'
    BY Zenon DEF NativeDrop, Compute, Lanes, Typed, SchedulerTyped, JobsTyped, SlotsTyped,
         SignalsTyped, StorageTyped, ThreadsTyped, OwnersTyped, FlagsTyped, Issued, PCs,
         Threads, Graph, schedulerVars, pendingVars, slotVars, signalVars, storageVars,
         waitVars, threadVars, callVars, ownerVars, historyVars

\* What a step of a mapping changes: the pc and the allocations of its client.
LEMMA HostMovesTyped ==
  ASSUME Typed, NEW c \in Clients, StorageTyped',
         NEW pc \in {"idle", "reading", "writing", "external", at[c]},
         at' = [at EXCEPT ![c] = pc],
         host_changed' \subseteq Clients, held' \in [Clients -> SUBSET Storages],
         UNCHANGED <<schedulerVars, pendingVars, slotVars, signalVars, changed, cur, node,
                     carried, graph, after, leases, ownerVars, handles, historyVars>>
  PROVE  Typed'
<1>1. ThreadsTyped'
  BY Zenon DEF Typed, ThreadsTyped, PCs, Threads
<1>2. Issued'
  <2>1. /\ \A d \in Clients : at'[d] = "submit" => at[d] = "submit"
        /\ \A t \in Threads : at'[t] \in {"begin", "run", "release", "join", "publish",
                                          "announce", "help", "wait", "await"}
                                => at'[t] = at[t]
    BY Zenon DEF Typed, ThreadsTyped, Threads
  <2>2. UNCHANGED <<pending, finishing, sequence, native, run, dependencies, handles, after,
                    graph, cur, node>>
    BY Zenon DEF schedulerVars, pendingVars
  <2> QED
    BY Zenon, <2>1, <2>2 DEF Typed, Issued, Graph
<1>3. /\ SchedulerTyped' /\ JobsTyped' /\ SlotsTyped' /\ SignalsTyped' /\ OwnersTyped'
      /\ FlagsTyped'
  BY Zenon DEF Typed, SchedulerTyped, JobsTyped, SlotsTyped, SignalsTyped, OwnersTyped,
         FlagsTyped, schedulerVars, pendingVars, slotVars, signalVars, ownerVars, historyVars
<1> QED
  BY Zenon, <1>1, <1>2, <1>3 DEF Typed

LEMMA HostTryTyped ==
  ASSUME Typed, NEW c \in Clients, HostTry(c)
  PROVE  Typed'
<1>1. StorageTyped'
  <2>1. \/ readers' = readers
        \/ readers' = [s \in Storages |-> IF at[c] = "map_read" /\ s \in held[c]
                                           THEN readers[s] + 1 ELSE readers[s]]
    BY Zenon DEF HostTry
  <2>2. readers' \in [Storages -> Int]
    BY <2>1 DEF Typed, StorageTyped
  <2>3. writer' \in [Storages -> BOOLEAN] /\ external' \in [Storages -> BOOLEAN]
    BY Zenon DEF HostTry, Typed, StorageTyped
  <2>4. UNCHANGED <<quarantined, poison>>
    BY Zenon DEF HostTry
  <2> QED
    BY Zenon, <2>2, <2>3, <2>4 DEF Typed, StorageTyped
<1>2. UNCHANGED <<schedulerVars, pendingVars, slotVars, signalVars, changed, cur, node,
                  carried, graph, after, leases, ownerVars, handles, historyVars>>
  BY Zenon DEF HostTry
<1>3. /\ host_changed' = host_changed \/ host_changed' = host_changed \union {c}
      /\ \/ LeaveHost(c)
         \/ at' = [at EXCEPT ![c] = Holding[at[c]]] /\ UNCHANGED held
         \/ UNCHANGED <<at, held>>
  BY Zenon DEF HostTry
<1>4. host_changed' \subseteq Clients
  BY Zenon, <1>3 DEF Typed, ThreadsTyped
<1>5. held' \in [Clients -> SUBSET Storages]
  BY Zenon, <1>3 DEF LeaveHost, Typed, ThreadsTyped
<1>a. at[c] \in Asking
  BY Zenon DEF HostTry
<1>6. Holding[at[c]] \in {"reading", "writing", "external"}
  BY <1>a DEF Asking, Holding
<1>7. at = [at EXCEPT ![c] = at[c]]
  BY Zenon DEF Typed, ThreadsTyped, Threads
<1>8. \E pc \in {"idle", "reading", "writing", "external", at[c]} : at' = [at EXCEPT ![c] = pc]
  BY Zenon, <1>3, <1>6, <1>7 DEF LeaveHost
<1> QED
  BY Zenon, <1>1, <1>2, <1>4, <1>5, <1>8, HostMovesTyped

LEMMA UnmapTyped ==
  ASSUME Typed, NEW c \in Clients, Unmap(c)
  PROVE  Typed'
<1>1. StorageTyped'
  <2>a. readers' = [s \in Storages |-> IF at[c] = "reading" /\ s \in held[c]
                                       THEN readers[s] - 1 ELSE readers[s]]
    BY Zenon DEF Unmap
  <2>1. readers' \in [Storages -> Int]
    BY <2>a DEF Typed, StorageTyped
  <2>2. writer' \in [Storages -> BOOLEAN] /\ UNCHANGED <<quarantined, poison, external>>
    BY Zenon DEF Unmap, Typed, StorageTyped
  <2> QED
    BY Zenon, <2>1, <2>2 DEF Typed, StorageTyped
<1>2. /\ at' = [at EXCEPT ![c] = "idle"] /\ host_changed' \subseteq Clients
      /\ held' \in [Clients -> SUBSET Storages]
  BY Zenon DEF Unmap, LeaveHost, Typed, ThreadsTyped
<1>3. UNCHANGED <<schedulerVars, pendingVars, slotVars, signalVars, changed, cur, node,
                  carried, graph, after, leases, ownerVars, handles, historyVars>>
  BY Zenon DEF Unmap
<1> QED
  BY Zenon, <1>1, <1>2, <1>3, HostMovesTyped

LEMMA SpuriousWakeTyped ==
  ASSUME Typed, NEW t \in Threads, SpuriousWake(t)
  PROVE  Typed'
    BY Zenon DEF SpuriousWake, Typed, SchedulerTyped, JobsTyped, SlotsTyped, SignalsTyped,
         StorageTyped, ThreadsTyped, OwnersTyped, FlagsTyped, Issued, PCs, Threads, Graph,
         schedulerVars, pendingVars, slotVars, signalVars, storageVars, waitVars, threadVars,
         callVars, ownerVars, historyVars

LEMMA CompleteRunTyped ==
  ASSUME Typed, NEW t \in Threads, NEW f \in BOOLEAN, CompleteRun(t, f)
  PROVE  Typed'
    BY Zenon DEF CompleteRun, LeavePerform, Loop, Typed, SchedulerTyped, JobsTyped, SlotsTyped,
         SignalsTyped, StorageTyped, ThreadsTyped, OwnersTyped, FlagsTyped, Issued, PCs,
         Threads, Graph, schedulerVars, pendingVars, slotVars, signalVars, storageVars,
         waitVars, threadVars, callVars, ownerVars, historyVars

LEMMA CancelTyped ==
  ASSUME Typed, NEW c \in Clients, NEW q \in handles[c], Cancel(c, q)
  PROVE  Typed'
    BY Zenon DEF Cancel, Typed, SchedulerTyped, JobsTyped, SlotsTyped, SignalsTyped, StorageTyped,
         ThreadsTyped, OwnersTyped, FlagsTyped, Issued, PCs, Threads, Graph, schedulerVars,
         pendingVars, slotVars, signalVars, storageVars, waitVars, threadVars, callVars,
         ownerVars, historyVars

LEMMA WaitTyped ==
  ASSUME Typed, NEW c \in Clients, NEW q \in handles[c], Wait(c, q)
  PROVE  Typed'
    BY ZenonT(60) DEF Wait, Typed, SchedulerTyped, JobsTyped, SlotsTyped, SignalsTyped, StorageTyped,
         ThreadsTyped, OwnersTyped, FlagsTyped, Issued, PCs, Threads, Graph, schedulerVars,
         pendingVars, slotVars, signalVars, storageVars, waitVars, threadVars, callVars,
         ownerVars, historyVars

LEMMA DropCompletionTyped ==
  ASSUME Typed, NEW c \in Clients, NEW q \in handles[c], DropCompletion(c, q)
  PROVE  Typed'
    BY ZenonT(60) DEF DropCompletion, Typed, SchedulerTyped, JobsTyped, SlotsTyped, SignalsTyped,
         StorageTyped, ThreadsTyped, OwnersTyped, FlagsTyped, Issued, PCs, Threads, Graph,
         schedulerVars, pendingVars, slotVars, signalVars, storageVars, waitVars, threadVars,
         callVars, ownerVars, historyVars

LEMMA CloneTyped ==
  ASSUME Typed, NEW c \in Clients, NEW d \in Clients, NEW q \in handles[c], Clone(c, d, q)
  PROVE  Typed'
    BY ZenonT(60) DEF Clone, Typed, SchedulerTyped, JobsTyped, SlotsTyped, SignalsTyped, StorageTyped,
         ThreadsTyped, OwnersTyped, FlagsTyped, Issued, PCs, Threads, Graph, schedulerVars,
         pendingVars, slotVars, signalVars, storageVars, waitVars, threadVars, callVars,
         ownerVars, historyVars

LEMMA HostAskTyped ==
    ASSUME Typed, NEW c \in Clients, NEW S \in SUBSET Storages, NEW how \in Asking, HostAsk(c,
         S, how)
  PROVE  Typed'
    BY Zenon DEF HostAsk, Asking, Typed, SchedulerTyped, JobsTyped, SlotsTyped, SignalsTyped,
         StorageTyped, ThreadsTyped, OwnersTyped, FlagsTyped, Issued, PCs, Threads, Graph,
         schedulerVars, pendingVars, slotVars, signalVars, storageVars, waitVars, threadVars,
         callVars, ownerVars, historyVars

LEMMA HandoffEndTyped ==
  ASSUME Typed, NEW c \in Clients, NEW u \in BOOLEAN, HandoffEnd(c, u)
  PROVE  Typed'
    BY Zenon DEF HandoffEnd, LeaveHost, Typed, SchedulerTyped, JobsTyped, SlotsTyped, SignalsTyped,
         StorageTyped, ThreadsTyped, OwnersTyped, FlagsTyped, Issued, PCs, Threads, Graph,
         schedulerVars, pendingVars, slotVars, signalVars, storageVars, waitVars, threadVars,
         callVars, ownerVars, historyVars

LEMMA StepTyped ==
  ASSUME Typed, NEW t \in Threads, Step(t) \/ SpuriousWake(t)
  PROVE  Typed'
<1>1. \/ TakeFinish(t) \/ TakeRun(t) \/ TakeNothing(t) \/ Begin(t)
      \/ \E f \in BOOLEAN : CompleteRun(t, f)
      \/ Release(t) \/ Publish(t) \/ Announce(t) \/ Join(t) \/ SpuriousWake(t)
  BY Zenon DEF Step
<1> QED
  BY ZenonT(30), <1>1, TakeFinishTyped, TakeRunTyped, TakeNothingTyped, BeginTyped, CompleteRunTyped,
     ReleaseTyped, PublishTyped, AnnounceTyped, JoinTyped, SpuriousWakeTyped, Zenon

LEMMA CallTyped ==
  ASSUME Typed, Queued, NEW c \in Clients, Call(c) \/ NativeDrop(c)
  PROVE  Typed'
<1>1. NativeWake(c) => cur[c] \in native
  BY Zenon DEF NativeWake, Queued
<1>2. \/ Submit(c) \/ SubmitRejected(c) \/ NotifyOne(c) \/ CancelNotify(c) \/ WaitDone(c)
      \/ NativeWake(c) \/ YieldNow(c) \/ HostTry(c) \/ Unmap(c)
      \/ \E u \in BOOLEAN : HandoffEnd(c, u)
      \/ NativeDrop(c)
  BY Zenon DEF Call
<1> QED
  BY ZenonT(30), <1>1, <1>2, SubmitTyped, SubmitRejectedTyped, NotifyOneTyped, CancelNotifyTyped,
     WaitDoneTyped, NativeWakeTyped, YieldNowTyped, HostTryTyped, UnmapTyped,
     HandoffEndTyped, NativeDropTyped, Zenon

LEMMA ChooseTyped ==
  ASSUME Typed, NEW c \in Clients, Choose(c)
  PROVE  Typed'
<1>1. \/ \E g \in Graphs, ds \in SUBSET handles[c] : CheckUsable(c, g, ds)
      \/ \E q \in handles[c] : Cancel(c, q) \/ Wait(c, q) \/ DropCompletion(c, q)
      \/ \E d \in Clients, q \in handles[c] : Clone(c, d, q)
      \/ WaitTimeout(c) \/ DropRuntime(c) \/ NativeAcquire(c) \/ Checkpoint(c)
      \/ \E S \in SUBSET Storages, how \in Asking : HostAsk(c, S, how)
  BY Zenon DEF Choose
<1> QED
  BY Zenon, <1>1, CheckUsableTyped, CancelTyped, WaitTyped, DropCompletionTyped, CloneTyped,
     WaitTimeoutTyped, DropRuntimeTyped, NativeAcquireTyped, CheckpointTyped,
     HostAskTyped, Zenon

LEMMA NextTyped ==
  ASSUME Typed, Queued, [Next]_vars
  PROVE  Typed'
<1>1. CASE Next
  BY Zenon, <1>1, StepTyped, CallTyped, ChooseTyped DEF Next
<1>2. CASE UNCHANGED vars
  BY Zenon, <1>2 DEF vars, Typed, SchedulerTyped, JobsTyped, SlotsTyped, SignalsTyped, StorageTyped,
     ThreadsTyped, OwnersTyped, FlagsTyped, Issued, Graph, schedulerVars, pendingVars,
     slotVars, signalVars, storageVars, waitVars, threadVars, callVars, ownerVars, historyVars
<1> QED
  BY Zenon, <1>1, <1>2
-----------------------------------------------------------------------------
(* Jobs. *)

\* Runs, threads and the life of a job belong together.
Owned ==
  /\ pending \intersect finishing = {}
  /\ \A p, q \in pending \union finishing : run[p] = run[q] => p = q
  /\ \A q \in pending \union finishing : ~done[run[q]]
  /\ \A t \in Executing : cur[t] \in pending /\ nodes[run[cur[t]]][node[t]] = "Running"
  /\ \A t, u \in Executing : cur[t] = cur[u] /\ node[t] = node[u] => t = u
  /\ \A t \in Ending : cur[t] \in finishing
  /\ \A t, u \in Ending : cur[t] = cur[u] => t = u

\* Every job has its slot, every running node and every finishing job its thread.
Attended ==
  /\ \A q \in pending : occupied[run[q]]
  /\ \A q \in pending : \A n \in Nodes(Graph(q)) :
       nodes[run[q]][n] = "Running" => \E t \in Executing : cur[t] = q /\ node[t] = n
  /\ \A q \in finishing : \E t \in Ending : cur[t] = q

-----------------------------------------------------------------------------
(* Quiet steps. *)

\* What the jobs depend on stays as it is.
QuietJobs ==
  /\ UNCHANGED <<pending, finishing, run, blockers, done>>
  /\ \A r \in Runs : \A n \in Nodes(r[1]) :
       nodes'[r][n] = "Running" <=> nodes[r][n] = "Running"
  /\ \A q \in pending : occupied'[run[q]] = occupied[run[q]]
  /\ Executing' = Executing /\ Ending' = Ending
  /\ \A t \in Executing : cur'[t] = cur[t] /\ node'[t] = node[t]
  /\ \A t \in Ending : cur'[t] = cur[t]

\* What the lanes depend on stays as it is.
QuietLanes ==
  /\ UNCHANGED <<native, native_active, running, leases>>
  /\ Executing' = Executing
  /\ \A t \in Executing : cur'[t] = cur[t] /\ node'[t] = node[t] /\ run'[cur[t]] = run[cur[t]]
  /\ \A c \in Clients : at'[c] = "native" => at[c] = "native" /\ cur'[c] = cur[c]
  /\ \A c \in Clients : at'[c] = "yield" => at[c] = "yield" \/ c \in leases

\* Thread t is in none of the places the invariants speak of.
Busy == {"begin", "run", "release", "join", "publish", "native", "yield"}

LEMMA UnchangedQuiet ==
  ASSUME Typed, UNCHANGED <<pending, finishing, run, blockers, done, nodes, occupied,
                            native, native_active, running, leases>>,
         NEW t \in Threads, at[t] \notin Busy, NEW pc \in PCs \ Busy,
         at' = [at EXCEPT ![t] = pc],
         \A u \in Threads \ {t} : cur'[u] = cur[u] /\ node'[u] = node[u]
  PROVE  QuietJobs /\ QuietLanes
<1>1. Executing' = Executing /\ Ending' = Ending
  BY Zenon DEF Busy, Executing, Ending, Typed, ThreadsTyped
<1>2. \A c \in Clients : /\ at'[c] = "native" => at[c] = "native" /\ cur'[c] = cur[c]
                         /\ at'[c] = "yield" => at[c] = "yield"
  BY Zenon DEF Busy, Typed, ThreadsTyped, Threads
<1>3. \A u \in Executing \union Ending : cur'[u] = cur[u] /\ node'[u] = node[u]
  BY Zenon DEF Busy, Executing, Ending
<1> QED
  BY Zenon, <1>1, <1>2, <1>3 DEF QuietJobs, QuietLanes

LEMMA StillQuiet ==
  ASSUME UNCHANGED <<pending, finishing, run, blockers, done, nodes, occupied,
                     native, native_active, running, leases, at, cur, node>>
  PROVE  QuietJobs /\ QuietLanes
  BY Zenon DEF QuietJobs, QuietLanes, Executing, Ending

LEMMA ClientsAreThreads == Clients \subseteq Threads /\ Workers \intersect Clients = {}
  BY Zenon, SchedulerAssumption DEF Threads

LEMMA CheckUsableQuiet ==
  ASSUME Typed, NEW c \in Clients, NEW g \in Graphs, NEW ds \in SUBSET handles[c],
         CheckUsable(c, g, ds)
  PROVE  QuietJobs /\ QuietLanes
  BY Zenon, UnchangedQuiet, ClientsAreThreads DEF CheckUsable, Busy, PCs, schedulerVars,
     pendingVars, slotVars, signalVars, threadVars

LEMMA SubmitRejectedQuiet ==
  ASSUME Typed, NEW c \in Clients, SubmitRejected(c)
  PROVE  QuietJobs /\ QuietLanes
  BY Zenon, UnchangedQuiet, ClientsAreThreads DEF SubmitRejected, LeaveSubmit, Busy, PCs,
     schedulerVars, pendingVars, slotVars, signalVars, threadVars

LEMMA NotifyOneQuiet ==
  ASSUME Typed, NEW c \in Clients, NotifyOne(c)
  PROVE  QuietJobs /\ QuietLanes
  BY Zenon, UnchangedQuiet, ClientsAreThreads DEF NotifyOne, Busy, PCs, schedulerVars, pendingVars,
     slotVars, signalVars, threadVars

LEMMA CancelQuiet ==
  ASSUME Typed, NEW c \in Clients, NEW q \in handles[c], Cancel(c, q)
  PROVE  QuietJobs /\ QuietLanes
  BY Zenon, UnchangedQuiet, ClientsAreThreads DEF Cancel, Busy, PCs, schedulerVars, pendingVars,
     slotVars, signalVars, threadVars

LEMMA CancelNotifyQuiet ==
  ASSUME Typed, NEW c \in Clients, CancelNotify(c)
  PROVE  QuietJobs /\ QuietLanes
  BY Zenon, UnchangedQuiet, ClientsAreThreads DEF CancelNotify, Busy, PCs, schedulerVars,
     pendingVars, slotVars, signalVars, threadVars

LEMMA WaitQuiet ==
  ASSUME Typed, NEW c \in Clients, NEW q \in handles[c], Wait(c, q)
  PROVE  QuietJobs /\ QuietLanes
  BY UnchangedQuiet, ClientsAreThreads DEF Wait, Busy, PCs, schedulerVars, pendingVars,
     slotVars, signalVars, threadVars

LEMMA WaitDoneQuiet ==
  ASSUME Typed, NEW c \in Clients, WaitDone(c)
  PROVE  QuietJobs /\ QuietLanes
  BY Zenon, UnchangedQuiet, ClientsAreThreads DEF WaitDone, Typed, ThreadsTyped, Busy, PCs, schedulerVars, pendingVars,
     slotVars, signalVars, threadVars

LEMMA WaitTimeoutQuiet ==
  ASSUME Typed, NEW c \in Clients, WaitTimeout(c)
  PROVE  QuietJobs /\ QuietLanes
  BY Zenon, UnchangedQuiet, ClientsAreThreads DEF WaitTimeout, Typed, ThreadsTyped, Busy, PCs, schedulerVars,
     pendingVars, slotVars, signalVars, threadVars

LEMMA HostAskQuiet ==
  ASSUME Typed, NEW c \in Clients, NEW S \in SUBSET Storages, NEW how \in Asking, HostAsk(c,
         S, how)
  PROVE  QuietJobs /\ QuietLanes
  BY Zenon, UnchangedQuiet, ClientsAreThreads DEF HostAsk, Asking, Busy, PCs, schedulerVars,
     pendingVars, slotVars, signalVars, threadVars

LEMMA HostTryQuiet ==
  ASSUME Typed, NEW c \in Clients, HostTry(c)
  PROVE  QuietJobs /\ QuietLanes
<1>1. at[c] \notin Busy
  BY Zenon DEF HostTry, Asking, Busy
<1>2. \E pc \in {"idle", "reading", "writing", "external", at[c]} : at' = [at EXCEPT ![c] = pc]
  BY DEF HostTry, LeaveHost, Asking, Holding, Typed, ThreadsTyped
<1>3. \E pc \in PCs \ Busy : at' = [at EXCEPT ![c] = pc]
  BY Zenon, <1>1, <1>2 DEF HostTry, Asking, PCs, Busy
<1> QED
  BY Zenon, <1>1, <1>3, UnchangedQuiet, ClientsAreThreads DEF HostTry, schedulerVars, pendingVars,
     slotVars, signalVars

LEMMA UnmapQuiet ==
  ASSUME Typed, NEW c \in Clients, Unmap(c)
  PROVE  QuietJobs /\ QuietLanes
  BY Zenon, UnchangedQuiet, ClientsAreThreads DEF Unmap, LeaveHost, Busy, PCs, schedulerVars,
     pendingVars, slotVars, signalVars, threadVars

LEMMA HandoffEndQuiet ==
  ASSUME Typed, NEW c \in Clients, NEW u \in BOOLEAN, HandoffEnd(c, u)
  PROVE  QuietJobs /\ QuietLanes
  BY Zenon, UnchangedQuiet, ClientsAreThreads DEF HandoffEnd, LeaveHost, Busy, PCs, schedulerVars,
     pendingVars, slotVars, signalVars, threadVars

LEMMA DropRuntimeQuiet ==
  ASSUME Typed, NEW c \in Clients, DropRuntime(c)
  PROVE  QuietJobs /\ QuietLanes
  BY Zenon, UnchangedQuiet, ClientsAreThreads DEF DropRuntime, Busy, PCs, schedulerVars,
     pendingVars, slotVars, signalVars, threadVars

LEMMA AnnounceQuiet ==
  ASSUME Typed, NEW t \in Threads, Announce(t)
  PROVE  QuietJobs /\ QuietLanes
<1>1. /\ at[t] \notin Busy /\ Loop(t) \in PCs \ Busy /\ at' = [at EXCEPT ![t] = Loop(t)]
      /\ \A u \in Threads \ {t} : cur'[u] = cur[u] /\ node'[u] = node[u]
  BY Zenon DEF Announce, LeavePerform, Loop, Busy, PCs, Typed, ThreadsTyped
<1> QED
  BY Zenon, <1>1, UnchangedQuiet DEF Announce, schedulerVars, pendingVars, slotVars, signalVars

LEMMA CloneQuiet ==
  ASSUME Typed, NEW c \in Clients, NEW d \in Clients, NEW q \in handles[c], Clone(c, d, q)
  PROVE  QuietJobs /\ QuietLanes
  BY Zenon, StillQuiet DEF Clone, schedulerVars, pendingVars, slotVars, signalVars, threadVars

LEMMA DropCompletionQuiet ==
  ASSUME Typed, NEW c \in Clients, NEW q \in handles[c], DropCompletion(c, q)
  PROVE  QuietJobs /\ QuietLanes
  BY Zenon, StillQuiet DEF DropCompletion, schedulerVars, pendingVars, slotVars, signalVars,
     threadVars

LEMMA SpuriousWakeQuiet ==
  ASSUME Typed, NEW t \in Threads, SpuriousWake(t)
  PROVE  QuietJobs /\ QuietLanes
  BY Zenon, StillQuiet DEF SpuriousWake, schedulerVars, pendingVars, slotVars, signalVars,
     threadVars

LEMMA BeginQuiet ==
  ASSUME Typed, NEW t \in Threads, Begin(t)
  PROVE  QuietJobs /\ QuietLanes
<1>1. Executing' = Executing /\ Ending' = Ending
  BY Zenon DEF Begin, Executing, Ending, Typed, ThreadsTyped
<1>2. \A c \in Clients : /\ at'[c] = "native" => at[c] = "native"
                         /\ at'[c] = "yield" => at[c] = "yield"
  BY Zenon DEF Begin, Typed, ThreadsTyped, Threads
<1> QED
  BY Zenon, <1>1, <1>2 DEF Begin, QuietJobs, QuietLanes, schedulerVars, pendingVars, slotVars,
     signalVars

LEMMA TakeNothingQuiet ==
  ASSUME Typed, NEW t \in Threads, TakeNothing(t)
  PROVE  QuietJobs /\ QuietLanes
<1>1. \A r \in Runs : \A n \in Nodes(r[1]) :
        nodes'[r][n] = "Running" <=> nodes[r][n] = "Running"
  BY Zenon DEF TakeNothing, ScanNodes
<1>2. Executing' = Executing /\ Ending' = Ending
  BY Zenon DEF TakeNothing, Looking, Loop, Executing, Ending, Typed, ThreadsTyped
<1>3. \A c \in Clients : /\ at'[c] = "native" => at[c] = "native"
                         /\ at'[c] = "yield" => at[c] = "yield"
  BY Zenon DEF TakeNothing, Typed, ThreadsTyped, Threads
<1> QED
  BY Zenon, <1>1, <1>2, <1>3 DEF TakeNothing, QuietJobs, QuietLanes, schedulerVars, pendingVars,
     signalVars

\* The slot that is freed belongs to a finishing job, not to a pending one.
LEMMA ReleaseQuiet ==
  ASSUME Typed, Owned, NEW t \in Threads, Release(t)
  PROVE  QuietJobs /\ QuietLanes
<1>1. Executing' = Executing /\ Ending' = Ending
  BY Zenon DEF Release, Executing, Ending, Typed, ThreadsTyped
<1>2. \A c \in Clients : /\ at'[c] = "native" => at[c] = "native"
                         /\ at'[c] = "yield" => at[c] = "yield"
  BY Zenon DEF Release, Typed, ThreadsTyped, Threads
<1>3. cur[t] \in finishing
  BY Zenon DEF Release, Owned, Ending
<1>4. \A q \in pending : occupied'[run[q]] = occupied[run[q]]
  <2>1. \A q \in pending : run[q] \in Runs /\ run[q] # run[cur[t]]
    BY <1>3 DEF Owned, Typed, Issued
  <2>2. occupied' = [occupied EXCEPT ![run[cur[t]]] = FALSE]
    BY Zenon DEF Release
  <2> QED
    BY Zenon, <2>1, <2>2 DEF Typed, SlotsTyped
<1> QED
  BY Zenon, <1>1, <1>2, <1>4 DEF Release, QuietJobs, QuietLanes, signalVars

LEMMA JoinQuiet ==
  ASSUME Typed, NEW t \in Threads, Join(t)
  PROVE  QuietJobs /\ QuietLanes
<1>1. Executing' = Executing /\ Ending' = Ending
  BY Zenon DEF Join, Executing, Ending, Typed, ThreadsTyped
<1>2. \A c \in Clients : /\ at'[c] = "native" => at[c] = "native"
                         /\ at'[c] = "yield" => at[c] = "yield"
  BY Zenon DEF Join, Typed, ThreadsTyped, Threads
<1> QED
  BY Zenon, <1>1, <1>2 DEF Join, QuietJobs, QuietLanes, schedulerVars, pendingVars, slotVars,
     signalVars

LEMMA CheckpointQuiet ==
  ASSUME Typed, NEW c \in Clients, Checkpoint(c)
  PROVE  QuietJobs /\ QuietLanes
<1>1. Executing' = Executing /\ Ending' = Ending
  BY Zenon, ClientsAreThreads DEF Checkpoint, Executing, Ending, Typed, ThreadsTyped
<1>2. \A d \in Clients : /\ at'[d] = "native" => at[d] = "native"
                         /\ at'[d] = "yield" => at[d] = "yield" \/ d \in leases
  BY Zenon DEF Checkpoint, Typed, ThreadsTyped, Threads
<1> QED
  BY Zenon, <1>1, <1>2 DEF Checkpoint, QuietJobs, QuietLanes, schedulerVars, pendingVars, slotVars,
     signalVars

-----------------------------------------------------------------------------
(* Owned and Attended. *)

LEMMA TicketsOfJobs ==
  ASSUME Typed
  PROVE  /\ \A q \in pending \union finishing : q \in Tickets /\ run[q] \in Runs /\ q < sequence
         /\ \A t \in Executing \union Ending :
              cur[t] \in Tickets /\ run[cur[t]] \in Runs /\ cur[t] < sequence
         /\ \A t \in Executing : node[t] \in Nodes(Graph(cur[t]))
<1>1. \A q \in Tickets : run[q] \in Runs => q < sequence
  BY SchedulerAssumption DEF Typed, Issued, SchedulerTyped, Tickets
<1> QED
  BY Zenon, <1>1 DEF Typed, Issued, SchedulerTyped, Executing, Ending

LEMMA QuietOwned ==
  ASSUME Typed, Owned, Attended, QuietJobs
  PROVE  Owned' /\ Attended'
<1>1. Owned'
  BY TicketsOfJobs DEF Owned, QuietJobs, Graph
<1>2. Attended'
  BY TicketsOfJobs DEF Attended, QuietJobs, Graph
<1> QED
  BY Zenon, <1>1, <1>2

LEMMA SubmitOwned ==
  ASSUME Typed, Owned, Attended, NEW c \in Clients, Submit(c)
  PROVE  Owned' /\ Attended'
<1>1. sequence \in Tickets /\ graph[c] \in Graphs
  BY Zenon, SubmitIssues
<1>2. \E r \in Runs : FreeSlot(r) /\ Accept(c, r)
  BY Zenon, <1>1 DEF Submit, Runs
<1>3. PICK r \in Runs : FreeSlot(r) /\ Accept(c, r)
  BY Zenon, <1>2
<1>4. /\ pending' = pending \union {sequence} /\ finishing' = finishing
      /\ run' = [run EXCEPT ![sequence] = r] /\ done' = [done EXCEPT ![r] = FALSE]
      /\ nodes' = [nodes EXCEPT ![r] = [n \in Nodes(r[1]) |-> "Pending"]]
      /\ occupied' = [occupied EXCEPT ![r] = TRUE]
      /\ at' = [at EXCEPT ![c] = "notify"] /\ UNCHANGED <<cur, node>>
  BY Zenon, <1>3 DEF Accept, Enqueue, LeaveSubmit
<1>5. Executing' = Executing /\ Ending' = Ending
  BY Zenon, <1>4, ClientsAreThreads DEF Submit, Executing, Ending, Typed, ThreadsTyped
<1>6. \A q \in Tickets : q < sequence => run'[q] = run[q]
  BY <1>1, <1>4 DEF Typed, JobsTyped, Tickets
<1>7. run'[sequence] = r
  BY Zenon, <1>1, <1>4 DEF Typed, JobsTyped
<1>8. \A q \in pending \union finishing : run[q] # r
  BY ZenonT(60), <1>3 DEF FreeSlot, Owned
<1>9. \A q \in pending \union finishing :
        /\ run'[q] = run[q] /\ done'[run'[q]] = done[run[q]]
        /\ nodes'[run'[q]] = nodes[run[q]] /\ occupied'[run'[q]] = occupied[run[q]]
  BY Zenon, <1>4, <1>6, <1>8, TicketsOfJobs DEF Typed, SignalsTyped, SlotsTyped
<1>10. ~done'[r] /\ occupied'[r]
  BY Zenon, <1>4 DEF Typed, SignalsTyped, SlotsTyped
<1>11. \A n \in Nodes(r[1]) : nodes'[r][n] = "Pending"
  BY Zenon, <1>4 DEF Typed, SlotsTyped
<1>12. sequence \notin pending \union finishing
  BY SMTT(30), <1>1, TicketsOfJobs DEF Tickets
<1>13. Owned'
  <2>1. (pending \intersect finishing = {})'
    BY <1>4, <1>12 DEF Owned
  <2>2. (\A p, q \in pending \union finishing : run[p] = run[q] => p = q)'
    BY <1>4, <1>7, <1>8, <1>9 DEF Owned
  <2>3. (\A q \in pending \union finishing : ~done[run[q]])'
    BY <1>4, <1>7, <1>9, <1>10 DEF Owned
  <2>4. (\A t \in Executing : cur[t] \in pending /\ nodes[run[cur[t]]][node[t]] = "Running")'
    <3>1. \A t \in Executing' : cur'[t] \in pending' /\ nodes'[run'[cur[t]]] = nodes[run[cur[t]]]
      BY Zenon, <1>4, <1>5, <1>9 DEF Owned
    <3> QED
      BY <1>4, <1>5, <3>1 DEF Owned
  <2>5. (\A t \in Ending : cur[t] \in finishing)'
    BY Zenon, <1>4, <1>5 DEF Owned
  <2> QED
    BY <1>4, <1>5, <2>1, <2>2, <2>3, <2>4, <2>5 DEF Owned
<1>14. Attended'
  <2>1. (\A q \in pending : occupied[run[q]])'
    BY <1>4, <1>7, <1>9, <1>10 DEF Attended
  <2>2. (\A q \in pending : \A n \in Nodes(Graph(q)) :
           nodes[run[q]][n] = "Running" => \E t \in Executing : cur[t] = q /\ node[t] = n)'
    <3>1. \A n \in Nodes(run'[sequence][1]) : nodes'[run'[sequence]][n] # "Running"
      BY Zenon, <1>7, <1>11
    <3>2. \A q \in pending : run'[q] = run[q] /\ nodes'[run'[q]] = nodes[run[q]]
      BY Zenon, <1>9
    <3>3. \A q \in pending : \A n \in Nodes(run'[q][1]) :
            nodes'[run'[q]][n] = "Running" => \E t \in Executing' : cur'[t] = q /\ node'[t] = n
      BY SMTT(30), <1>4, <1>5, <3>2 DEF Attended, Graph
    <3> QED
      BY <1>4, <3>1, <3>3 DEF Graph
  <2> QED
    BY <1>4, <1>5, <2>1, <2>2 DEF Attended
<1> QED
  BY Zenon, <1>13, <1>14

LEMMA PublishOwned ==
  ASSUME Typed, Owned, Attended, NEW t \in Threads, Publish(t)
  PROVE  Owned' /\ Attended'
<1>1. t \in Ending /\ cur[t] \in finishing
  BY Zenon DEF Publish, Owned, Ending
<1>2. /\ finishing' = finishing \ {cur[t]} /\ done' = [done EXCEPT ![run[cur[t]]] = TRUE]
      /\ at' = [at EXCEPT ![t] = "announce"]
      /\ UNCHANGED <<pending, run, nodes, occupied, cur, node>>
  BY Zenon DEF Publish, pendingVars, slotVars
<1>3. Executing' = Executing /\ Ending' = Ending \ {t}
  BY Zenon, <1>2 DEF Publish, Executing, Ending, Typed, ThreadsTyped
<1>4. \A q \in pending' \union finishing' : run[q] # run[cur[t]]
  BY ZenonT(30), <1>1, <1>2 DEF Owned
<1>5. \A q \in pending' \union finishing' : ~done'[run[q]]
  BY SMTT(30), <1>1, <1>2, <1>4, TicketsOfJobs DEF Owned, Typed, SignalsTyped
<1>6. \A u \in Ending' : cur[u] \in finishing'
  BY Zenon, <1>1, <1>2, <1>3 DEF Owned
<1>7. Owned'
  BY <1>2, <1>3, <1>5, <1>6 DEF Owned
<1>8. Attended'
  BY <1>1, <1>2, <1>3 DEF Attended, Graph
<1> QED
  BY Zenon, <1>7, <1>8

LEMMA CompleteRunOwned ==
  ASSUME Typed, Owned, Attended, NEW t \in Threads, NEW f \in BOOLEAN, CompleteRun(t, f)
  PROVE  Owned' /\ Attended'
<1>1. t \in Executing /\ cur[t] \in pending /\ run[cur[t]] \in Runs
  BY Zenon, TicketsOfJobs DEF CompleteRun, Owned, Executing
<1>2. /\ nodes' = [nodes EXCEPT ![run[cur[t]]][node[t]] = "Done"]
      /\ at' = [at EXCEPT ![t] = Loop(t)]
      /\ UNCHANGED <<pending, finishing, run, done, occupied>>
  BY Zenon DEF CompleteRun, LeavePerform, pendingVars, signalVars
<1>3. \A u \in Threads \ {t} : cur'[u] = cur[u] /\ node'[u] = node[u]
  BY Zenon DEF CompleteRun, LeavePerform, Typed, ThreadsTyped
<1>4. Executing' = Executing \ {t} /\ Ending' = Ending
  BY Zenon, <1>2 DEF CompleteRun, Loop, Executing, Ending, Typed, ThreadsTyped
<1>5. \A q \in pending : \A n \in Nodes(Graph(q)) :
        (nodes'[run[q]][n] = "Running"
           <=> nodes[run[q]][n] = "Running" /\ ~(q = cur[t] /\ n = node[t]))
  <2>1. \A q \in pending : run[q] = run[cur[t]] => q = cur[t]
    BY Zenon, <1>1 DEF Owned
  <2> QED
    BY Zenon, <1>1, <1>2, <2>1, TicketsOfJobs DEF Typed, SlotsTyped, Graph
<1>6. \A u \in Executing' : u \in Executing /\ ~(cur[u] = cur[t] /\ node[u] = node[t])
  BY Zenon, <1>1, <1>4 DEF Owned
<1>7. Owned'
  <2>1. \A u \in Executing' : cur'[u] \in pending' /\ nodes'[run'[cur'[u]]][node'[u]] = "Running"
    BY SMTT(30), <1>2, <1>3, <1>4, <1>5, <1>6, TicketsOfJobs DEF Owned, Executing
  <2>2. \A u, v \in Executing' : cur'[u] = cur'[v] /\ node'[u] = node'[v] => u = v
    BY ZenonT(30), <1>3, <1>4 DEF Owned, Executing
  <2>3. /\ \A u \in Ending' : cur'[u] \in finishing'
        /\ \A u, v \in Ending' : cur'[u] = cur'[v] => u = v
    <3>1. \A u \in Ending : cur'[u] = cur[u]
      BY Zenon, <1>3 DEF CompleteRun, Ending
    <3> QED
      BY <1>2, <1>4, <3>1 DEF Owned
  <2> QED
    BY Zenon, <1>2, <2>1, <2>2, <2>3 DEF Owned
<1>8. Attended'
  <2>1. \A q \in pending' : \A n \in Nodes(Graph(q)') : nodes'[run'[q]][n] = "Running"
          => \E u \in Executing' : cur'[u] = q /\ node'[u] = n
    BY SMTT(30), <1>2, <1>3, <1>4, <1>5 DEF Attended, Graph, Executing
  <2>2. \A q \in finishing' : \E u \in Ending' : cur'[u] = q
    BY <1>2, <1>3, <1>4 DEF Attended, CompleteRun, Ending
  <2> QED
    BY Zenon, <1>2, <2>1, <2>2 DEF Attended
<1> QED
  BY Zenon, <1>7, <1>8

\* The scan marks pending nodes only, so it neither starts nor ends a running one.
LEMMA ScanRunning ==
  ASSUME Typed, NEW S, NEW r \in Runs, NEW n \in Nodes(r[1])
  PROVE  /\ ScanNodes(S)[r][n] = "Running" <=> nodes[r][n] = "Running"
         /\ ScanNodes(S)[r] \in [Nodes(r[1]) -> {"Pending", "Running", "Done"}]
  BY Zenon DEF ScanNodes, Typed, SlotsTyped

LEMMA TakeFinishOwned ==
  ASSUME Typed, Owned, Attended, NEW t \in Threads, TakeFinish(t)
  PROVE  Owned' /\ Attended'
<1>1. \E q \in pending : AllDone(q) /\ Remove(t, q, {p \in pending : p <= q})
  BY Zenon DEF TakeFinish, Finishable
<1>2. PICK q \in pending : AllDone(q) /\ Remove(t, q, {p \in pending : p <= q})
  BY Zenon, <1>1
<1>3. /\ nodes' = ScanNodes({p \in pending : p <= q})
      /\ pending' = pending \ {q} /\ finishing' = finishing \union {q}
      /\ cur' = [cur EXCEPT ![t] = q] /\ at' = [at EXCEPT ![t] = "release"]
      /\ UNCHANGED <<run, done, occupied, node>>
  BY Zenon, <1>2 DEF Remove, signalVars
<1>4. \A p \in pending : \A n \in Nodes(Graph(p)) :
        nodes'[run[p]][n] = "Running" <=> nodes[run[p]][n] = "Running"
  BY ZenonT(60), <1>3, ScanRunning, TicketsOfJobs DEF Graph
<1>5. Executing' = Executing /\ Ending' = Ending \union {t} /\ t \notin Executing \union Ending
  BY Zenon, <1>3 DEF TakeFinish, Looking, Loop, Executing, Ending, Typed, ThreadsTyped
<1>6. \A u \in Threads \ {t} : cur'[u] = cur[u]
  BY Zenon, <1>3 DEF Typed, ThreadsTyped
<1>7. cur'[t] = q
  BY Zenon, <1>3 DEF Typed, ThreadsTyped
<1>8. \A u \in Executing : cur[u] # q
  BY Zenon, <1>2, TicketsOfJobs DEF Owned, AllDone
<1>9. \A u \in Executing \union Ending : u \in Threads \ {t} /\ cur'[u] = cur[u]
  BY Zenon, <1>5, <1>6 DEF Executing, Ending
<1>10. Owned'
  <2>1. \A u \in Executing' : cur'[u] \in pending' /\ nodes'[run'[cur'[u]]][node'[u]] = "Running"
    <3>1. \A u \in Executing : /\ cur'[u] = cur[u] /\ cur[u] \in pending /\ cur[u] # q
                               /\ nodes[run[cur[u]]][node[u]] = "Running"
                               /\ node[u] \in Nodes(Graph(cur[u]))
      BY Zenon, <1>8, <1>9, TicketsOfJobs DEF Owned
    <3> QED
      BY SMTT(30), <1>3, <1>4, <1>5, <3>1
  <2>2. \A u, v \in Executing' : cur'[u] = cur'[v] /\ node'[u] = node'[v] => u = v
    BY SMTT(30), <1>3, <1>5, <1>9 DEF Owned
  <2>3. \A u \in Ending' : cur'[u] \in finishing'
    BY <1>3, <1>5, <1>7, <1>9 DEF Owned
  <2>4. \A u, v \in Ending' : cur'[u] = cur'[v] => u = v
    <3>1. \A u \in Ending : cur[u] # q
      BY Zenon DEF Owned
    <3> QED
      BY <1>5, <1>7, <1>9, <3>1 DEF Owned
  <2>5. pending' \union finishing' = pending \union finishing /\ pending' \intersect finishing' = {}
    BY SMTT(30), <1>3 DEF Owned
  <2> QED
    BY ZenonT(60), <1>3, <2>1, <2>2, <2>3, <2>4, <2>5 DEF Owned
<1>11. Attended'
  <2>1. \A p \in pending' : \A n \in Nodes(Graph(p)') : nodes'[run'[p]][n] = "Running"
          => \E u \in Executing' : cur'[u] = p /\ node'[u] = n
    <3>1. \A p \in pending : \A n \in Nodes(run[p][1]) : nodes'[run[p]][n] = "Running"
            => \E u \in Executing : cur[u] = p /\ node[u] = n
      BY ZenonT(60), <1>4 DEF Attended, Graph
    <3> QED
      BY <1>3, <1>5, <1>9, <3>1 DEF Graph
  <2>2. \A p \in finishing' : \E u \in Ending' : cur'[u] = p
    BY <1>3, <1>5, <1>7, <1>9 DEF Attended
  <2> QED
    BY Zenon, <1>3, <2>1, <2>2 DEF Attended
<1> QED
  BY Zenon, <1>10, <1>11

\* What the chosen region of TakeRun satisfies, and what Start changes.
LEMMA TakeRunStarts ==
  ASSUME Typed, NEW t \in Threads, TakeRun(t)
  PROVE  \E l \in Lanes, q \in pending :
           \E n \in Nodes(Graph(q)) :
             /\ Ready(l, q, n) /\ Start(t, l, q, n)
             /\ Executing' = Executing \union {t} /\ t \notin Executing
             /\ Ending' = Ending /\ t \notin Ending
             /\ cur'[t] = q /\ node'[t] = n
             /\ \A u \in Executing \union Ending : cur'[u] = cur[u] /\ node'[u] = node[u]
<1>1. \E l \in Lanes, q \in pending :
        \E n \in Nodes(Graph(q)) : n \in AllNodes /\ Ready(l, q, n) /\ Start(t, l, q, n)
  BY ZenonT(60) DEF TakeRun, Candidate, Ready
<1>2. PICK l \in Lanes, q \in pending :
        \E n \in Nodes(Graph(q)) : n \in AllNodes /\ Ready(l, q, n) /\ Start(t, l, q, n)
  BY Zenon, <1>1
<1>3. PICK n \in Nodes(Graph(q)) : n \in AllNodes /\ Ready(l, q, n) /\ Start(t, l, q, n)
  BY Zenon, <1>2
<1>4. /\ Executing' = Executing \union {t} /\ t \notin Executing
      /\ Ending' = Ending /\ t \notin Ending
  BY <1>3 DEF Start, TakeRun, Looking, Loop, Executing, Ending, Typed, ThreadsTyped
<1>5. /\ cur'[t] = q /\ node'[t] = n
      /\ \A u \in Threads \ {t} : cur'[u] = cur[u] /\ node'[u] = node[u]
  BY Zenon, <1>3 DEF Start, Typed, ThreadsTyped
<1>6. \A u \in Executing \union Ending : cur'[u] = cur[u] /\ node'[u] = node[u]
  BY Zenon, <1>4, <1>5 DEF Executing, Ending
<1> QED
  BY Zenon, <1>3, <1>4, <1>5, <1>6

LEMMA TakeRunOwned ==
  ASSUME Typed, Owned, Attended, NEW t \in Threads, TakeRun(t)
  PROVE  Owned' /\ Attended'
<1>1. PICK l \in Lanes, q \in pending :
        \E n \in Nodes(Graph(q)) :
          /\ Ready(l, q, n) /\ Start(t, l, q, n)
          /\ Executing' = Executing \union {t} /\ t \notin Executing
          /\ Ending' = Ending /\ t \notin Ending
          /\ cur'[t] = q /\ node'[t] = n
          /\ \A u \in Executing \union Ending : cur'[u] = cur[u] /\ node'[u] = node[u]
  BY Zenon, TakeRunStarts
<1>2. PICK n \in Nodes(Graph(q)) :
        /\ Ready(l, q, n) /\ Start(t, l, q, n)
        /\ Executing' = Executing \union {t} /\ t \notin Executing
        /\ Ending' = Ending /\ t \notin Ending
        /\ cur'[t] = q /\ node'[t] = n
        /\ \A u \in Executing \union Ending : cur'[u] = cur[u] /\ node'[u] = node[u]
  BY Zenon, <1>1
<1>3. /\ nodes' = [ScanNodes(pending) EXCEPT ![run[q]][n] = "Running"]
      /\ UNCHANGED <<pending, finishing, run, done, occupied>>
      /\ nodes[run[q]][n] = "Pending"
  BY Zenon, <1>2 DEF Start, Ready, pendingVars, signalVars
<1>4. \A p \in pending : \A m \in Nodes(Graph(p)) :
        (nodes'[run[p]][m] = "Running" <=> nodes[run[p]][m] = "Running" \/ (p = q /\ m = n))
  <2>1. \A p \in pending : run[p] = run[q] => p = q
    BY Zenon DEF Owned
  <2>2. DOMAIN ScanNodes(pending) = Runs
    BY Zenon DEF ScanNodes
  <2> QED
    BY <1>3, <2>1, <2>2, ScanRunning, TicketsOfJobs DEF Graph
<1>5. Owned'
  <2>1. \A u \in Executing' : cur'[u] \in pending' /\ nodes'[run'[cur'[u]]][node'[u]] = "Running"
    BY <1>2, <1>3, <1>4, TicketsOfJobs DEF Owned
  <2>2. \A u, v \in Executing' : cur'[u] = cur'[v] /\ node'[u] = node'[v] => u = v
    <3>1. \A u \in Executing : ~(cur[u] = q /\ node[u] = n)
      BY Zenon, <1>3 DEF Owned
    <3>2. \A u, v \in Executing : cur[u] = cur[v] /\ node[u] = node[v] => u = v
      BY Zenon DEF Owned
    <3>3. /\ Executing' = Executing \union {t} /\ cur'[t] = q /\ node'[t] = n
          /\ \A u \in Executing : cur'[u] = cur[u] /\ node'[u] = node[u]
      BY Zenon, <1>2
    <3> SUFFICES ASSUME NEW u \in Executing', NEW v \in Executing',
                        cur'[u] = cur'[v], node'[u] = node'[v], u # v
                 PROVE  FALSE
      BY Zenon
    <3>4. CASE u \in Executing /\ v \in Executing
      BY Zenon, <3>2, <3>3, <3>4
    <3>5. CASE u = t \/ v = t
      BY Zenon, <3>1, <3>3, <3>5
    <3> QED
      BY Zenon, <3>3, <3>4, <3>5
  <2> QED
    BY SMTT(30), <1>2, <1>3, <2>1, <2>2 DEF Owned
<1>6. Attended'
  <2>1. \A p \in pending' : \A m \in Nodes(Graph(p)') : nodes'[run'[p]][m] = "Running"
          => \E u \in Executing' : cur'[u] = p /\ node'[u] = m
    BY SMTT(30), <1>2, <1>3, <1>4 DEF Attended, Graph
  <2> QED
    BY <1>2, <1>3, <2>1 DEF Attended
<1> QED
  BY Zenon, <1>5, <1>6

-----------------------------------------------------------------------------
(* Blocker counts and the order of conflicting jobs. *)

\* The jobs that job q waits for.
Ahead(q) == {p \in pending : p < q /\ Conflicts(Graph(p), Graph(q))}
Counted == blockers \in [Tickets -> Nat] /\ BlockersExact

LEMMA AheadFinite ==
  ASSUME Typed, NEW q
  PROVE  IsFiniteSet(Ahead(q)) /\ Cardinality(Ahead(q)) \in Nat
  BY Zenon, TicketsFinite DEF Ahead, Typed, SchedulerTyped

LEMMA SameJobsCounted ==
  ASSUME Counted, UNCHANGED <<pending, run, blockers>>
  PROVE  Counted'
  BY Zenon DEF Counted, BlockersExact, Graph

\* The new job comes after every pending one, so no other count changes.
LEMMA SubmitCounted ==
  ASSUME Typed, Counted, NEW c \in Clients, Submit(c)
  PROVE  Counted'
<1>1. sequence \in Tickets /\ graph[c] \in Graphs
  BY Zenon, SubmitIssues
<1>2. \E r \in Runs : Accept(c, r)
  BY Zenon, <1>1 DEF Submit, Runs
<1>3. PICK r \in Runs : Accept(c, r)
  BY Zenon, <1>2
<1>4. /\ pending' = pending \union {sequence} /\ run' = [run EXCEPT ![sequence] = r]
      /\ blockers' = [blockers EXCEPT ![sequence] = Cardinality(EarlierConflicts(r[1]))]
  BY Zenon, <1>3 DEF Accept, Enqueue
<1>14. \A q \in pending : q \in Tickets /\ q < sequence
  BY Zenon, TicketsOfJobs
<1>15. \A q \in pending : q # sequence
  BY <1>1, <1>14 DEF Tickets
<1>16. run \in [Tickets -> Runs \cup {None}] /\ blockers \in [Tickets -> Int]
  BY Zenon DEF Typed, JobsTyped
<1>5. \A q \in pending : q \in Tickets /\ q < sequence /\ run'[q] = run[q]
  BY Zenon, <1>1, <1>4, <1>14, <1>15, <1>16
<1>6. run'[sequence] = r /\ \A q \in pending : blockers'[q] = blockers[q]
  BY Zenon, <1>1, <1>4, <1>14, <1>15, <1>16
<1>7. {p \in pending' : p < sequence /\ Conflicts(run'[p][1], run'[sequence][1])}
        = EarlierConflicts(r[1])
  BY <1>1, <1>4, <1>5, <1>6 DEF EarlierConflicts, Graph, Tickets
<1>8. \A q \in pending :
        {p \in pending' : p < q /\ Conflicts(run'[p][1], run'[q][1])} = Ahead(q)
  BY <1>1, <1>4, <1>5 DEF Ahead, Graph, Tickets
<1>9. Cardinality(EarlierConflicts(r[1])) \in Nat
  BY Zenon, TicketsFinite DEF Typed, SchedulerTyped, EarlierConflicts
<1>10. blockers'[sequence] = Cardinality(EarlierConflicts(r[1]))
  BY Zenon, <1>1, <1>4 DEF Typed, JobsTyped
<1>11. \A q \in pending : blockers'[q] = Cardinality(Ahead(q))
  BY Zenon, <1>6 DEF Counted, BlockersExact, Ahead
<1>12. blockers' \in [Tickets -> Nat]
  BY Zenon, <1>1, <1>4, <1>9 DEF Counted
<1>13. BlockersExact'
  <2>1. \A q \in pending' : blockers'[q] =
          Cardinality({p \in pending' : p < q /\ Conflicts(run'[p][1], run'[q][1])})
    BY ZenonT(60), <1>4, <1>7, <1>8, <1>10, <1>11
  <2> QED
    BY Zenon, <2>1 DEF BlockersExact, Graph
<1> QED
  BY Zenon, <1>12, <1>13 DEF Counted

\* The removed job was counted by exactly the jobs that remove decrements.
LEMMA TakeFinishCounted ==
  ASSUME Typed, Counted, NEW t \in Threads, TakeFinish(t)
  PROVE  Counted'
<1>1. \E q \in pending : Remove(t, q, {p \in pending : p <= q})
  BY Zenon DEF TakeFinish, Finishable
<1>2. PICK q \in pending : Remove(t, q, {p \in pending : p <= q})
  BY Zenon, <1>1
<1>3. /\ pending' = pending \ {q} /\ run' = run
      /\ blockers' = [p \in Tickets |-> IF Unblocks(q, p) THEN blockers[p] - 1 ELSE blockers[p]]
  BY Zenon, <1>2 DEF Remove
<1>4. \A p \in pending : p \in Tickets /\ p \in Int
  BY TicketsOfJobs DEF Tickets
<1>5. \A p \in pending : Unblocks(q, p) <=> q \in Ahead(p)
  BY Zenon, <1>4 DEF Unblocks, Ahead
<1>6. \A p \in pending : {x \in pending' : x < p /\ Conflicts(Graph(x), Graph(p))}
                           = Ahead(p) \ {q}
  BY Zenon, <1>3 DEF Ahead
<1>7. \A p \in pending : blockers[p] = Cardinality(Ahead(p)) /\ IsFiniteSet(Ahead(p))
  BY Zenon, AheadFinite DEF Counted, BlockersExact, Ahead
<1>8. \A p \in pending : Cardinality(Ahead(p) \ {q})
        = IF q \in Ahead(p) THEN Cardinality(Ahead(p)) - 1 ELSE Cardinality(Ahead(p))
  BY Zenon, <1>7, FS_RemoveElement
<1>9. \A p \in pending : blockers'[p] = Cardinality(Ahead(p) \ {q})
  BY Zenon, <1>3, <1>4, <1>5, <1>7, <1>8
<1>10. \A p \in pending : Cardinality(Ahead(p) \ {q}) \in Nat
  BY Zenon, <1>7, FS_RemoveElement, FS_CardinalityType
<1>11. blockers' \in [Tickets -> Nat]
  <2>1. \A p \in Tickets : blockers'[p] \in Nat
    <3>1. \A p \in Tickets : p \notin pending => blockers'[p] = blockers[p]
      BY Zenon, <1>3 DEF Unblocks
    <3> QED
      BY Zenon, <1>9, <1>10, <3>1 DEF Counted
  <2> QED
    BY Zenon, <1>3, <2>1
<1>12. BlockersExact'
  <2>1. \A p \in pending' : blockers'[p]
          = Cardinality({x \in pending' : x < p /\ Conflicts(run[x][1], run[p][1])})
    BY Zenon, <1>3, <1>6, <1>9 DEF Graph
  <2> QED
    BY Zenon, <1>3, <2>1 DEF BlockersExact, Graph
<1> QED
  BY Zenon, <1>11, <1>12 DEF Counted

LEMMA QuietOrder ==
  ASSUME Typed, ConflictOrder, QuietJobs
  PROVE  ConflictOrder'
  BY Zenon DEF ConflictOrder, QuietJobs, Graph

LEMMA SubmitOrder ==
  ASSUME Typed, ConflictOrder, NEW c \in Clients, Submit(c)
  PROVE  ConflictOrder'
<1>1. sequence \in Tickets /\ graph[c] \in Graphs
  BY Zenon, SubmitIssues
<1>2. \E r \in Runs : Accept(c, r)
  BY Zenon, <1>1 DEF Submit, Runs
<1>3. PICK r \in Runs : Accept(c, r)
  BY Zenon, <1>2
<1>4. /\ pending' = pending \union {sequence} /\ run' = [run EXCEPT ![sequence] = r]
      /\ at' = [at EXCEPT ![c] = "notify"] /\ UNCHANGED <<cur, node>>
  BY Zenon, <1>3 DEF Accept, Enqueue, LeaveSubmit
<1>5. Executing' = Executing
  BY Zenon, <1>4, ClientsAreThreads DEF Submit, Executing, Typed, ThreadsTyped
<1>6. \A q \in pending : q \in Int /\ q < sequence /\ run'[q] = run[q]
  BY <1>1, <1>4, TicketsOfJobs DEF Typed, JobsTyped, Tickets
<1>7. sequence \in Int
  BY <1>1 DEF Tickets
<1>8. \A t \in Executing : cur[t] \in pending /\ ~(sequence < cur[t])
  BY <1>6, <1>7 DEF ConflictOrder
<1> QED
  BY SMTT(30), <1>4, <1>5, <1>6, <1>8 DEF ConflictOrder, Graph

LEMMA TakeFinishOrder ==
  ASSUME Typed, Owned, Attended, ConflictOrder, NEW t \in Threads, TakeFinish(t)
  PROVE  ConflictOrder'
<1>1. Owned'
  BY Zenon, TakeFinishOwned
<1>2. \E q \in pending : Remove(t, q, {p \in pending : p <= q})
  BY Zenon DEF TakeFinish, Finishable
<1>3. pending' \subseteq pending /\ run' = run /\ at' = [at EXCEPT ![t] = "release"]
      /\ \A u \in Threads \ {t} : cur'[u] = cur[u]
  BY <1>2 DEF Remove, Typed, ThreadsTyped
<1>4. \A u \in Executing' : u \in Executing /\ cur'[u] = cur[u]
  BY Zenon, <1>3 DEF Executing, Typed, ThreadsTyped
<1>5. \A u \in Executing' : cur'[u] \in pending'
  BY Zenon, <1>1 DEF Owned
<1> QED
  BY Zenon, <1>3, <1>4, <1>5 DEF ConflictOrder, Graph

LEMMA PublishOrder ==
  ASSUME Typed, ConflictOrder, NEW t \in Threads, Publish(t)
  PROVE  ConflictOrder'
<1>1. Executing' = Executing
  BY Zenon DEF Publish, Executing, Typed, ThreadsTyped
<1> QED
  BY Zenon, <1>1 DEF Publish, ConflictOrder, Graph, pendingVars

LEMMA CompleteRunOrder ==
  ASSUME Typed, ConflictOrder, NEW t \in Threads, NEW f \in BOOLEAN, CompleteRun(t, f)
  PROVE  ConflictOrder'
<1>1. \A u \in Executing' : u \in Executing /\ cur'[u] = cur[u]
  BY Zenon DEF CompleteRun, LeavePerform, Loop, Executing, Typed, ThreadsTyped
<1> QED
  BY Zenon, <1>1 DEF CompleteRun, ConflictOrder, Graph, pendingVars

\* A job starts only when its count is zero, and then nothing is ahead of it.
LEMMA TakeRunOrder ==
  ASSUME Typed, Counted, ConflictOrder, NEW t \in Threads, TakeRun(t)
  PROVE  ConflictOrder'
<1>1. PICK l \in Lanes, q \in pending :
        \E n \in Nodes(Graph(q)) :
          /\ Ready(l, q, n) /\ Start(t, l, q, n)
          /\ Executing' = Executing \union {t} /\ t \notin Executing
          /\ Ending' = Ending /\ t \notin Ending
          /\ cur'[t] = q /\ node'[t] = n
          /\ \A u \in Executing \union Ending : cur'[u] = cur[u] /\ node'[u] = node[u]
  BY Zenon, TakeRunStarts
<1>2. blockers[q] = 0 /\ UNCHANGED <<pending, run>>
  BY Zenon, <1>1 DEF Ready, Unblocked, Start, pendingVars
<1>3. Cardinality(Ahead(q)) = 0
  BY Zenon, <1>2 DEF Counted, BlockersExact, Ahead
<1>4. Ahead(q) = {}
  BY Zenon, <1>3, AheadFinite, FS_EmptySet
<1> QED
  BY ZenonT(60), <1>1, <1>2, <1>4 DEF ConflictOrder, Ahead, Graph

-----------------------------------------------------------------------------
(* Lanes, native stages and admission. *)

\* A lane is reserved for one executing thread or, for compute, for one stage.
LaneOwned ==
  /\ \A t \in Executing : running[Lane(cur[t], node[t])]
  /\ \A t, u \in Executing : Lane(cur[t], node[t]) = Lane(cur[u], node[u]) => t = u
  /\ leases # {} => running[Compute] /\ \A t \in Executing : Lane(cur[t], node[t]) # Compute
  /\ \A c, d \in leases : c = d
  /\ native_active <=> leases # {}
  /\ \A l \in Lanes : running[l] => \/ \E t \in Executing : Lane(cur[t], node[t]) = l
                                    \/ l = Compute /\ leases # {}
  /\ \A c \in Clients : at[c] = "yield" => c \in leases

LEMMA LanesOfThreads ==
  ASSUME Typed
  PROVE  Compute \in Lanes /\ \A t \in Executing : Lane(cur[t], node[t]) \in Lanes
<1>1. \A r \in Runs : r[1] \in Graphs
  BY Zenon DEF Runs
<1> QED
  BY <1>1, SchedulerAssumption, TicketsOfJobs DEF Lane, Graph, Compute, Lanes

LEMMA QuietLaneOwned ==
  ASSUME LaneOwned, QuietLanes
  PROVE  LaneOwned'
<1>1. \A t \in Executing : Lane(cur[t], node[t])' = Lane(cur[t], node[t])
  BY Zenon DEF QuietLanes, Lane, Graph
<1> QED
  BY <1>1 DEF LaneOwned, QuietLanes

LEMMA QuietQueued ==
  ASSUME Queued, QuietLanes
  PROVE  Queued'
  BY DEF Queued, QuietLanes

LEMMA SubmitQuietLanes ==
  ASSUME Typed, NEW c \in Clients, Submit(c)
  PROVE  QuietLanes
<1>1. sequence \in Tickets /\ graph[c] \in Graphs
  BY Zenon, SubmitIssues
<1>2. \E r \in Runs : Accept(c, r)
  BY Zenon, <1>1 DEF Submit, Runs
<1>3. PICK r \in Runs : Accept(c, r)
  BY Zenon, <1>2
<1>4. /\ run' = [run EXCEPT ![sequence] = r] /\ at' = [at EXCEPT ![c] = "notify"]
      /\ UNCHANGED <<cur, node, native, native_active, running, leases>>
  BY Zenon, <1>3 DEF Accept, Enqueue, LeaveSubmit
<1>5. Executing' = Executing
  BY Zenon, <1>4, ClientsAreThreads DEF Submit, Executing, Typed, ThreadsTyped
<1>6. \A t \in Executing : run'[cur[t]] = run[cur[t]]
  BY <1>1, <1>4, TicketsOfJobs DEF Typed, JobsTyped, Tickets
<1>7. \A d \in Clients : /\ at'[d] = "native" => at[d] = "native"
                         /\ at'[d] = "yield" => at[d] = "yield"
  BY Zenon, <1>4 DEF Typed, ThreadsTyped, Threads
<1> QED
  BY Zenon, <1>4, <1>5, <1>6, <1>7 DEF QuietLanes

LEMMA PublishQuietLanes ==
  ASSUME Typed, NEW t \in Threads, Publish(t)
  PROVE  QuietLanes
<1>1. Executing' = Executing
  BY Zenon DEF Publish, Executing, Typed, ThreadsTyped
<1>2. \A d \in Clients : /\ at'[d] = "native" => at[d] = "native"
                         /\ at'[d] = "yield" => at[d] = "yield"
  BY Zenon DEF Publish, Typed, ThreadsTyped, Threads
<1> QED
  BY Zenon, <1>1, <1>2 DEF Publish, QuietLanes, pendingVars

LEMMA TakeFinishQuietLanes ==
  ASSUME Typed, NEW t \in Threads, TakeFinish(t)
  PROVE  QuietLanes
<1>1. \E q \in pending : Remove(t, q, {p \in pending : p <= q})
  BY Zenon DEF TakeFinish, Finishable
<1>2. PICK q \in pending : Remove(t, q, {p \in pending : p <= q})
  BY Zenon, <1>1
<1>3. /\ cur' = [cur EXCEPT ![t] = q] /\ at' = [at EXCEPT ![t] = "release"]
      /\ UNCHANGED <<run, node, native, native_active, running, leases>>
  BY Zenon, <1>2 DEF Remove
<1>4. Executing' = Executing /\ t \notin Executing
  BY Zenon, <1>3 DEF TakeFinish, Looking, Loop, Executing, Typed, ThreadsTyped
<1>5. \A u \in Threads \ {t} : cur'[u] = cur[u] /\ at'[u] = at[u]
  BY Zenon, <1>3 DEF Typed, ThreadsTyped
<1>6. \A d \in Clients : /\ at'[d] = "native" => at[d] = "native" /\ cur'[d] = cur[d]
                         /\ at'[d] = "yield" => at[d] = "yield"
  BY Zenon, <1>3, <1>5 DEF Typed, ThreadsTyped, Threads
<1>7. \A u \in Executing : cur'[u] = cur[u]
  BY Zenon, <1>4, <1>5 DEF Executing
<1> QED
  BY Zenon, <1>3, <1>4, <1>6, <1>7 DEF QuietLanes

LEMMA TakeRunLanes ==
  ASSUME Typed, Queued, LaneOwned, NEW t \in Threads, TakeRun(t)
  PROVE  Queued' /\ LaneOwned'
<1>1. PICK l \in Lanes, q \in pending :
        \E n \in Nodes(Graph(q)) :
          /\ Ready(l, q, n) /\ Start(t, l, q, n)
          /\ Executing' = Executing \union {t} /\ t \notin Executing
          /\ Ending' = Ending /\ t \notin Ending
          /\ cur'[t] = q /\ node'[t] = n
          /\ \A u \in Executing \union Ending : cur'[u] = cur[u] /\ node'[u] = node[u]
  BY Zenon, TakeRunStarts
<1>2. PICK n \in Nodes(Graph(q)) :
        /\ Ready(l, q, n) /\ Start(t, l, q, n)
        /\ Executing' = Executing \union {t} /\ t \notin Executing
        /\ Ending' = Ending /\ t \notin Ending
        /\ cur'[t] = q /\ node'[t] = n
        /\ \A u \in Executing \union Ending : cur'[u] = cur[u] /\ node'[u] = node[u]
  BY Zenon, <1>1
<1>3. /\ running' = [running EXCEPT ![l] = TRUE] /\ at' = [at EXCEPT ![t] = "begin"]
      /\ cur' = [cur EXCEPT ![t] = q]
      /\ UNCHANGED <<run, native, native_active, leases>>
  BY Zenon, <1>2 DEF Start, pendingVars
<1>4. ~running[l] /\ Lane(q, n) = l
  BY Zenon, <1>2 DEF Ready, LaneFree
<1>5. Lane(cur[t], node[t])' = l /\ \A u \in Executing : Lane(cur[u], node[u])' = Lane(cur[u], node[u])
  BY Zenon, <1>2, <1>3, <1>4 DEF Lane, Graph
<1>6. \A c \in Clients : /\ at'[c] = "native" => at[c] = "native" /\ cur'[c] = cur[c]
                         /\ at'[c] = "yield" => at[c] = "yield"
  BY Zenon, <1>3 DEF Typed, ThreadsTyped, Threads
<1>7. Queued'
  BY <1>3, <1>6 DEF Queued
<1>8. \A u \in Executing : Lane(cur[u], node[u]) \in Lanes /\ Lane(cur[u], node[u]) # l
  BY Zenon, <1>4, LanesOfThreads DEF LaneOwned
<1>9. running'[l] /\ \A k \in Lanes : k # l => running'[k] = running[k]
  BY Zenon, <1>3 DEF Typed, SchedulerTyped
<1>10. LaneOwned'
  <2>1. (\A u \in Executing : running[Lane(cur[u], node[u])])'
    BY ZenonT(60), <1>2, <1>5, <1>8, <1>9 DEF LaneOwned
  <2>2. (\A u, v \in Executing : Lane(cur[u], node[u]) = Lane(cur[v], node[v]) => u = v)'
    <3>1. \A u, v \in Executing : Lane(cur[u], node[u]) = Lane(cur[v], node[v]) => u = v
      BY Zenon DEF LaneOwned
    <3>2. \A u \in Executing : Lane(cur[u], node[u])' # l
      BY Zenon, <1>5, <1>8
    <3>3. ASSUME NEW u \in Executing', NEW v \in Executing', Lane(cur[u], node[u])' = Lane(cur[v], node[v])'
          PROVE  u = v
      <4>1. u \in Executing \/ u = t
        BY Zenon, <1>2
      <4>2. v \in Executing \/ v = t
        BY Zenon, <1>2
      <4>3. CASE u = t
        BY Zenon, <1>5, <3>2, <3>3, <4>2, <4>3
      <4>4. CASE v = t
        BY Zenon, <1>5, <3>2, <3>3, <4>1, <4>4
      <4>5. CASE u \in Executing /\ v \in Executing
        BY Zenon, <1>5, <3>1, <3>3, <4>5
      <4> QED
        BY Zenon, <4>1, <4>2, <4>3, <4>4, <4>5
    <3> QED
      BY Zenon, <3>3
  <2>3. (leases # {} => running[Compute] /\ \A u \in Executing : Lane(cur[u], node[u]) # Compute)'
    <3>1. leases' = leases /\ Compute \in Lanes
      BY Zenon, <1>3, LanesOfThreads
    <3>2. leases # {} => running[Compute] /\ \A u \in Executing : Lane(cur[u], node[u]) # Compute
      BY Zenon DEF LaneOwned
    <3>3. leases # {} => l # Compute
      BY Zenon, <1>4, <3>2
    <3>4. leases # {} => running'[Compute]
      BY Zenon, <1>9, <3>1, <3>2, <3>3
    <3>5. leases # {} => \A u \in Executing' : Lane(cur[u], node[u])' # Compute
      BY Zenon, <1>2, <1>5, <3>2, <3>3
    <3> QED
      BY Zenon, <3>1, <3>4, <3>5 DEF Compute
  <2>4. (\A k \in Lanes : running[k] => \/ \E u \in Executing : Lane(cur[u], node[u]) = k
                                        \/ k = Compute /\ leases # {})'
    <3>1. \A k \in Lanes : running[k] => \/ \E u \in Executing : Lane(cur[u], node[u]) = k
                                         \/ k = Compute /\ leases # {}
      BY Zenon DEF LaneOwned
    <3>2. leases' = leases
      BY Zenon, <1>3
    <3>3. ASSUME NEW k \in Lanes, running'[k]
          PROVE  \/ \E u \in Executing' : Lane(cur[u], node[u])' = k
                 \/ k = Compute /\ leases # {}
      <4>1. CASE k = l
        BY Zenon, <1>2, <1>5, <4>1
      <4>2. CASE k # l
        BY Zenon, <1>2, <1>5, <1>9, <3>1, <3>3, <4>2
      <4> QED
        BY Zenon, <4>1, <4>2
    <3> QED
      BY Zenon, <3>2, <3>3 DEF Lanes, Compute
  <2> QED
    BY Zenon, <1>3, <1>6, <2>1, <2>2, <2>3, <2>4 DEF LaneOwned
<1> QED
  BY Zenon, <1>7, <1>10

LEMMA CompleteRunLanes ==
  ASSUME Typed, Queued, LaneOwned, NEW t \in Threads, NEW f \in BOOLEAN, CompleteRun(t, f)
  PROVE  Queued' /\ LaneOwned'
<1> DEFINE l == Lane(cur[t], node[t])
<1>1. /\ running' = [running EXCEPT ![l] = FALSE] /\ at' = [at EXCEPT ![t] = Loop(t)]
      /\ UNCHANGED <<run, native, native_active, leases>>
  BY Zenon DEF CompleteRun, LeavePerform, pendingVars
<1>2. \A u \in Threads \ {t} : cur'[u] = cur[u] /\ node'[u] = node[u]
  BY Zenon DEF CompleteRun, LeavePerform, Typed, ThreadsTyped
<1>3. Executing' = Executing \ {t} /\ t \in Executing
  BY Zenon, <1>1 DEF CompleteRun, Loop, Executing, Typed, ThreadsTyped
<1>4. \A u \in Executing' : u \in Executing /\ Lane(cur[u], node[u])' = Lane(cur[u], node[u])
  BY Zenon, <1>1, <1>2, <1>3 DEF Lane, Graph, Executing
<1>5. \A c \in Clients : /\ at'[c] = "native" => at[c] = "native" /\ cur'[c] = cur[c]
                         /\ at'[c] = "yield" => at[c] = "yield"
  BY Zenon, <1>1, <1>2 DEF Typed, ThreadsTyped, Threads, Loop
<1>6. Queued'
  BY Zenon, <1>1, <1>5 DEF Queued
<1>7. l \in Lanes /\ l = Lane(cur[t], node[t])
  BY Zenon, <1>3, LanesOfThreads
<1> HIDE DEF l
<1>8. ~running'[l] /\ \A k \in Lanes : k # l => running'[k] = running[k]
  BY Zenon, <1>1, <1>7 DEF Typed, SchedulerTyped
<1>9. \A u \in Executing' : Lane(cur[u], node[u]) # l
  BY Zenon, <1>3, <1>7 DEF LaneOwned
<1>10. leases # {} => l # Compute
  BY Zenon, <1>3, <1>7 DEF LaneOwned
<1>11. LaneOwned'
  <2>1. (\A u \in Executing : running[Lane(cur[u], node[u])])'
    BY ZenonT(60), <1>4, <1>8, <1>9, LanesOfThreads DEF LaneOwned
  <2>2. (\A u, v \in Executing : Lane(cur[u], node[u]) = Lane(cur[v], node[v]) => u = v)'
    BY Zenon, <1>4 DEF LaneOwned
  <2>3. (leases # {} => running[Compute] /\ \A u \in Executing : Lane(cur[u], node[u]) # Compute)'
    BY <1>1, <1>4, <1>8, <1>10, LanesOfThreads DEF LaneOwned
  <2>4. (\A k \in Lanes : running[k] => \/ \E u \in Executing : Lane(cur[u], node[u]) = k
                                        \/ k = Compute /\ leases # {})'
    <3>1. \A k \in Lanes : running'[k] => k # l /\ running[k]
      BY Zenon, <1>8
    <3>2. \A k \in Lanes : running'[k] =>
            \/ \E u \in Executing \ {t} : Lane(cur[u], node[u]) = k
            \/ k = Compute /\ leases # {}
      BY Zenon, <1>7, <3>1 DEF LaneOwned
    <3> QED
      BY Zenon, <1>1, <1>3, <1>4, <3>2
  <2> QED
    BY Zenon, <1>1, <1>5, <2>1, <2>2, <2>3, <2>4 DEF LaneOwned
<1> QED
  BY Zenon, <1>6, <1>11

\* A stage takes, or leaves, the compute lane that no executing thread uses.
LEMMA TakeLane ==
  ASSUME Typed, LaneOwned, NEW c \in Clients, leases \subseteq {c},
         \A t \in Executing : Lane(cur[t], node[t]) # Compute,
         Executing' = Executing, run' = run,
         \A t \in Executing : cur'[t] = cur[t] /\ node'[t] = node[t],
         running' = [running EXCEPT ![Compute] = TRUE], leases' = {c}, native_active',
         \A d \in Clients : at'[d] # "yield"
  PROVE  LaneOwned'
<1>1. \A t \in Executing' : t \in Executing /\ Lane(cur[t], node[t])' = Lane(cur[t], node[t])
  BY Zenon DEF Lane, Graph
<1>2. running'[Compute] /\ \A l \in Lanes : l # Compute => running'[l] = running[l]
  BY Zenon, LanesOfThreads DEF Typed, SchedulerTyped
<1>3. (\A t \in Executing : running[Lane(cur[t], node[t])])'
  BY <1>1, <1>2, LanesOfThreads DEF LaneOwned
<1>4. (\A l \in Lanes : running[l] => \/ \E t \in Executing : Lane(cur[t], node[t]) = l
                                      \/ l = Compute /\ leases # {})'
  BY <1>1, <1>2 DEF LaneOwned
<1>5. (\A t, u \in Executing : Lane(cur[t], node[t]) = Lane(cur[u], node[u]) => t = u)'
  BY <1>1 DEF LaneOwned
<1>6. (leases # {} => running[Compute] /\ \A t \in Executing : Lane(cur[t], node[t]) # Compute)'
  BY Zenon, <1>1, <1>2
<1> QED
  BY Zenon, <1>3, <1>4, <1>5, <1>6 DEF LaneOwned

LEMMA LeaveLane ==
  ASSUME Typed, LaneOwned, NEW c \in Clients, leases = {c},
         Executing' = Executing, run' = run,
         \A t \in Executing : cur'[t] = cur[t] /\ node'[t] = node[t],
         running' = [running EXCEPT ![Compute] = FALSE], leases' = {}, ~native_active',
         \A d \in Clients : at'[d] # "yield"
  PROVE  LaneOwned'
<1>1. \A t \in Executing' : t \in Executing /\ Lane(cur[t], node[t])' = Lane(cur[t], node[t])
  BY Zenon DEF Lane, Graph
<1>2. ~running'[Compute] /\ \A l \in Lanes : l # Compute => running'[l] = running[l]
  BY Zenon, LanesOfThreads DEF Typed, SchedulerTyped
<1>3. (\A t \in Executing : running[Lane(cur[t], node[t])])'
  BY <1>1, <1>2, LanesOfThreads DEF LaneOwned
<1>4. (\A l \in Lanes : running[l] => \/ \E t \in Executing : Lane(cur[t], node[t]) = l
                                      \/ l = Compute /\ leases # {})'
  BY <1>1, <1>2 DEF LaneOwned
<1>5. (\A t, u \in Executing : Lane(cur[t], node[t]) = Lane(cur[u], node[u]) => t = u)'
  BY <1>1 DEF LaneOwned
<1> QED
  BY Zenon, <1>3, <1>4, <1>5 DEF LaneOwned

LEMMA NativeJobs ==
  ASSUME Typed, NEW c \in Clients, at[c] \in {"idle", "native", "yield"},
         NEW pc \in {"idle", "native"}, at' = [at EXCEPT ![c] = pc],
         \A u \in Threads \ {c} : cur'[u] = cur[u],
         UNCHANGED <<pending, finishing, run, blockers, done, nodes, occupied, node>>
  PROVE  /\ QuietJobs
         /\ \A d \in Clients \ {c} : at'[d] = at[d] /\ cur'[d] = cur[d]
         /\ at'[c] = pc
<1>1. Executing' = Executing /\ Ending' = Ending /\ c \notin Executing \union Ending
  BY Zenon, ClientsAreThreads DEF Executing, Ending, Typed, ThreadsTyped
<1>2. \A u \in Executing \union Ending : cur'[u] = cur[u]
  BY Zenon, <1>1 DEF Executing, Ending
<1>3. /\ at'[c] = pc /\ \A d \in Clients \ {c} : at'[d] = at[d] /\ cur'[d] = cur[d]
  BY Zenon, ClientsAreThreads DEF Typed, ThreadsTyped
<1> QED
  BY Zenon, <1>1, <1>2, <1>3 DEF QuietJobs

LEMMA NativeAcquireLanes ==
  ASSUME Typed, Queued, LaneOwned, NEW c \in Clients, NativeAcquire(c)
  PROVE  QuietJobs /\ Queued' /\ LaneOwned'
<1>1. /\ sequence \notin native /\ at[c] = "idle"
      /\ UNCHANGED <<pending, finishing, run, blockers, done, nodes, occupied, node>>
  BY DEF NativeAcquire, Typed, Issued, SchedulerTyped, pendingVars, signalVars, slotVars
<1>2. CASE NativeReady(sequence, native \union {sequence}, running[Compute])
  <2>1. /\ native' = native /\ native_active' /\ leases' = leases \union {c}
        /\ running' = [running EXCEPT ![Compute] = TRUE]
        /\ at' = [at EXCEPT ![c] = "idle"] /\ cur' = [cur EXCEPT ![c] = 0]
    BY Zenon, <1>1, <1>2 DEF NativeAcquire, Admit
  <2>2. ~running[Compute]
    BY Zenon, <1>2 DEF NativeReady
  <2>3. leases = {} /\ \A t \in Executing : Lane(cur[t], node[t]) # Compute
    BY Zenon, <2>2 DEF LaneOwned
  <2>4. \A u \in Threads \ {c} : cur'[u] = cur[u]
    BY Zenon, <2>1 DEF Typed, ThreadsTyped
  <2>5. /\ QuietJobs /\ at'[c] = "idle"
        /\ \A d \in Clients \ {c} : at'[d] = at[d] /\ cur'[d] = cur[d]
    BY Zenon, <1>1, <2>1, <2>4, NativeJobs
  <2>6. \A d \in Clients : at'[d] # "yield"
    BY Zenon, <2>3, <2>5 DEF LaneOwned
  <2>7. LaneOwned'
    BY Zenon, <2>1, <2>3, <2>5, <2>6, TakeLane DEF QuietJobs
  <2>8. Queued'
    BY <2>1, <2>5 DEF Queued
  <2> QED
    BY Zenon, <2>5, <2>7, <2>8
<1>3. CASE ~NativeReady(sequence, native \union {sequence}, running[Compute])
  <2>1. /\ native' = native \union {sequence} /\ leases' = leases
        /\ running' = [running EXCEPT ![Compute] = running[Compute]]
        /\ at' = [at EXCEPT ![c] = "native"] /\ cur' = [cur EXCEPT ![c] = sequence]
    BY Zenon, <1>3 DEF NativeAcquire, Admit
  <2>2. native_active' = native_active
    BY Zenon, <1>3 DEF NativeAcquire, Admit
  <2>3. running' = running
    BY Zenon, <2>1, LanesOfThreads DEF Typed, SchedulerTyped
  <2>4. \A u \in Threads \ {c} : cur'[u] = cur[u]
    BY Zenon, <2>1 DEF Typed, ThreadsTyped
  <2>5. /\ QuietJobs /\ at'[c] = "native" /\ cur'[c] = sequence
        /\ \A d \in Clients \ {c} : at'[d] = at[d] /\ cur'[d] = cur[d]
    BY ZenonT(60), <1>1, <2>1, <2>4, NativeJobs, ClientsAreThreads DEF Typed, ThreadsTyped
  <2>6. LaneOwned'
    <3>1. \A t \in Executing : Lane(cur[t], node[t])' = Lane(cur[t], node[t])
      BY Zenon, <2>5 DEF QuietJobs, Lane, Graph
    <3>2. \A d \in Clients : at'[d] = "yield" => at[d] = "yield"
      BY Zenon, <2>5
    <3> QED
      BY <2>1, <2>2, <2>3, <2>5, <3>1, <3>2 DEF LaneOwned, QuietJobs
  <2>7. Queued'
    BY <1>1, <2>1, <2>5 DEF Queued
  <2> QED
    BY Zenon, <2>5, <2>6, <2>7
<1> QED
  BY Zenon, <1>2, <1>3

LEMMA NativeWakeLanes ==
  ASSUME Typed, Queued, LaneOwned, NEW c \in Clients, NativeWake(c)
  PROVE  QuietJobs /\ Queued' /\ LaneOwned'
<1>1. /\ at[c] = "native" /\ cur[c] \in native
      /\ UNCHANGED <<pending, finishing, run, blockers, done, nodes, occupied, node>>
  BY Zenon DEF NativeWake, Queued, pendingVars, signalVars, slotVars
<1>2. CASE NativeReady(cur[c], native, running[Compute])
  <2>1. /\ native' = native \ {cur[c]} /\ native_active' /\ leases' = leases \union {c}
        /\ running' = [running EXCEPT ![Compute] = TRUE]
        /\ at' = [at EXCEPT ![c] = "idle"] /\ cur' = [cur EXCEPT ![c] = 0]
    BY Zenon, <1>2 DEF NativeWake, Admit
  <2>2. ~running[Compute]
    BY Zenon, <1>2 DEF NativeReady
  <2>3. leases = {} /\ \A t \in Executing : Lane(cur[t], node[t]) # Compute
    BY Zenon, <2>2 DEF LaneOwned
  <2>4. \A u \in Threads \ {c} : cur'[u] = cur[u]
    BY Zenon, <2>1 DEF Typed, ThreadsTyped
  <2>5. /\ QuietJobs /\ at'[c] = "idle"
        /\ \A d \in Clients \ {c} : at'[d] = at[d] /\ cur'[d] = cur[d]
    BY ZenonT(60), <1>1, <2>1, <2>4, NativeJobs
  <2>6. \A d \in Clients : at'[d] # "yield"
    BY Zenon, <2>3, <2>5 DEF LaneOwned
  <2>7. LaneOwned'
    BY Zenon, <2>1, <2>3, <2>5, <2>6, TakeLane DEF QuietJobs
  <2>8. Queued'
    BY <1>1, <2>1, <2>5 DEF Queued
  <2> QED
    BY Zenon, <2>5, <2>7, <2>8
<1>3. CASE ~NativeReady(cur[c], native, running[Compute])
  <2>1. /\ native' = native /\ leases' = leases
        /\ running' = [running EXCEPT ![Compute] = running[Compute]]
        /\ at' = [at EXCEPT ![c] = "native"] /\ cur' = [cur EXCEPT ![c] = cur[c]]
    BY Zenon, <1>3 DEF NativeWake, Admit
  <2>2. native_active' = native_active
    BY Zenon, <1>3 DEF NativeWake, Admit
  <2>3. running' = running /\ cur' = cur /\ at' = at
    BY Zenon, <1>1, <2>1, LanesOfThreads, ClientsAreThreads
    DEF Typed, SchedulerTyped, ThreadsTyped
  <2>4. QuietJobs /\ QuietLanes
    BY Zenon, <1>1, <2>1, <2>2, <2>3, StillQuiet
  <2> QED
    BY Zenon, <2>4, QuietLaneOwned, QuietQueued
<1> QED
  BY Zenon, <1>2, <1>3

LEMMA YieldNowLanes ==
  ASSUME Typed, Queued, LaneOwned, NEW c \in Clients, YieldNow(c)
  PROVE  QuietJobs /\ Queued' /\ LaneOwned'
<1>1. /\ sequence \notin native /\ at[c] = "yield" /\ leases = {c}
      /\ UNCHANGED <<pending, finishing, run, blockers, done, nodes, occupied, node>>
  BY DEF YieldNow, Typed, Issued, SchedulerTyped, LaneOwned, pendingVars, signalVars, slotVars
<1>2. \A t \in Executing : Lane(cur[t], node[t]) # Compute
  BY Zenon, <1>1 DEF LaneOwned
<1>3. CASE NativeReady(sequence, native \union {sequence}, FALSE)
  <2>1. /\ native' = native /\ native_active' /\ leases' = {c}
        /\ running' = [running EXCEPT ![Compute] = TRUE]
        /\ at' = [at EXCEPT ![c] = "idle"] /\ cur' = [cur EXCEPT ![c] = 0]
    BY Zenon, <1>1, <1>3 DEF YieldNow, Admit
  <2>2. \A u \in Threads \ {c} : cur'[u] = cur[u]
    BY Zenon, <2>1 DEF Typed, ThreadsTyped
  <2>3. /\ QuietJobs /\ at'[c] = "idle"
        /\ \A d \in Clients \ {c} : at'[d] = at[d] /\ cur'[d] = cur[d]
    BY Zenon, <1>1, <2>1, <2>2, NativeJobs
  <2>4. \A d \in Clients : at'[d] # "yield"
    BY Zenon, <1>1, <2>3 DEF LaneOwned
  <2>5. LaneOwned'
    BY Zenon, <1>1, <1>2, <2>1, <2>3, <2>4, TakeLane DEF QuietJobs
  <2>6. Queued'
    BY <2>1, <2>3 DEF Queued
  <2> QED
    BY Zenon, <2>3, <2>5, <2>6
<1>4. CASE ~NativeReady(sequence, native \union {sequence}, FALSE)
  <2>1. /\ native' = native \union {sequence} /\ leases' = {}
        /\ running' = [running EXCEPT ![Compute] = FALSE]
        /\ at' = [at EXCEPT ![c] = "native"] /\ cur' = [cur EXCEPT ![c] = sequence]
    BY Zenon, <1>1, <1>4 DEF YieldNow, Admit
  <2>2. ~native_active'
    BY Zenon, <1>4 DEF YieldNow, Admit
  <2>3. \A u \in Threads \ {c} : cur'[u] = cur[u]
    BY Zenon, <2>1 DEF Typed, ThreadsTyped
  <2>4. /\ QuietJobs /\ at'[c] = "native" /\ cur'[c] = sequence
        /\ \A d \in Clients \ {c} : at'[d] = at[d] /\ cur'[d] = cur[d]
    BY Zenon, <1>1, <2>1, <2>3, NativeJobs, ClientsAreThreads DEF Typed, ThreadsTyped
  <2>5. \A d \in Clients : at'[d] # "yield"
    BY Zenon, <1>1, <2>4 DEF LaneOwned
  <2>6. LaneOwned'
    BY Zenon, <1>1, <2>1, <2>2, <2>4, <2>5, LeaveLane DEF QuietJobs
  <2>7. Queued'
    BY <1>1, <2>1, <2>4 DEF Queued
  <2> QED
    BY Zenon, <2>4, <2>6, <2>7
<1> QED
  BY Zenon, <1>3, <1>4

LEMMA NativeDropLanes ==
  ASSUME Typed, Queued, LaneOwned, NEW c \in Clients, NativeDrop(c)
  PROVE  QuietJobs /\ Queued' /\ LaneOwned'
<1>1. /\ at[c] \in {"idle", "yield"} /\ leases = {c} /\ leases' = {}
      /\ running' = [running EXCEPT ![Compute] = FALSE] /\ at' = [at EXCEPT ![c] = "idle"]
      /\ UNCHANGED <<pending, finishing, native, run, blockers, done, nodes, occupied, cur, node>>
  BY Zenon DEF NativeDrop, LaneOwned, pendingVars, signalVars, slotVars
<1>2. ~native_active'
  BY Zenon DEF NativeDrop
<1>3. /\ QuietJobs /\ at'[c] = "idle"
      /\ \A d \in Clients \ {c} : at'[d] = at[d] /\ cur'[d] = cur[d]
  BY Zenon, <1>1, NativeJobs
<1>4. \A d \in Clients : at'[d] # "yield"
  BY Zenon, <1>1, <1>3 DEF LaneOwned
<1>5. LaneOwned'
  BY Zenon, <1>1, <1>2, <1>3, <1>4, LeaveLane DEF QuietJobs
<1>6. Queued'
  BY ZenonT(60), <1>1, <1>3 DEF Queued
<1> QED
  BY Zenon, <1>3, <1>5, <1>6

LEMMA Cardinalities ==
  ASSUME Typed
  PROVE  /\ IsFiniteSet(pending) /\ Cardinality(pending) \in Nat
         /\ IsFiniteSet(finishing) /\ Cardinality(finishing) \in Nat
         /\ IsFiniteSet(native) /\ Cardinality(native) \in Nat
         /\ Capacity \in Nat
  BY Zenon, TicketsFinite, SchedulerAssumption DEF Typed, SchedulerTyped

LEMMA SameCapacity ==
  ASSUME CapacityBound, UNCHANGED <<pending, finishing, native, native_active>>
  PROVE  CapacityBound'
  BY Zenon DEF CapacityBound, Occupied

LEMMA SubmitCapacity ==
  ASSUME Typed, NEW c \in Clients, Submit(c)
  PROVE  CapacityBound'
<1>1. Occupied < Capacity
  BY Zenon DEF Submit, Admissible
<1>2. pending' = pending \union {sequence} /\ UNCHANGED <<finishing, native, native_active>>
  BY Zenon DEF Submit, Accept, Enqueue
<1>3. sequence \notin pending
  BY SchedulerAssumption, TicketsOfJobs DEF Typed, SchedulerTyped
<1>4. Cardinality(pending') = Cardinality(pending) + 1
  BY Zenon, <1>2, <1>3, Cardinalities, FS_AddElement
<1> QED
  BY <1>1, <1>2, <1>4, Cardinalities DEF CapacityBound, Occupied

LEMMA TakeFinishCapacity ==
  ASSUME Typed, Owned, CapacityBound, NEW t \in Threads, TakeFinish(t)
  PROVE  CapacityBound'
<1>1. PICK q \in pending : Remove(t, q, {p \in pending : p <= q})
  BY Zenon DEF TakeFinish, Finishable
<1>2. /\ pending' = pending \ {q} /\ finishing' = finishing \union {q}
      /\ UNCHANGED <<native, native_active>>
  BY Zenon, <1>1 DEF Remove
<1>3. q \notin finishing
  BY Zenon DEF Owned
<1>4. Cardinality(pending') = Cardinality(pending) - 1
  BY Zenon, <1>2, Cardinalities, FS_RemoveElement
<1>5. Cardinality(finishing') = Cardinality(finishing) + 1
  BY Zenon, <1>2, <1>3, Cardinalities, FS_AddElement
<1> QED
  BY <1>2, <1>4, <1>5, Cardinalities DEF CapacityBound, Occupied

LEMMA PublishCapacity ==
  ASSUME Typed, CapacityBound, NEW t \in Threads, Publish(t)
  PROVE  CapacityBound'
<1>1. finishing' = finishing \ {cur[t]} /\ UNCHANGED <<pending, native, native_active>>
  BY Zenon DEF Publish
<1>2. Cardinality(finishing') <= Cardinality(finishing) /\ Cardinality(finishing') \in Nat
  <2>1. finishing \ {cur[t]} \in SUBSET finishing
    BY Zenon
  <2> QED
    BY Zenon, <1>1, <2>1, Cardinalities, FS_Subset, FS_CardinalityType
<1> QED
  BY <1>1, <1>2, Cardinalities DEF CapacityBound, Occupied

LEMMA NativeAcquireCapacity ==
  ASSUME Typed, LaneOwned, NEW c \in Clients, NativeAcquire(c)
  PROVE  CapacityBound'
<1>1. /\ sequence \notin native /\ Occupied < Capacity /\ UNCHANGED <<pending, finishing>>
  BY DEF NativeAcquire, Typed, Issued, SchedulerTyped
<1>2. CASE NativeReady(sequence, native \union {sequence}, running[Compute])
  <2>1. native' = native /\ native_active'
    BY Zenon, <1>1, <1>2 DEF NativeAcquire, Admit
  <2>2. ~native_active
    BY Zenon, <1>2 DEF NativeReady, LaneOwned
  <2> QED
    BY <1>1, <2>1, <2>2, Cardinalities DEF CapacityBound, Occupied
<1>3. CASE ~NativeReady(sequence, native \union {sequence}, running[Compute])
  <2>1. native' = native \union {sequence} /\ native_active' = native_active
    BY Zenon, <1>3 DEF NativeAcquire, Admit
  <2>2. Cardinality(native') = Cardinality(native) + 1
    BY Zenon, <1>1, <2>1, Cardinalities, FS_AddElement
  <2> QED
    BY <1>1, <2>1, <2>2, Cardinalities DEF CapacityBound, Occupied
<1> QED
  BY Zenon, <1>2, <1>3

LEMMA NativeWakeCapacity ==
  ASSUME Typed, Queued, LaneOwned, CapacityBound, NEW c \in Clients, NativeWake(c)
  PROVE  CapacityBound'
<1>1. cur[c] \in native /\ UNCHANGED <<pending, finishing>>
  BY Zenon DEF NativeWake, Queued
<1>2. CASE NativeReady(cur[c], native, running[Compute])
  <2>1. native' = native \ {cur[c]} /\ native_active'
    BY Zenon, <1>2 DEF NativeWake, Admit
  <2>2. ~native_active
    BY Zenon, <1>2 DEF NativeReady, LaneOwned
  <2>3. Cardinality(native') = Cardinality(native) - 1
    BY Zenon, <1>1, <2>1, Cardinalities, FS_RemoveElement
  <2> QED
    BY <1>1, <2>1, <2>2, <2>3, Cardinalities DEF CapacityBound, Occupied
<1>3. CASE ~NativeReady(cur[c], native, running[Compute])
  <2>1. native' = native /\ native_active' = native_active
    BY Zenon, <1>3 DEF NativeWake, Admit
  <2> QED
    BY Zenon, <1>1, <2>1, SameCapacity
<1> QED
  BY Zenon, <1>2, <1>3

\* yield_now does not check the capacity: the ticket replaces the active stage.
LEMMA YieldNowCapacity ==
  ASSUME Typed, LaneOwned, CapacityBound, NEW c \in Clients, YieldNow(c)
  PROVE  CapacityBound'
<1>1. /\ sequence \notin native /\ native_active /\ UNCHANGED <<pending, finishing>>
  <2>1. at[c] = "yield" /\ UNCHANGED <<pending, finishing>>
    BY Zenon DEF YieldNow
  <2>2. sequence \in Nat /\ \A k \in native : k < sequence
    BY SMTT(20) DEF Typed, Issued, SchedulerTyped
  <2>3. sequence \notin native
    BY <2>2
  <2>4. native_active
    BY Zenon, <2>1 DEF LaneOwned
  <2> QED
    BY Zenon, <2>1, <2>3, <2>4
<1>2. CASE NativeReady(sequence, native \union {sequence}, FALSE)
  <2>1. native' = native /\ native_active'
    BY Zenon, <1>1, <1>2 DEF YieldNow, Admit
  <2> QED
    BY Zenon, <1>1, <2>1, Cardinalities DEF CapacityBound, Occupied
<1>3. CASE ~NativeReady(sequence, native \union {sequence}, FALSE)
  <2>1. native' = native \union {sequence} /\ ~native_active'
    BY Zenon, <1>3 DEF YieldNow, Admit
  <2>2. Cardinality(native') = Cardinality(native) + 1
    BY Zenon, <1>1, <2>1, Cardinalities, FS_AddElement
  <2> QED
    BY <1>1, <2>1, <2>2, Cardinalities DEF CapacityBound, Occupied
<1> QED
  BY Zenon, <1>2, <1>3

LEMMA NativeDropCapacity ==
  ASSUME Typed, CapacityBound, NEW c \in Clients, NativeDrop(c)
  PROVE  CapacityBound'
<1>1. ~native_active' /\ UNCHANGED <<pending, finishing, native>>
  BY Zenon DEF NativeDrop
<1> QED
  BY <1>1, Cardinalities DEF CapacityBound, Occupied

-----------------------------------------------------------------------------
(* The inductive invariant. *)

Inv == /\ Typed /\ Queued /\ Owned /\ Attended /\ Counted /\ ConflictOrder /\ LaneOwned
       /\ CapacityBound

LEMMA InitInv == Init => Inv
<1> SUFFICES ASSUME Init PROVE Inv
  BY Zenon
<1>1. Typed
  BY Zenon, InitTyped
<1>2. Executing = {} /\ Ending = {}
  BY Zenon DEF Init, Executing, Ending
<1>3. Queued
  BY Zenon DEF Init, Queued, Threads
<1>4. Owned /\ Attended
  BY Zenon, <1>2 DEF Init, Owned, Attended
<1>5. Counted
  BY Zenon DEF Init, Counted, BlockersExact
<1>6. ConflictOrder
  BY Zenon, <1>2 DEF ConflictOrder
<1>7. LaneOwned
  BY Zenon, <1>2, ClientsAreThreads DEF Init, LaneOwned
<1>8. CapacityBound
  <2>1. pending = {} /\ finishing = {} /\ native = {} /\ ~native_active
    BY Zenon DEF Init
  <2>2. Cardinality(pending) = 0 /\ Cardinality(finishing) = 0 /\ Cardinality(native) = 0
    BY Zenon, <2>1, FS_EmptySet
  <2>3. Capacity \in Nat
    BY Zenon, <1>1, Cardinalities
  <2> QED
    BY <2>1, <2>2, <2>3 DEF CapacityBound, Occupied
<1> QED
  BY Zenon, <1>1, <1>3, <1>4, <1>5, <1>6, <1>7, <1>8 DEF Inv

LEMMA QuietInv ==
  ASSUME Inv, QuietJobs, QuietLanes, Typed'
  PROVE  Inv'
<1>1. UNCHANGED <<pending, finishing, run, blockers, native, native_active>>
  BY Zenon DEF QuietJobs, QuietLanes
<1> QED
  BY ZenonT(30), <1>1, QuietOwned, QuietQueued, QuietLaneOwned, QuietOrder, SameJobsCounted, SameCapacity
  DEF Inv

LEMMA StepInv ==
  ASSUME Inv, NEW t \in Threads, Step(t) \/ SpuriousWake(t)
  PROVE  Inv'
<1>0. Typed'
  BY Zenon, StepTyped DEF Inv
<1>1. CASE \/ TakeNothing(t) \/ Begin(t) \/ Release(t) \/ Announce(t) \/ Join(t)
           \/ SpuriousWake(t)
  BY SMTT(30), <1>0, <1>1, QuietInv, TakeNothingQuiet, BeginQuiet, ReleaseQuiet, AnnounceQuiet,
     JoinQuiet, SpuriousWakeQuiet DEF Inv
<1>2. CASE TakeFinish(t)
  BY SMTT(30), <1>0, <1>2, TakeFinishOwned, TakeFinishCounted, TakeFinishOrder, TakeFinishQuietLanes,
     QuietQueued, QuietLaneOwned, TakeFinishCapacity DEF Inv
<1>3. CASE TakeRun(t)
  <2>1. UNCHANGED <<pending, finishing, run, blockers, native, native_active>>
    BY ZenonT(60), <1>3, TakeRunStarts DEF Inv, Start, pendingVars
  <2> QED
    BY ZenonT(30), <1>0, <1>3, <2>1, TakeRunOwned, SameJobsCounted, TakeRunOrder, TakeRunLanes,
       SameCapacity DEF Inv
<1>4. CASE \E f \in BOOLEAN : CompleteRun(t, f)
  <2>1. UNCHANGED <<pending, finishing, run, blockers, native, native_active>>
    BY Zenon, <1>4 DEF CompleteRun, pendingVars
  <2> QED
    BY Zenon, <1>0, <1>4, <2>1, CompleteRunOwned, SameJobsCounted, CompleteRunOrder,
       CompleteRunLanes, SameCapacity DEF Inv
<1>5. CASE Publish(t)
  <2>1. UNCHANGED <<pending, run, blockers>>
    BY Zenon, <1>5 DEF Publish, pendingVars
  <2> QED
    BY Zenon, <1>0, <1>5, <2>1, PublishOwned, SameJobsCounted, PublishOrder, PublishQuietLanes,
       QuietQueued, QuietLaneOwned, PublishCapacity DEF Inv
<1> QED
  BY Zenon, <1>1, <1>2, <1>3, <1>4, <1>5 DEF Step

LEMMA CallInv ==
  ASSUME Inv, NEW c \in Clients, Call(c) \/ NativeDrop(c)
  PROVE  Inv'
<1>0. Typed'
  BY Zenon, CallTyped DEF Inv
<1>1. CASE \/ SubmitRejected(c) \/ NotifyOne(c) \/ CancelNotify(c) \/ WaitDone(c)
           \/ HostTry(c) \/ Unmap(c) \/ \E u \in BOOLEAN : HandoffEnd(c, u)
  BY SMTT(30), <1>0, <1>1, QuietInv, SubmitRejectedQuiet, NotifyOneQuiet, CancelNotifyQuiet,
     WaitDoneQuiet, HostTryQuiet, UnmapQuiet, HandoffEndQuiet DEF Inv
<1>2. CASE Submit(c)
  BY SMTT(30), <1>0, <1>2, SubmitOwned, SubmitCounted, SubmitOrder, SubmitQuietLanes, QuietQueued,
     QuietLaneOwned, SubmitCapacity DEF Inv
<1>3. ASSUME QuietJobs PROVE Owned' /\ Attended' /\ Counted' /\ ConflictOrder'
  BY Zenon, <1>3, QuietOwned, SameJobsCounted, QuietOrder DEF Inv, QuietJobs
<1>4. CASE NativeWake(c)
  BY Zenon, <1>0, <1>3, <1>4, NativeWakeLanes, NativeWakeCapacity DEF Inv
<1>5. CASE YieldNow(c)
  BY Zenon, <1>0, <1>3, <1>5, YieldNowLanes, YieldNowCapacity DEF Inv
<1>6. CASE NativeDrop(c)
  BY Zenon, <1>0, <1>3, <1>6, NativeDropLanes, NativeDropCapacity DEF Inv
<1> QED
  BY Zenon, <1>1, <1>2, <1>4, <1>5, <1>6 DEF Call

LEMMA ChooseInv ==
  ASSUME Inv, NEW c \in Clients, Choose(c)
  PROVE  Inv'
<1>0. Typed'
  BY Zenon, ChooseTyped DEF Inv
<1>1. CASE \/ \E g \in Graphs, ds \in SUBSET handles[c] : CheckUsable(c, g, ds)
           \/ \E q \in handles[c] : Cancel(c, q) \/ Wait(c, q) \/ DropCompletion(c, q)
           \/ \E d \in Clients, q \in handles[c] : Clone(c, d, q)
           \/ WaitTimeout(c) \/ DropRuntime(c) \/ Checkpoint(c)
           \/ \E S \in SUBSET Storages, how \in Asking : HostAsk(c, S, how)
  <2>1. Typed
    BY Zenon DEF Inv
  <2>2. QuietJobs /\ QuietLanes
    BY ZenonT(30), <1>1, <2>1, CheckUsableQuiet, CancelQuiet, WaitQuiet, DropCompletionQuiet, CloneQuiet,
       WaitTimeoutQuiet, DropRuntimeQuiet, CheckpointQuiet, HostAskQuiet, Zenon
  <2> QED
    BY Zenon, <1>0, <2>2, QuietInv
<1>2. CASE NativeAcquire(c)
  <2>1. QuietJobs /\ Queued' /\ LaneOwned' /\ CapacityBound'
    BY Zenon, <1>2, NativeAcquireLanes, NativeAcquireCapacity DEF Inv
  <2> QED
    BY Zenon, <1>0, <2>1, QuietOwned, SameJobsCounted, QuietOrder DEF Inv, QuietJobs
<1> QED
  BY Zenon, <1>1, <1>2 DEF Choose

LEMMA NextInv ==
  ASSUME Inv, [Next]_vars
  PROVE  Inv'
<1>1. CASE Next
  BY Zenon, <1>1, StepInv, CallInv, ChooseInv DEF Next
<1>2. CASE UNCHANGED vars
  <2>1. QuietJobs /\ QuietLanes
    BY Zenon, <1>2, StillQuiet DEF vars, schedulerVars, pendingVars, slotVars, signalVars, threadVars
  <2>2. Typed'
    BY Zenon, <1>2, NextTyped DEF Inv
  <2> QED
    BY Zenon, <2>1, <2>2, QuietInv
<1> QED
  BY Zenon, <1>1, <1>2

LEMMA Invariance == Spec => []Inv
<1>1. Inv /\ [Next]_vars => Inv'
  BY Zenon, NextInv
<1> QED
  BY InitInv, <1>1, PTL DEF Spec

\* ExecutableGraph::submit_after and NativeLease never admit more than the capacity:
\* jobs, publications in flight, queued stages and the active stage stay within it.
THEOREM CapacityHolds == Spec => []CapacityBound
<1>1. Inv => CapacityBound
  BY Zenon DEF Inv
<1> QED
  BY <1>1, Invariance, PTL

\* Scheduler::enqueue and remove keep every blocker count equal to the number of earlier
\* pending jobs that conflict.
THEOREM BlockersHold == Spec => []BlockersExact
<1>1. Inv => BlockersExact
  BY Zenon DEF Inv, Counted
<1> QED
  BY <1>1, Invariance, PTL

\* Conflicting jobs execute one after the other in submission order, whatever lanes,
\* workers, helpers, cancellations and failures there are.
THEOREM ConflictsOrdered == Spec => []ConflictOrder
<1>1. Inv => ConflictOrder
  BY Zenon DEF Inv
<1> QED
  BY <1>1, Invariance, PTL

\* Each lane runs one region at a time, or one native stage on compute, and next_action
\* never leaves a lane reserved that nobody uses.
THEOREM LanesExclusive == Spec => []LaneExclusive
<1>1. Inv => LaneExclusive
  <2> SUFFICES ASSUME Inv, NEW l \in Lanes
               PROVE  LET users == {t \in Executing : Lane(cur[t], node[t]) = l}
                          stages == IF l = Compute THEN leases ELSE {}
                      IN  Cardinality(users) + Cardinality(stages)
                            = IF running[l] THEN 1 ELSE 0
    BY Zenon DEF LaneExclusive
  <2> DEFINE users == {t \in Executing : Lane(cur[t], node[t]) = l}
             stages == IF l = Compute THEN leases ELSE {}
  <2>1. LaneOwned
    BY Zenon DEF Inv
  <2>2. CASE ~running[l]
    <3>1. users = {} /\ stages = {}
      BY <2>1, <2>2 DEF LaneOwned
    <3> QED
      BY SMTT(30), <2>2, <3>1, FS_EmptySet
  <2>3. CASE running[l] /\ stages = {}
    <3>1. PICK t \in Executing : Lane(cur[t], node[t]) = l
      BY Zenon, <2>1, <2>3 DEF LaneOwned
    <3>2. users = {t}
      BY <2>1, <3>1 DEF LaneOwned
    <3>3. Cardinality(users) = 1
      BY Zenon, <3>2, FS_Singleton
    <3>4. Cardinality(stages) = 0
      BY Zenon, <2>3, FS_EmptySet
    <3> QED
      BY <2>3, <3>3, <3>4
  <2>4. CASE running[l] /\ stages # {}
    <3>1. PICK c \in leases : stages = {c}
      BY <2>1, <2>4 DEF LaneOwned
    <3>2. users = {}
      BY Zenon, <2>1, <2>4 DEF LaneOwned
    <3>3. Cardinality(stages) = 1
      BY Zenon, <3>1, FS_Singleton
    <3>4. Cardinality(users) = 0
      BY Zenon, <3>2, FS_EmptySet
    <3> QED
      BY SMTT(30), <2>4, <3>3, <3>4
  <2> QED
    BY Zenon, <2>2, <2>3, <2>4
<1> QED
  BY <1>1, Invariance, PTL

\* A slot belongs to one live job whose signal is not done, a node is Running exactly while
\* one thread executes it, and every finishing job has the one thread that publishes it.
THEOREM SlotsOwned == Spec => []SlotOwnership
<1>1. Inv => SlotOwnership
  <2> SUFFICES ASSUME Inv PROVE SlotOwnership
    BY Zenon
  <2>1. Owned /\ Attended /\ Typed
    BY Zenon DEF Inv
  <2>2. ASSUME NEW q \in pending, NEW n \in Nodes(Graph(q))
        PROVE  Cardinality({t \in Executing : cur[t] = q /\ node[t] = n})
                 = IF nodes[run[q]][n] = "Running" THEN 1 ELSE 0
    <3> DEFINE users == {t \in Executing : cur[t] = q /\ node[t] = n}
    <3>1. CASE nodes[run[q]][n] = "Running"
      <4>1. PICK t \in Executing : cur[t] = q /\ node[t] = n
        BY Zenon, <2>1, <2>2, <3>1 DEF Attended
      <4>2. users = {t}
        BY <2>1, <4>1 DEF Owned
      <4> QED
        BY Zenon, <3>1, <4>2, FS_Singleton
    <3>2. CASE nodes[run[q]][n] # "Running"
      <4>1. users = {}
        BY Zenon, <2>1, <3>2 DEF Owned
      <4> QED
        BY Zenon, <3>2, <4>1, FS_EmptySet
    <3> QED
      BY Zenon, <3>1, <3>2
  <2>3. finishing = {cur[t] : t \in Ending}
    BY <2>1 DEF Owned, Attended
  <2> QED
    BY Zenon, <2>1, <2>2, <2>3 DEF SlotOwnership, Owned, Attended
<1> QED
  BY <1>1, Invariance, PTL
=============================================================================
