------------------------- MODULE SchedulerHostProofs -------------------------
(***************************************************************************)
(* What the clients of Scheduler may rely on, for every value of the       *)
(* constants.  First, host mappings, handoffs and device work exclude each *)
(* other, and with that every variable keeps its type.  Then, a            *)
(* submission's signal tells its own outcome to everybody who holds it, so *)
(* that no job executes whose producers did not succeed; and the two       *)
(* action properties: a quarantined graph is not enqueued, and ready jobs  *)
(* take turns on a lane.                                                   *)
(***************************************************************************)
EXTENDS SchedulerProofs

Hosting == {"reading", "writing", "external"}
Readers(s) == {c \in Clients : at[c] = "reading" /\ s \in held[c]}

\* The counters and flags of HostState tell who holds the allocation.
HostCounted ==
  \A s \in Storages :
    /\ readers[s] = Cardinality(Readers(s))
    /\ writer[s] <=> \E c \in Clients : at[c] = "writing" /\ s \in held[c]
    /\ external[s] <=> \E c \in Clients : at[c] = "external" /\ s \in held[c]

\* Holders and their flags stay as they are, and no job is added.
QuietHosts ==
  /\ UNCHANGED <<readers, writer, external>>
  /\ pending' \subseteq pending /\ \A q \in pending : run'[q] = run[q]
  /\ \A c \in Clients : at'[c] \in Hosting \/ at[c] \in Hosting
                          => at'[c] = at[c] /\ held'[c] = held[c]

LEMMA ReadersFinite ==
  ASSUME NEW s
  PROVE  IsFiniteSet(Readers(s)) /\ Cardinality(Readers(s)) \in Nat
  BY Zenon, SchedulerAssumption, FS_Subset, FS_CardinalityType DEF Readers

LEMMA QuietHostCounted ==
  ASSUME HostCounted, QuietHosts
  PROVE  HostCounted'
<1>1. \A s \in Storages : Readers(s)' = Readers(s)
  BY Zenon DEF Readers, QuietHosts, Hosting
<1>2. \A s \in Storages :
        /\ (\E c \in Clients : at'[c] = "writing" /\ s \in held'[c])
             <=> (\E c \in Clients : at[c] = "writing" /\ s \in held[c])
        /\ (\E c \in Clients : at'[c] = "external" /\ s \in held'[c])
             <=> (\E c \in Clients : at[c] = "external" /\ s \in held[c])
  BY Zenon DEF QuietHosts, Hosting
<1> QED
  BY <1>1, <1>2 DEF HostCounted, QuietHosts

LEMMA FewerConflicts ==
  ASSUME pending' \subseteq pending, \A q \in pending : run'[q] = run[q], NEW s, NEW w
  PROVE  DeviceConflict(s, w)' => DeviceConflict(s, w)
  BY Zenon DEF DeviceConflict, Graph

LEMMA QuietHostExclusion ==
  ASSUME HostExclusion, QuietHosts
  PROVE  HostExclusion'
<1>1. \A s : DeviceConflict(s, FALSE)' => DeviceConflict(s, FALSE)
  BY Zenon, FewerConflicts DEF QuietHosts
<1>2. \A s : DeviceConflict(s, TRUE)' => DeviceConflict(s, TRUE)
  BY Zenon, FewerConflicts DEF QuietHosts
<1>3. \A c \in Clients : at'[c] \in Hosting => at[c] = at'[c] /\ held'[c] = held[c]
  BY Zenon DEF QuietHosts
<1> QED
  BY Zenon, <1>1, <1>2, <1>3 DEF HostExclusion, QuietHosts, Hosting
-----------------------------------------------------------------------------
(* Actions that no host lease depends on. *)

LEMMA MovedQuiet ==
  ASSUME Typed, NEW t \in Threads, at[t] \notin Hosting, NEW pc, pc \notin Hosting,
         at' = [at EXCEPT ![t] = pc],
         \A c \in Clients \ {t} : held'[c] = held[c],
         UNCHANGED <<readers, writer, external>>,
         pending' \subseteq pending, \A q \in pending : run'[q] = run[q]
  PROVE  QuietHosts
<1>1. \A c \in Clients \ {t} : at'[c] = at[c]
  BY Zenon DEF Typed, ThreadsTyped, Threads
<1>2. at'[t] = pc
  BY Zenon DEF Typed, ThreadsTyped
<1> QED
  BY Zenon, <1>1, <1>2 DEF QuietHosts

LEMMA StillHosts ==
  ASSUME UNCHANGED <<at, held, readers, writer, external, pending, run>>
  PROVE  QuietHosts
  BY Zenon DEF QuietHosts

LEMMA CheckUsableHosts ==
  ASSUME Typed, NEW c \in Clients, NEW g \in Graphs, NEW ds \in SUBSET handles[c],
         CheckUsable(c, g, ds)
  PROVE  QuietHosts
  BY Zenon, MovedQuiet, ClientsAreThreads DEF CheckUsable, Hosting, schedulerVars, pendingVars,
     storageVars, threadVars, callVars

LEMMA SubmitRejectedHosts ==
  ASSUME Typed, NEW c \in Clients, SubmitRejected(c)
  PROVE  QuietHosts
  BY Zenon, MovedQuiet, ClientsAreThreads DEF SubmitRejected, LeaveSubmit, Hosting, schedulerVars,
     pendingVars, storageVars, threadVars, callVars

LEMMA NotifyOneHosts ==
  ASSUME Typed, NEW c \in Clients, NotifyOne(c)
  PROVE  QuietHosts
  BY Zenon, MovedQuiet, ClientsAreThreads DEF NotifyOne, Hosting, schedulerVars, pendingVars,
     storageVars, threadVars, callVars

LEMMA BeginHosts ==
  ASSUME Typed, NEW t \in Threads, Begin(t)
  PROVE  QuietHosts
  BY Zenon, MovedQuiet, ClientsAreThreads DEF Begin, Hosting, schedulerVars, pendingVars,
     storageVars, threadVars, callVars

LEMMA CompleteRunHosts ==
  ASSUME Typed, NEW t \in Threads, NEW f \in BOOLEAN, CompleteRun(t, f)
  PROVE  QuietHosts
  BY Zenon, MovedQuiet, ClientsAreThreads DEF CompleteRun, LeavePerform, Loop, Hosting,
     schedulerVars, pendingVars, storageVars, threadVars, callVars

LEMMA ReleaseHosts ==
  ASSUME Typed, NEW t \in Threads, Release(t)
  PROVE  QuietHosts
  BY Zenon, MovedQuiet, ClientsAreThreads DEF Release, Hosting, schedulerVars, pendingVars,
     storageVars, threadVars, callVars

LEMMA PublishHosts ==
  ASSUME Typed, NEW t \in Threads, Publish(t)
  PROVE  QuietHosts
  BY Zenon, MovedQuiet, ClientsAreThreads DEF Publish, Hosting, schedulerVars, pendingVars,
     storageVars, threadVars, callVars

LEMMA AnnounceHosts ==
  ASSUME Typed, NEW t \in Threads, Announce(t)
  PROVE  QuietHosts
  BY Zenon, MovedQuiet, ClientsAreThreads DEF Announce, LeavePerform, Loop, Hosting, schedulerVars,
     pendingVars, storageVars, threadVars, callVars

LEMMA DropRuntimeHosts ==
  ASSUME Typed, NEW c \in Clients, DropRuntime(c)
  PROVE  QuietHosts
  BY Zenon, MovedQuiet, ClientsAreThreads DEF DropRuntime, Hosting, schedulerVars, pendingVars,
     storageVars, threadVars, callVars

LEMMA JoinHosts ==
  ASSUME Typed, NEW t \in Threads, Join(t)
  PROVE  QuietHosts
  BY Zenon, MovedQuiet, ClientsAreThreads DEF Join, Hosting, schedulerVars, pendingVars,
     storageVars, threadVars, callVars

LEMMA CancelHosts ==
  ASSUME Typed, NEW c \in Clients, NEW q \in handles[c], Cancel(c, q)
  PROVE  QuietHosts
  BY Zenon, MovedQuiet, ClientsAreThreads DEF Cancel, Hosting, schedulerVars, pendingVars,
     storageVars, threadVars, callVars

LEMMA CancelNotifyHosts ==
  ASSUME Typed, NEW c \in Clients, CancelNotify(c)
  PROVE  QuietHosts
  BY Zenon, MovedQuiet, ClientsAreThreads DEF CancelNotify, Hosting, schedulerVars, pendingVars,
     storageVars, threadVars, callVars

LEMMA WaitHosts ==
  ASSUME Typed, NEW c \in Clients, NEW q \in handles[c], Wait(c, q)
  PROVE  QuietHosts
  BY Zenon, MovedQuiet, ClientsAreThreads DEF Wait, Hosting, schedulerVars, pendingVars,
     storageVars, threadVars, callVars

LEMMA WaitDoneHosts ==
  ASSUME Typed, NEW c \in Clients, WaitDone(c)
  PROVE  QuietHosts
  BY Zenon, MovedQuiet, ClientsAreThreads DEF WaitDone, Hosting, schedulerVars, pendingVars,
     storageVars, threadVars, callVars

LEMMA WaitTimeoutHosts ==
  ASSUME Typed, NEW c \in Clients, WaitTimeout(c)
  PROVE  QuietHosts
  BY Zenon, MovedQuiet, ClientsAreThreads DEF WaitTimeout, Hosting, schedulerVars, pendingVars,
     storageVars, threadVars, callVars

LEMMA CheckpointHosts ==
  ASSUME Typed, NEW c \in Clients, Checkpoint(c)
  PROVE  QuietHosts
  BY Zenon, MovedQuiet, ClientsAreThreads DEF Checkpoint, Hosting, schedulerVars, pendingVars,
     storageVars, threadVars, callVars

LEMMA NativeAcquireHosts ==
  ASSUME Typed, NEW c \in Clients, NativeAcquire(c)
  PROVE  QuietHosts
  BY Zenon, MovedQuiet, ClientsAreThreads DEF NativeAcquire, Admit, Hosting, schedulerVars,
     pendingVars, storageVars, threadVars, callVars

LEMMA NativeWakeHosts ==
  ASSUME Typed, NEW c \in Clients, NativeWake(c)
  PROVE  QuietHosts
  BY Zenon, MovedQuiet, ClientsAreThreads DEF NativeWake, Admit, Hosting, schedulerVars,
     pendingVars, storageVars, threadVars, callVars

LEMMA YieldNowHosts ==
  ASSUME Typed, NEW c \in Clients, YieldNow(c)
  PROVE  QuietHosts
  BY Zenon, MovedQuiet, ClientsAreThreads DEF YieldNow, Admit, Hosting, schedulerVars, pendingVars,
     storageVars, threadVars, callVars

LEMMA NativeDropHosts ==
  ASSUME Typed, NEW c \in Clients, NativeDrop(c)
  PROVE  QuietHosts
  BY Zenon, MovedQuiet, ClientsAreThreads DEF NativeDrop, Hosting, schedulerVars, pendingVars,
     storageVars, threadVars, callVars

LEMMA CloneHosts ==
  ASSUME Typed, NEW c \in Clients, NEW d \in Clients, NEW q \in handles[c], Clone(c, d, q)
  PROVE  QuietHosts
  BY Zenon, StillHosts DEF Clone, schedulerVars, pendingVars, storageVars, threadVars, callVars

LEMMA DropCompletionHosts ==
  ASSUME Typed, NEW c \in Clients, NEW q \in handles[c], DropCompletion(c, q)
  PROVE  QuietHosts
  BY Zenon, StillHosts DEF DropCompletion, schedulerVars, pendingVars, storageVars, threadVars,
     callVars

LEMMA SpuriousWakeHosts ==
  ASSUME Typed, NEW t \in Threads, SpuriousWake(t)
  PROVE  QuietHosts
  BY Zenon, StillHosts DEF SpuriousWake, schedulerVars, pendingVars, storageVars, threadVars,
     callVars

LEMMA TakeNothingHosts ==
  ASSUME Typed, NEW t \in Threads, TakeNothing(t)
  PROVE  QuietHosts
<1>1. \A c \in Clients : at'[c] \in Hosting \/ at[c] \in Hosting => at'[c] = at[c]
  BY Zenon DEF TakeNothing, Looking, Loop, Hosting, Typed, ThreadsTyped, Threads
<1> QED
  BY Zenon, <1>1 DEF TakeNothing, QuietHosts, schedulerVars, pendingVars, storageVars, callVars

LEMMA TakeFinishHosts ==
  ASSUME Typed, NEW t \in Threads, TakeFinish(t)
  PROVE  QuietHosts
<1>1. PICK q \in pending : Remove(t, q, {p \in pending : p <= q})
  BY Zenon DEF TakeFinish, Finishable
<1>2. /\ at[t] \notin Hosting /\ at' = [at EXCEPT ![t] = "release"] /\ pending' \subseteq pending
      /\ UNCHANGED <<held, readers, writer, external, run>>
  BY Zenon, <1>1 DEF TakeFinish, Looking, Loop, Remove, Hosting, storageVars, callVars
<1> QED
  BY Zenon, <1>2, MovedQuiet DEF Hosting

LEMMA TakeRunHosts ==
  ASSUME Typed, NEW t \in Threads, TakeRun(t)
  PROVE  QuietHosts
<1>1. \E l \in Lanes, q \in pending, n \in AllNodes : Start(t, l, q, n)
  BY Zenon DEF TakeRun
<1>2. /\ at[t] \notin Hosting /\ at' = [at EXCEPT ![t] = "begin"]
      /\ UNCHANGED <<held, readers, writer, external, pending, run>>
  BY ZenonT(30), <1>1 DEF TakeRun, Looking, Loop, Start, Hosting, storageVars, callVars, pendingVars
<1> QED
  BY Zenon, <1>2, MovedQuiet DEF Hosting

LEMMA HostAskHosts ==
  ASSUME Typed, NEW c \in Clients, NEW S \in SUBSET Storages, NEW how \in Asking,
         HostAsk(c, S, how)
  PROVE  QuietHosts
<1>1. /\ at[c] \notin Hosting /\ how \notin Hosting /\ at' = [at EXCEPT ![c] = how]
      /\ UNCHANGED <<readers, writer, external, pending, run>>
  BY Zenon DEF HostAsk, Hosting, Asking, storageVars, schedulerVars, pendingVars
<1>2. \A d \in Clients \ {c} : held'[d] = held[d]
  BY Zenon DEF HostAsk, Typed, ThreadsTyped
<1> QED
  BY Zenon, <1>1, <1>2, MovedQuiet, ClientsAreThreads
-----------------------------------------------------------------------------
(* Actions that take, give back or meet a host lease. *)

LEMMA SubmitHosts ==
  ASSUME Typed, HostCounted, HostExclusion, NEW c \in Clients, Submit(c)
  PROVE  HostCounted' /\ HostExclusion'
<1>1. sequence \in Tickets /\ graph[c] \in Graphs
  BY Zenon, SubmitIssues
<1>2. \E r \in Runs : r[1] = graph[c] /\ Accept(c, r)
  BY Zenon, <1>1 DEF Submit, Runs
<1>3. PICK r \in Runs : r[1] = graph[c] /\ Accept(c, r)
  BY Zenon, <1>2
<1>4. /\ pending' = pending \union {sequence} /\ run' = [run EXCEPT ![sequence] = r]
      /\ at' = [at EXCEPT ![c] = "notify"] /\ at[c] = "submit"
      /\ UNCHANGED <<held, readers, writer, external>>
  BY Zenon, <1>3 DEF Submit, Accept, Enqueue, LeaveSubmit, storageVars
<1>5. \A d \in Clients : at'[d] \in Hosting \/ at[d] \in Hosting => at'[d] = at[d]
  BY Zenon, <1>4 DEF Typed, ThreadsTyped, Threads, Hosting
<1>6. run'[sequence] = r /\ \A q \in pending : run'[q] = run[q]
  BY SMTT(30), <1>1, <1>4, TicketsOfJobs DEF Typed, JobsTyped, Tickets
<1>7. HostCounted'
  <2>1. \A s \in Storages : Readers(s)' = Readers(s)
    BY Zenon, <1>4, <1>5 DEF Readers, Hosting
  <2>2. \A s \in Storages :
          /\ (\E d \in Clients : at'[d] = "writing" /\ s \in held'[d])
               <=> (\E d \in Clients : at[d] = "writing" /\ s \in held[d])
          /\ (\E d \in Clients : at'[d] = "external" /\ s \in held'[d])
               <=> (\E d \in Clients : at[d] = "external" /\ s \in held[d])
    BY Zenon, <1>4, <1>5 DEF Hosting
  <2> QED
    BY <1>4, <2>1, <2>2 DEF HostCounted
<1>8. \A u \in Uses(r[1]) : ~HostConflict(u.storage, u.write)
  BY Zenon, <1>3 DEF Submit, Admissible
<1>9. ASSUME NEW d \in Clients, at[d] = "reading", NEW s \in held[d]
      PROVE  ~DeviceConflict(s, FALSE)' /\ readers'[s] > 0
  <2>1. ~DeviceConflict(s, FALSE) /\ readers[s] > 0
    BY Zenon, <1>9 DEF HostExclusion
  <2>2. \A u \in Uses(r[1]) : u.storage = s => ~u.write
    BY <1>8, <2>1 DEF HostConflict
  <2> QED
    BY Zenon, <1>4, <1>6, <2>1, <2>2 DEF DeviceConflict, Graph
<1>10. ASSUME NEW d \in Clients, at[d] \in {"writing", "external"}, NEW s \in held[d]
       PROVE  ~DeviceConflict(s, TRUE)'
  <2>1. ~DeviceConflict(s, TRUE)
    BY Zenon, <1>10 DEF HostExclusion
  <2>2. writer[s] \/ external[s]
    BY Zenon, <1>10 DEF HostCounted, Typed, ThreadsTyped
  <2>3. \A u \in Uses(r[1]) : u.storage # s
    BY Zenon, <1>8, <2>2 DEF HostConflict
  <2> QED
    BY ZenonT(30), <1>4, <1>6, <2>1, <2>3 DEF DeviceConflict, Graph
<1>11. HostExclusion'
  <2>1. \A d \in Clients : at'[d] \in Hosting => at'[d] = at[d] /\ held'[d] = held[d]
    BY Zenon, <1>4, <1>5
  <2> QED
    BY Zenon, <1>9, <1>10, <2>1 DEF HostExclusion, Hosting
<1> QED
  BY Zenon, <1>7, <1>11

\* One holder c comes, goes or changes; the others stay.
LEMMA OthersStay ==
  ASSUME Typed, NEW c \in Clients, NEW pc, at' = [at EXCEPT ![c] = pc],
         \A d \in Clients \ {c} : held'[d] = held[d]
  PROVE  /\ at'[c] = pc
         /\ \A d \in Clients \ {c} : at'[d] = at[d] /\ held'[d] = held[d]
  BY Zenon, ClientsAreThreads DEF Typed, ThreadsTyped

LEMMA UnmapHosts ==
  ASSUME Typed, HostCounted, HostExclusion, NEW c \in Clients, Unmap(c)
  PROVE  HostCounted' /\ HostExclusion'
<1>1. /\ at[c] \in {"reading", "writing"} /\ at' = [at EXCEPT ![c] = "idle"]
      /\ UNCHANGED <<external, pending, run>>
  BY Zenon DEF Unmap, LeaveHost, schedulerVars, pendingVars
<1>2. \A d \in Clients \ {c} : held'[d] = held[d]
  BY Zenon DEF Unmap, LeaveHost, Typed, ThreadsTyped
<1>3. /\ at'[c] = "idle"
      /\ \A d \in Clients \ {c} : at'[d] = at[d] /\ held'[d] = held[d]
  BY Zenon, <1>1, <1>2, OthersStay
<1>4. \A s \in Storages : Readers(s)' = Readers(s) \ {c}
  BY Zenon, <1>3 DEF Readers
<1>5. \A s \in Storages : readers'[s] = Cardinality(Readers(s)')
  <2> TAKE s \in Storages
  <2>1. readers'[s] = IF c \in Readers(s) THEN readers[s] - 1 ELSE readers[s]
    BY Zenon DEF Unmap, Readers
  <2>2. Cardinality(Readers(s) \ {c})
          = IF c \in Readers(s) THEN Cardinality(Readers(s)) - 1 ELSE Cardinality(Readers(s))
    BY Zenon, ReadersFinite, FS_RemoveElement
  <2> QED
    BY Zenon, <1>4, <2>1, <2>2 DEF HostCounted
<1>6. \A s \in Storages : writer'[s] <=> \E d \in Clients : at'[d] = "writing" /\ s \in held'[d]
  <2> TAKE s \in Storages
  <2>1. writer'[s] <=> writer[s] /\ ~(at[c] = "writing" /\ s \in held[c])
    BY Zenon DEF Unmap
  <2>2. at[c] = "writing" /\ s \in held[c]
          => \A d \in Clients \ {c} : ~(at[d] = "writing" /\ s \in held[d])
    BY Zenon DEF HostExclusion
  <2>3. writer[s] <=> \E d \in Clients : at[d] = "writing" /\ s \in held[d]
    BY Zenon DEF HostCounted
  <2> QED
    BY ZenonT(30), <1>3, <2>1, <2>2, <2>3
<1>7. \A s \in Storages : external'[s] <=> \E d \in Clients : at'[d] = "external" /\ s \in held'[d]
  BY ZenonT(30), <1>1, <1>3 DEF HostCounted
<1>8. HostCounted'
  BY Zenon, <1>5, <1>6, <1>7 DEF HostCounted
<1>9. HostExclusion'
  <2>1. \A s : /\ DeviceConflict(s, FALSE)' => DeviceConflict(s, FALSE)
               /\ DeviceConflict(s, TRUE)' => DeviceConflict(s, TRUE)
    BY Zenon, <1>1 DEF DeviceConflict, Graph
  <2>2. ASSUME NEW d \in Clients, at'[d] = "reading", NEW s \in held'[d]
        PROVE  readers'[s] > 0
    <3>1. s \in Storages /\ d \in Readers(s)'
      BY Zenon, <1>3, <2>2 DEF Readers, Typed, ThreadsTyped
    <3>2. IsFiniteSet(Readers(s)')
      BY <1>4, <3>1, ReadersFinite, FS_RemoveElement
    <3> QED
      BY SMTT(30), <1>5, <3>1, <3>2, FS_EmptySet, FS_CardinalityType
  <2> QED
    BY Zenon, <1>3, <2>1, <2>2 DEF HostExclusion
<1> QED
  BY Zenon, <1>8, <1>9

LEMMA HandoffEndHosts ==
  ASSUME Typed, HostCounted, HostExclusion, NEW c \in Clients, NEW u \in BOOLEAN,
         HandoffEnd(c, u)
  PROVE  HostCounted' /\ HostExclusion'
<1>1. /\ at[c] = "external" /\ at' = [at EXCEPT ![c] = "idle"]
      /\ UNCHANGED <<readers, writer, pending, run>>
  BY Zenon DEF HandoffEnd, LeaveHost, schedulerVars, pendingVars
<1>2. \A d \in Clients \ {c} : held'[d] = held[d]
  BY Zenon DEF HandoffEnd, LeaveHost, Typed, ThreadsTyped
<1>3. /\ at'[c] = "idle"
      /\ \A d \in Clients \ {c} : at'[d] = at[d] /\ held'[d] = held[d]
  BY Zenon, <1>1, <1>2, OthersStay
<1>4. \A s \in Storages : Readers(s)' = Readers(s)
  BY Zenon, <1>1, <1>3 DEF Readers
<1>5. \A s \in Storages : external'[s] <=> \E d \in Clients : at'[d] = "external" /\ s \in held'[d]
  <2> TAKE s \in Storages
  <2>1. external'[s] <=> external[s] /\ s \notin held[c]
    BY Zenon DEF HandoffEnd
  <2>2. s \in held[c] => \A d \in Clients \ {c} : ~(at[d] = "external" /\ s \in held[d])
    BY Zenon, <1>1 DEF HostExclusion
  <2>3. external[s] <=> \E d \in Clients : at[d] = "external" /\ s \in held[d]
    BY Zenon DEF HostCounted
  <2> QED
    BY ZenonT(30), <1>1, <1>3, <2>1, <2>2, <2>3
<1>6. \A s \in Storages : writer'[s] <=> \E d \in Clients : at'[d] = "writing" /\ s \in held'[d]
  BY <1>1, <1>3 DEF HostCounted
<1>7. HostCounted'
  BY <1>1, <1>4, <1>5, <1>6 DEF HostCounted
<1>8. HostExclusion'
  <2>1. \A s : /\ DeviceConflict(s, FALSE)' => DeviceConflict(s, FALSE)
               /\ DeviceConflict(s, TRUE)' => DeviceConflict(s, TRUE)
    BY Zenon, <1>1 DEF DeviceConflict, Graph
  <2> QED
    BY Zenon, <1>1, <1>3, <2>1 DEF HostExclusion
<1> QED
  BY Zenon, <1>7, <1>8

\* Nobody holds an allocation that a writer or a handoff finds free of host conflicts.
LEMMA NobodyHolds ==
  ASSUME Typed, HostCounted, NEW s \in Storages, ~HostConflict(s, TRUE)
  PROVE  /\ Readers(s) = {}
         /\ \A d \in Clients : at[d] \in Hosting => s \notin held[d]
<1>1. readers[s] = 0 /\ ~writer[s] /\ ~external[s]
  BY Zenon DEF HostConflict
<1>2. Readers(s) = {}
  BY Zenon, <1>1, ReadersFinite, FS_EmptySet DEF HostCounted
<1> QED
  BY Zenon, <1>1, <1>2 DEF HostCounted, Readers, Hosting

LEMMA HostTryHosts ==
  ASSUME Typed, HostCounted, HostExclusion, NEW c \in Clients, HostTry(c)
  PROVE  HostCounted' /\ HostExclusion'
<1> DEFINE free == \A s \in held[c] : ~HostConflict(s, Writes(c)) /\ ~DeviceConflict(s, Writes(c))
<1>0. at[c] \in Asking /\ UNCHANGED <<pending, run>> /\ held[c] \subseteq Storages
  BY Zenon DEF HostTry, schedulerVars, pendingVars, Typed, ThreadsTyped
<1>1. CASE ~free
  <2>1. /\ \E pc \in {"idle", at[c]} : at' = [at EXCEPT ![c] = pc]
        /\ \A d \in Clients \ {c} : held'[d] = held[d]
        /\ UNCHANGED <<readers, writer, external>>
    BY Zenon, <1>1 DEF HostTry, LeaveHost, Typed, ThreadsTyped
  <2>2. QuietHosts
    BY ZenonT(60), <1>0, <2>1, MovedQuiet, ClientsAreThreads DEF Asking, Hosting
  <2> QED
    BY SMTT(30), <2>2, QuietHostCounted, QuietHostExclusion
<1>2. CASE free
  <2>1. /\ at' = [at EXCEPT ![c] = Holding[@]] /\ held' = held
        /\ readers' = [s \in Storages |->
             IF at[c] = "map_read" /\ s \in held[c] THEN readers[s] + 1 ELSE readers[s]]
        /\ writer' = [s \in Storages |-> writer[s] \/ (at[c] = "map_write" /\ s \in held[c])]
        /\ external' = [s \in Storages |-> external[s] \/ (at[c] = "handoff" /\ s \in held[c])]
    BY Zenon, <1>2 DEF HostTry
  <2>2. at'[c] = Holding[at[c]] /\ \A d \in Clients \ {c} : at'[d] = at[d]
    BY ZenonT(60), <2>1, ClientsAreThreads DEF Typed, ThreadsTyped
  <2>3. \A s : /\ DeviceConflict(s, FALSE)' <=> DeviceConflict(s, FALSE)
               /\ DeviceConflict(s, TRUE)' <=> DeviceConflict(s, TRUE)
    BY Zenon, <1>0 DEF DeviceConflict, Graph
  <2>4. CASE at[c] = "map_read"
    <3>1. at'[c] = "reading" /\ ~Writes(c) /\ writer' = writer /\ external' = external
      BY <2>1, <2>2, <2>4 DEF Holding, Writes, Typed, StorageTyped
    <3>2. \A s \in held[c] : ~HostConflict(s, FALSE) /\ ~DeviceConflict(s, FALSE)
      BY Zenon, <1>2, <3>1 DEF HostConflict, DeviceConflict
    <3>3. \A s \in Storages : Readers(s)' = IF s \in held[c] THEN Readers(s) \union {c}
                                            ELSE Readers(s)
      BY ZenonT(30), <2>1, <2>2, <2>4, <3>1 DEF Readers
    <3>4. \A s \in Storages : c \notin Readers(s)
      BY Zenon, <2>4 DEF Readers
    <3>5. \A s \in Storages : readers'[s] = Cardinality(Readers(s)')
      <4> TAKE s \in Storages
      <4>1. Cardinality(Readers(s) \union {c}) = Cardinality(Readers(s)) + 1
        BY Zenon, <3>4, ReadersFinite, FS_AddElement
      <4> QED
        BY ZenonT(30), <2>1, <2>4, <3>3, <4>1 DEF HostCounted
    <3>6. HostCounted'
      BY SMTT(30), <2>1, <2>2, <2>4, <3>1, <3>5 DEF HostCounted
    <3>7. \A s \in held[c] : readers'[s] > 0
      BY SMTT(30), <1>0, <2>1, <2>4, ReadersFinite DEF HostCounted
    <3>8. \A s \in Storages : readers'[s] >= readers[s]
      BY <2>1 DEF Typed, StorageTyped
    <3>9. \A d \in Clients : at[d] \in {"writing", "external"}
            => \A s \in held[d] : s \notin held[c]
      BY Zenon, <1>0, <3>2 DEF HostConflict, HostCounted
    <3>10. \A d \in Clients : at'[d] = "reading" => \A s \in held'[d] : readers'[s] > 0
      BY Zenon, <2>1, <2>2, <3>7, <3>8 DEF HostExclusion, Typed, ThreadsTyped, StorageTyped
    <3> QED
      BY ZenonT(30), <2>1, <2>2, <2>3, <2>4, <3>1, <3>2, <3>6, <3>9, <3>10 DEF HostExclusion
  <2>5. CASE at[c] \in {"map_write", "handoff"}
    <3>1. Writes(c) /\ at'[c] \in {"writing", "external"} /\ readers' = readers
      BY SMTT(30), <2>1, <2>2, <2>5 DEF Holding, Writes, Typed, StorageTyped
    <3>2. \A s \in held[c] : ~HostConflict(s, TRUE) /\ ~DeviceConflict(s, TRUE)
      BY Zenon, <1>2, <3>1 DEF HostConflict, DeviceConflict
    <3>3. \A s \in held[c] : \A d \in Clients : at[d] \in Hosting => s \notin held[d]
      BY Zenon, <1>0, <3>2, NobodyHolds
    <3>4. \A s \in Storages : Readers(s)' = Readers(s)
      BY ZenonT(30), <2>1, <2>2, <2>5, <3>1 DEF Readers
    <3>5. \A s \in Storages :
            /\ writer'[s] <=> \E d \in Clients : at'[d] = "writing" /\ s \in held'[d]
            /\ external'[s] <=> \E d \in Clients : at'[d] = "external" /\ s \in held'[d]
      <4> TAKE s \in Storages
      <4>1. /\ writer[s] <=> \E d \in Clients : at[d] = "writing" /\ s \in held[d]
            /\ external[s] <=> \E d \in Clients : at[d] = "external" /\ s \in held[d]
        BY Zenon DEF HostCounted
      <4>2. /\ writer'[s] <=> writer[s] \/ (at[c] = "map_write" /\ s \in held[c])
            /\ external'[s] <=> external[s] \/ (at[c] = "handoff" /\ s \in held[c])
        BY Zenon, <2>1
      <4>3. \/ at[c] = "map_write" /\ at'[c] = "writing"
            \/ at[c] = "handoff" /\ at'[c] = "external"
        <5>1. Holding["map_write"] = "writing" /\ Holding["handoff"] = "external"
          BY Zenon DEF Holding
        <5> QED
          BY Zenon, <2>2, <2>5, <5>1
      <4>4. \A d \in Clients :
              /\ at'[d] = "writing" <=> at[d] = "writing" \/ (d = c /\ at[c] = "map_write")
              /\ at'[d] = "external" <=> at[d] = "external" \/ (d = c /\ at[c] = "handoff")
        <5>1. CASE at[c] = "map_write" /\ at'[c] = "writing"
          BY Zenon, <2>2, <5>1
        <5>2. CASE at[c] = "handoff" /\ at'[c] = "external"
          BY Zenon, <2>2, <5>2
        <5> QED
          BY Zenon, <4>3, <5>1, <5>2
      <4>5. (\E d \in Clients : at'[d] = "writing" /\ s \in held'[d])
              <=> (\E d \in Clients : at[d] = "writing" /\ s \in held[d])
                    \/ (at[c] = "map_write" /\ s \in held[c])
        BY Zenon, <2>1, <4>4
      <4>6. (\E d \in Clients : at'[d] = "external" /\ s \in held'[d])
              <=> (\E d \in Clients : at[d] = "external" /\ s \in held[d])
                    \/ (at[c] = "handoff" /\ s \in held[c])
        BY Zenon, <2>1, <4>4
      <4> QED
        BY SMTT(30), <4>1, <4>2, <4>5, <4>6
    <3>6. HostCounted'
      BY <3>1, <3>4, <3>5 DEF HostCounted
    <3> QED
      BY ZenonT(60), <2>1, <2>2, <2>3, <2>5, <3>1, <3>2, <3>3, <3>6 DEF HostExclusion, Hosting
  <2> QED
    BY Zenon, <1>0, <2>4, <2>5 DEF Asking
<1> QED
  BY Zenon, <1>1, <1>2

-----------------------------------------------------------------------------
(* The invariant with the host leases. *)

HostInv == Inv /\ HostCounted /\ HostExclusion

LEMMA InitHostInv == Init => HostInv
<1> SUFFICES ASSUME Init PROVE HostInv
  BY Zenon
<1>1. \A c \in Clients : at[c] = "idle"
  BY Zenon, SchedulerAssumption DEF Init, Threads
<1>2. \A s \in Storages : Readers(s) = {}
  BY Zenon, <1>1 DEF Readers
<1>3. HostCounted
  BY Zenon, <1>1, <1>2, FS_EmptySet DEF Init, HostCounted
<1>4. HostExclusion
  BY Zenon, <1>1 DEF HostExclusion
<1> QED
  BY Zenon, <1>3, <1>4, InitInv DEF HostInv

LEMMA QuietHostInv ==
  ASSUME HostInv, QuietHosts, Inv'
  PROVE  HostInv'
  BY Zenon, QuietHostCounted, QuietHostExclusion DEF HostInv

LEMMA NextHostInv ==
  ASSUME HostInv, [Next]_vars
  PROVE  HostInv'
<1>0. Typed /\ HostCounted /\ HostExclusion /\ Inv'
  BY Zenon, NextInv DEF HostInv, Inv
<1>1. ASSUME NEW t \in Threads, Step(t) \/ SpuriousWake(t) PROVE QuietHosts
  BY ZenonT(30), <1>0, <1>1, TakeFinishHosts, TakeRunHosts, TakeNothingHosts, BeginHosts,
     CompleteRunHosts, ReleaseHosts, PublishHosts, AnnounceHosts, JoinHosts,
     SpuriousWakeHosts, Zenon DEF Step
<1>2. ASSUME NEW c \in Clients, Call(c) \/ NativeDrop(c)
      PROVE  QuietHosts \/ (HostCounted' /\ HostExclusion')
  BY ZenonT(30), <1>0, <1>2, SubmitHosts, SubmitRejectedHosts, NotifyOneHosts, CancelNotifyHosts,
     WaitDoneHosts, NativeWakeHosts, YieldNowHosts, HostTryHosts, UnmapHosts,
     HandoffEndHosts, NativeDropHosts, Zenon DEF Call
<1>3. ASSUME NEW c \in Clients, Choose(c) PROVE QuietHosts
  <2>1. \/ \E g \in Graphs, ds \in SUBSET handles[c] : CheckUsable(c, g, ds)
        \/ \E q \in handles[c] : Cancel(c, q) \/ Wait(c, q) \/ DropCompletion(c, q)
        \/ \E d \in Clients, q \in handles[c] : Clone(c, d, q)
        \/ WaitTimeout(c) \/ DropRuntime(c) \/ NativeAcquire(c) \/ Checkpoint(c)
        \/ \E S \in SUBSET Storages, how \in Asking : HostAsk(c, S, how)
    BY Zenon, <1>3 DEF Choose
  <2> QED
    BY ZenonT(30), <1>0, <2>1, CheckUsableHosts, CancelHosts, WaitHosts, DropCompletionHosts, CloneHosts,
       WaitTimeoutHosts, DropRuntimeHosts, NativeAcquireHosts, CheckpointHosts,
       HostAskHosts, Zenon
<1>4. CASE UNCHANGED vars
  <2>1. QuietHosts
    BY Zenon, <1>4, StillHosts DEF vars, schedulerVars, pendingVars, storageVars, threadVars, callVars
  <2> QED
    BY Zenon, <1>0, <2>1, QuietHostInv
<1>5. CASE Next
  <2>1. QuietHosts \/ (HostCounted' /\ HostExclusion')
    BY ZenonT(30), <1>1, <1>2, <1>3, <1>5 DEF Next
  <2> QED
    BY Zenon, <1>0, <2>1, QuietHostInv DEF HostInv
<1> QED
  BY Zenon, <1>4, <1>5

LEMMA HostInvariance == Spec => []HostInv
<1>1. HostInv /\ [Next]_vars => HostInv'
  BY Zenon, NextHostInv
<1> QED
  BY InitHostInv, <1>1, PTL DEF Spec

\* Buffer::acquire_with, with_gpu_access and submit_after check each other under one lock:
\* a host lease never overlaps conflicting pending device work or another host writer.
THEOREM HostsExcluded == Spec => []HostExclusion
<1>1. HostInv => HostExclusion
  BY ZenonT(30) DEF HostInv
<1> QED
  BY <1>1, HostInvariance, PTL

\* Every variable keeps its type; in particular neither a blocker count (`blockers -= 1' in
\* Scheduler::remove) nor a reader count (`readers -= 1' in the guards) wraps below zero.
THEOREM TypesHold == Spec => []TypeOK
<1>1. HostInv => TypeOK
  <2> SUFFICES ASSUME HostInv PROVE TypeOK
    BY Zenon
  <2>1. Typed /\ Counted /\ HostCounted
    BY Zenon DEF HostInv, Inv
  <2>2. readers \in [Storages -> Nat]
    BY <2>1, ReadersFinite DEF HostCounted, Typed, StorageTyped
  <2>3. blockers \in [Tickets -> Nat]
    BY Zenon, <2>1 DEF Counted
  <2> QED
    BY ZenonT(60), <2>1, <2>2, <2>3 DEF TypeOK, Typed, SchedulerTyped, FlagsTyped, JobsTyped, SlotsTyped,
       SignalsTyped, StorageTyped, ThreadsTyped, OwnersTyped, PCs
<1> QED
  BY <1>1, HostInvariance, PTL
-----------------------------------------------------------------------------
(* Outcomes and turns. *)

\* A Completion or a dependent job holds the signal of submission q.
Seen(q) == \/ \E c \in Clients : q \in handles[c]
           \/ \E p \in Tickets : q \in dependencies[p]
\* What the signal of submission q tells.
Told(q) == IF ~done[run[q]] THEN "none"
           ELSE IF failed[run[q]] THEN "failed"
           ELSE IF cancelled[run[q]] THEN "cancelled" ELSE "ok"
Live == pending \union finishing

\* The producers of a submission in progress are held by its caller.
Borrowed ==
  \A c \in Clients : after[c] \subseteq handles[c] /\ (at[c] # "submit" => after[c] = {})
\* A slot is not given away while its signal is held, so signal and result agree.
Faithful ==
  /\ \A q \in Tickets : Seen(q) => result[q] = Told(q)
  /\ \A q \in Tickets, p \in Live : Seen(q) /\ run[q] = run[p] => q = p
  /\ \A q \in Tickets : q >= sequence \/ q \in Live => result[q] = "none"
\* Only who holds the signal of a submission can ask for its cancellation.
Asked ==
  /\ \A q \in Live : cancel[run[q]] => requested[q]
  /\ \A q \in Tickets : result[q] = "cancelled" => requested[q]

Signals == Borrowed /\ Faithful /\ Asked /\ ProducersSucceeded

LEMMA SeenIssued ==
  ASSUME Typed
  PROVE  \A q \in Tickets : Seen(q) => run[q] \in Runs /\ q < sequence
<1>1. \A q \in Tickets : Seen(q) => run[q] \in Runs
  BY Zenon DEF Seen, Typed, Issued
<1>2. None \notin Runs
  BY SchedulerAssumption
<1> QED
  BY Zenon, <1>1, <1>2, Numbered
-----------------------------------------------------------------------------
(* Steps that publish and accept nothing. *)

\* Signals, results and live jobs stay, nobody gets hold of another signal, and
\* no thread begins to execute.
Calm ==
  /\ UNCHANGED <<run, done, failed, cancelled, cancel, requested, result>>
  /\ Live' = Live /\ sequence <= sequence'
  /\ \A q \in Tickets : Seen(q)' => Seen(q)
  /\ Borrowed'
  /\ Executing' \subseteq Executing
  /\ \A t \in Executing' : cur'[t] = cur[t] /\ dependencies'[cur[t]] = dependencies[cur[t]]

LEMMA CalmSignals ==
  ASSUME Typed, Typed', Signals, Calm
  PROVE  Signals'
<1>1. \A q \in Tickets : Told(q)' = Told(q)
  BY Zenon DEF Told, Calm
<1>2. \A q \in Tickets : q >= sequence' => q >= sequence
  BY DEF Calm, Tickets, Typed, SchedulerTyped
<1>3. Faithful'
  BY Zenon, <1>1, <1>2 DEF Faithful, Signals, Calm
<1>4. Asked'
  BY Zenon DEF Asked, Signals, Calm
<1>5. ProducersSucceeded'
  BY ZenonT(30) DEF ProducersSucceeded, Signals, Calm
<1> QED
  BY Zenon, <1>3, <1>4, <1>5 DEF Signals, Calm

\* A step on which no signal depends, and that leaves a submission in progress alone.
Kept ==
  /\ UNCHANGED <<failed, cancelled, cancel, requested, result, handles, dependencies, after>>
  /\ sequence <= sequence'
  /\ \A c \in Clients : at[c] = "submit" => at'[c] = "submit"

LEMMA KeptCalm ==
  ASSUME Typed, Signals, Kept, QuietJobs
  PROVE  Calm
<1>1. UNCHANGED <<run, done, pending, finishing>>
  BY Zenon DEF QuietJobs
<1>2. \A q \in Tickets : Seen(q)' => Seen(q)
  BY Zenon DEF Seen, Kept
<1>3. Borrowed'
  BY Zenon DEF Borrowed, Signals, Kept
<1> QED
  BY Zenon, <1>1, <1>2, <1>3 DEF Calm, Kept, QuietJobs, Live

LEMMA MovedKept ==
  ASSUME Typed, NEW t \in Threads, at[t] # "submit", NEW pc, at' = [at EXCEPT ![t] = pc],
         UNCHANGED <<failed, cancelled, cancel, requested, result, handles, dependencies,
                     after, sequence>>
  PROVE  Kept
  BY ClientsAreThreads DEF Kept, Typed, ThreadsTyped, SchedulerTyped

LEMMA StepKept ==
  ASSUME Typed, NEW t \in Threads,
         TakeNothing(t) \/ Begin(t) \/ Announce(t) \/ Join(t) \/ SpuriousWake(t)
  PROVE  Kept
<1> USE DEF schedulerVars, pendingVars, signalVars, callVars, historyVars, threadVars
<1>0. sequence \in Int
  BY DEF Typed, SchedulerTyped
<1>1. CASE TakeNothing(t)
  <2>1. \A c \in Clients : at[c] = "submit" => at'[c] = "submit"
    BY ZenonT(30), <1>1, ClientsAreThreads DEF TakeNothing, Looking, Loop, Typed, ThreadsTyped
  <2> QED
    BY <1>0, <1>1, <2>1 DEF TakeNothing, Kept
<1>2. CASE Begin(t)
  BY Zenon, <1>2, MovedKept DEF Begin
<1>3. CASE Announce(t)
  BY Zenon, <1>3, MovedKept DEF Announce, LeavePerform
<1>4. CASE Join(t)
  BY Zenon, <1>4, MovedKept DEF Join
<1>5. CASE SpuriousWake(t)
  BY <1>0, <1>5 DEF SpuriousWake, Kept
<1> QED
  BY Zenon, <1>1, <1>2, <1>3, <1>4, <1>5

LEMMA CallKept ==
  ASSUME Typed, NEW c \in Clients,
         \/ NotifyOne(c) \/ CancelNotify(c) \/ WaitDone(c) \/ HostTry(c) \/ Unmap(c)
         \/ \E u \in BOOLEAN : HandoffEnd(c, u)
  PROVE  Kept
<1> USE ClientsAreThreads DEF schedulerVars, pendingVars, signalVars, callVars, historyVars,
                              threadVars
<1>1. CASE NotifyOne(c)
  BY Zenon, <1>1, MovedKept DEF NotifyOne
<1>2. CASE CancelNotify(c)
  BY Zenon, <1>2, MovedKept DEF CancelNotify
<1>3. CASE WaitDone(c)
  BY ZenonT(30), <1>3, MovedKept DEF WaitDone
<1>4. CASE HostTry(c)
  <2>1. \A d \in Clients : at[d] = "submit" => at'[d] = "submit"
    BY Zenon, <1>4 DEF HostTry, LeaveHost, Asking, Typed, ThreadsTyped
  <2> QED
    <3>1. /\ UNCHANGED <<failed, cancelled, cancel, requested, result, handles, dependencies, after>>
          /\ sequence' = sequence
      BY Zenon, <1>4 DEF HostTry, schedulerVars
    <3>2. sequence <= sequence'
      BY <3>1, Numbered
    <3> QED
      BY Zenon, <2>1, <3>1, <3>2 DEF Kept
<1>5. CASE Unmap(c)
  BY Zenon, <1>5, MovedKept DEF Unmap, LeaveHost
<1>6. CASE \E u \in BOOLEAN : HandoffEnd(c, u)
  BY Zenon, <1>6, MovedKept DEF HandoffEnd, LeaveHost
<1> QED
  BY ZenonT(30), <1>1, <1>2, <1>3, <1>4, <1>5, <1>6

LEMMA ChooseKept ==
  ASSUME Typed, NEW c \in Clients,
         \/ \E q \in handles[c] : Wait(c, q)
         \/ WaitTimeout(c) \/ DropRuntime(c) \/ Checkpoint(c)
         \/ \E S \in SUBSET Storages, how \in Asking : HostAsk(c, S, how)
  PROVE  Kept
<1> USE ClientsAreThreads DEF schedulerVars, pendingVars, signalVars, callVars, historyVars,
                              threadVars
<1>1. CASE \E q \in handles[c] : Wait(c, q)
  BY Zenon, <1>1, MovedKept DEF Wait
<1>2. CASE WaitTimeout(c)
  BY Zenon, <1>2, MovedKept DEF WaitTimeout
<1>3. CASE DropRuntime(c)
  BY Zenon, <1>3, MovedKept DEF DropRuntime
<1>4. CASE Checkpoint(c)
  BY Zenon, <1>4, MovedKept DEF Checkpoint
<1>5. CASE \E S \in SUBSET Storages, how \in Asking : HostAsk(c, S, how)
  BY Zenon, <1>5, MovedKept DEF HostAsk
<1> QED
  BY ZenonT(30), <1>1, <1>2, <1>3, <1>4, <1>5

LEMMA NativeKept ==
  ASSUME Typed, NEW c \in Clients,
         NativeAcquire(c) \/ NativeWake(c) \/ YieldNow(c) \/ NativeDrop(c)
  PROVE  Kept
<1> USE ClientsAreThreads DEF pendingVars, signalVars, callVars, historyVars
<1>0. sequence \in Int
  BY DEF Typed, SchedulerTyped
<1>1. CASE NativeAcquire(c)
  <2>1. \A d \in Clients : at[d] = "submit" => at'[d] = "submit"
    BY Zenon, <1>1 DEF NativeAcquire, Admit, Typed, ThreadsTyped
  <2>2. /\ sequence' = sequence + 1 /\ UNCHANGED <<failed, cancelled, cancel, requested, result>>
        /\ UNCHANGED <<handles, dependencies, after>>
    BY Zenon, <1>1 DEF NativeAcquire
  <2> QED
    BY <1>0, <2>1, <2>2 DEF Kept
<1>2. CASE NativeWake(c)
  <2>1. \A d \in Clients : at[d] = "submit" => at'[d] = "submit"
    BY ZenonT(30), <1>2 DEF NativeWake, Admit, Typed, ThreadsTyped
  <2>2. /\ sequence' = sequence /\ UNCHANGED <<failed, cancelled, cancel, requested, result>>
        /\ UNCHANGED <<handles, dependencies, after>>
    BY ZenonT(30), <1>2 DEF NativeWake
  <2> QED
    BY <1>0, <2>1, <2>2 DEF Kept
<1>3. CASE YieldNow(c)
  <2>1. \A d \in Clients : at[d] = "submit" => at'[d] = "submit"
    BY ZenonT(30), <1>3 DEF YieldNow, Admit, Typed, ThreadsTyped
  <2>2. /\ sequence' = sequence + 1 /\ UNCHANGED <<failed, cancelled, cancel, requested, result>>
        /\ UNCHANGED <<handles, dependencies, after>>
    BY Zenon, <1>3 DEF YieldNow
  <2> QED
    BY <1>0, <2>1, <2>2 DEF Kept
<1>4. CASE NativeDrop(c)
  BY ZenonT(30), <1>4, MovedKept DEF NativeDrop
<1> QED
  BY ZenonT(30), <1>1, <1>2, <1>3, <1>4
-----------------------------------------------------------------------------
(* Calm steps that change who holds a signal, or that move jobs. *)

LEMMA CheckUsableCalm ==
  ASSUME Typed, Signals, NEW c \in Clients, NEW g \in Graphs, NEW ds \in SUBSET handles[c],
         CheckUsable(c, g, ds)
  PROVE  Calm
<1> USE DEF schedulerVars, pendingVars, signalVars, historyVars
<1>1. QuietJobs
  BY Zenon, CheckUsableQuiet
<1>2. Borrowed'
  BY Zenon, ClientsAreThreads DEF CheckUsable, Signals, Borrowed, Typed, ThreadsTyped
<1>3. /\ UNCHANGED <<failed, cancelled, cancel, requested, result, handles, dependencies>>
      /\ sequence' = sequence
  BY Zenon DEF CheckUsable
<1> QED
  BY <1>1, <1>2, <1>3 DEF Calm, QuietJobs, Seen, Live, Typed, SchedulerTyped

LEMMA SubmitRejectedCalm ==
  ASSUME Typed, Signals, NEW c \in Clients, SubmitRejected(c)
  PROVE  Calm
<1> USE DEF schedulerVars, pendingVars, signalVars, historyVars
<1>1. QuietJobs
  BY Zenon, SubmitRejectedQuiet
<1>2. Borrowed'
  BY Zenon, ClientsAreThreads DEF SubmitRejected, LeaveSubmit, Signals, Borrowed, Typed, ThreadsTyped
<1>3. /\ UNCHANGED <<failed, cancelled, cancel, requested, result, handles, dependencies>>
      /\ sequence' = sequence
  BY Zenon DEF SubmitRejected
<1> QED
  BY <1>1, <1>2, <1>3 DEF Calm, QuietJobs, Seen, Live, Typed, SchedulerTyped

\* Only the caller itself drops one of its completions, and not during a submission.
LEMMA DropCompletionCalm ==
  ASSUME Typed, Signals, NEW c \in Clients, NEW q \in handles[c], DropCompletion(c, q)
  PROVE  Calm
<1> USE DEF schedulerVars, pendingVars, signalVars, historyVars, threadVars, callVars
<1>1. QuietJobs
  BY Zenon, DropCompletionQuiet
<1>2. \A d \in Clients : handles'[d] \subseteq handles[d]
                         /\ (at[d] = "submit" => handles'[d] = handles[d])
  BY Zenon DEF DropCompletion, Typed, OwnersTyped
<1>3. /\ UNCHANGED <<failed, cancelled, cancel, requested, result, dependencies, at, after>>
      /\ sequence' = sequence
  BY Zenon DEF DropCompletion
<1>4. Borrowed'
  BY Zenon, <1>2, <1>3 DEF Signals, Borrowed
<1>5. \A p \in Tickets : Seen(p)' => Seen(p)
  BY Zenon, <1>2, <1>3 DEF Seen
<1> QED
  BY <1>1, <1>3, <1>4, <1>5 DEF Calm, QuietJobs, Live, Typed, SchedulerTyped

LEMMA CloneCalm ==
  ASSUME Typed, Signals, NEW c \in Clients, NEW d \in Clients, NEW q \in handles[c],
         Clone(c, d, q)
  PROVE  Calm
<1> USE DEF schedulerVars, pendingVars, signalVars, historyVars, threadVars, callVars
<1>1. QuietJobs
  BY Zenon, CloneQuiet
<1>2. \A e \in Clients : handles[e] \subseteq handles'[e]
                         /\ handles'[e] \subseteq handles[e] \union {q}
  BY Zenon DEF Clone, Typed, OwnersTyped
<1>3. /\ UNCHANGED <<failed, cancelled, cancel, requested, result, dependencies, at, after>>
      /\ sequence' = sequence
  BY Zenon DEF Clone
<1>4. Borrowed'
  BY Zenon, <1>2, <1>3 DEF Signals, Borrowed
<1>5. \A p \in Tickets : Seen(p)' => Seen(p)
  BY Zenon, <1>2, <1>3 DEF Seen
<1> QED
  BY <1>1, <1>3, <1>4, <1>5 DEF Calm, QuietJobs, Live, Typed, SchedulerTyped

\* The job that lets its producers go is finishing, hence not executed by anybody.
LEMMA ReleaseCalm ==
  ASSUME Typed, Owned, Signals, NEW t \in Threads, Release(t)
  PROVE  Calm
<1> USE DEF signalVars, historyVars, callVars
<1>1. QuietJobs
  BY Zenon, ReleaseQuiet
<1>2. t \in Ending /\ cur[t] \in finishing
  BY Zenon DEF Release, Ending, Owned
<1>3. \A u \in Executing : cur[u] # cur[t]
  BY Zenon, <1>2 DEF Owned
<1>4. \A p \in Tickets : dependencies'[p] \subseteq dependencies[p]
                         /\ (p # cur[t] => dependencies'[p] = dependencies[p])
  BY Zenon DEF Release, Typed, JobsTyped
<1>5. /\ UNCHANGED <<failed, cancelled, cancel, requested, result, handles, after>>
      /\ sequence' = sequence
  BY Zenon DEF Release
<1>6. \A d \in Clients : at[d] = "submit" => at'[d] = "submit"
  BY ZenonT(30), ClientsAreThreads DEF Release, Typed, ThreadsTyped
<1>7. Borrowed'
  BY Zenon, <1>5, <1>6 DEF Signals, Borrowed
<1>8. \A p \in Tickets : Seen(p)' => Seen(p)
  BY Zenon, <1>4, <1>5 DEF Seen
<1>9. \A u \in Executing : dependencies'[cur[u]] = dependencies[cur[u]]
  BY ZenonT(30), <1>3, <1>4, TicketsOfJobs
<1> QED
  BY <1>1, <1>5, <1>7, <1>8, <1>9 DEF Calm, QuietJobs, Live, Typed, SchedulerTyped

LEMMA TakeFinishCalm ==
  ASSUME Typed, Owned, Signals, NEW t \in Threads, TakeFinish(t)
  PROVE  Calm
<1> USE DEF signalVars, historyVars, callVars
<1>1. PICK q \in pending : Remove(t, q, {p \in pending : p <= q})
  BY Zenon DEF TakeFinish, Finishable
<1>2. /\ UNCHANGED <<run, done, failed, cancelled, cancel, requested, result>>
      /\ UNCHANGED <<handles, dependencies, after, sequence>>
      /\ pending' = pending \ {q} /\ finishing' = finishing \union {q}
      /\ at' = [at EXCEPT ![t] = "release"] /\ cur' = [cur EXCEPT ![t] = q]
  BY Zenon, <1>1 DEF Remove
<1>3. at[t] \notin {"submit", "begin", "run"}
  BY Zenon DEF TakeFinish, Looking, Loop
<1>4. Executing' = Executing /\ \A u \in Executing : cur'[u] = cur[u]
  BY ZenonT(30), <1>2, <1>3 DEF Executing, Typed, ThreadsTyped
<1>5. Live' = Live
  BY Zenon, <1>2 DEF Live
<1>6. Borrowed'
  BY ZenonT(30), <1>2, <1>3, ClientsAreThreads DEF Signals, Borrowed, Typed, ThreadsTyped
<1>7. \A p \in Tickets : Seen(p)' => Seen(p)
  BY Zenon, <1>2 DEF Seen
<1>8. sequence <= sequence'
  BY <1>2 DEF Typed, SchedulerTyped
<1> QED
  BY ZenonT(30), <1>2, <1>4, <1>5, <1>6, <1>7, <1>8 DEF Calm

LEMMA CompleteRunCalm ==
  ASSUME Typed, Signals, NEW t \in Threads, NEW f \in BOOLEAN, CompleteRun(t, f)
  PROVE  Calm
<1> USE DEF pendingVars, signalVars, historyVars, callVars
<1>1. /\ UNCHANGED <<run, done, failed, cancelled, cancel, requested, result>>
      /\ UNCHANGED <<handles, dependencies, after, sequence, pending, finishing>>
      /\ at[t] = "run" /\ at' = [at EXCEPT ![t] = Loop(t)]
      /\ cur' = [cur EXCEPT ![t] = IF t \in Workers THEN 0 ELSE @]
  BY Zenon DEF CompleteRun, LeavePerform
<1>2. Executing' \subseteq Executing \ {t}
  BY ZenonT(30), <1>1 DEF Executing, Loop, Typed, ThreadsTyped
<1>3. \A u \in Threads \ {t} : cur'[u] = cur[u]
  BY ZenonT(30), <1>1 DEF Typed, ThreadsTyped
<1>4. Borrowed'
  BY ZenonT(30), <1>1, ClientsAreThreads DEF Signals, Borrowed, Typed, ThreadsTyped
<1>5. \A p \in Tickets : Seen(p)' => Seen(p)
  BY Zenon, <1>1 DEF Seen
<1>6. sequence <= sequence'
  BY <1>1 DEF Typed, SchedulerTyped
<1> QED
  BY ZenonT(30), <1>1, <1>2, <1>3, <1>4, <1>5, <1>6 DEF Calm, Live, Executing
-----------------------------------------------------------------------------
(* The steps the signals are about. *)

\* The canceller holds the signal, so the live job of that slot is the one it names.
LEMMA CancelSignals ==
  ASSUME Typed, Typed', Signals, NEW c \in Clients, NEW q \in handles[c], Cancel(c, q)
  PROVE  Signals'
<1> USE DEF schedulerVars, pendingVars, signalVars, callVars
<1>1. QuietJobs
  BY Zenon, CancelQuiet
<1>2. /\ UNCHANGED <<run, done, failed, cancelled, result, handles, dependencies, after>>
      /\ UNCHANGED <<pending, finishing, sequence>>
      /\ cancel' = [cancel EXCEPT ![run[q]] = TRUE]
      /\ requested' = [requested EXCEPT ![q] = TRUE]
      /\ at[c] = "idle" /\ at' = [at EXCEPT ![c] = "cancel"]
  BY Zenon DEF Cancel
<1>3. q \in Tickets /\ Seen(q) /\ run[q] \in Runs
  BY ZenonT(30) DEF Seen, Typed, OwnersTyped, Issued
<1>4. Borrowed'
  BY ZenonT(30), <1>2, ClientsAreThreads DEF Signals, Borrowed, Typed, ThreadsTyped
<1>5. Faithful'
  BY Zenon, <1>2 DEF Signals, Faithful, Seen, Told, Live
<1>6. \A p \in Tickets : requested[p] => requested'[p]
  BY Zenon, <1>2 DEF Typed, OwnersTyped
<1>7. requested'[q]
  BY ZenonT(30), <1>2, <1>3 DEF Typed, OwnersTyped
<1>8. \A p \in Live : p \in Tickets /\ run[p] \in Runs
                      /\ (cancel'[run[p]] => cancel[run[p]] \/ p = q)
  BY ZenonT(30), <1>2, <1>3, TicketsOfJobs DEF Signals, Faithful, Live, Typed, SignalsTyped
<1>9. Asked'
  BY ZenonT(30), <1>2, <1>6, <1>7, <1>8 DEF Signals, Asked, Live
<1>10. ProducersSucceeded'
  BY <1>1, <1>2 DEF Signals, ProducersSucceeded, QuietJobs
<1> QED
  BY ZenonT(30), <1>4, <1>5, <1>9, <1>10 DEF Signals

\* A job starts when its producers are done and none of them failed or was cancelled.
LEMMA TakeRunSignals ==
  ASSUME Typed, Typed', Owned, Signals, NEW t \in Threads, TakeRun(t)
  PROVE  Signals'
<1> USE DEF pendingVars, signalVars, callVars, historyVars
<1>1. PICK l \in Lanes, q \in pending :
        \E n \in Nodes(Graph(q)) :
          /\ Ready(l, q, n) /\ Start(t, l, q, n)
          /\ Executing' = Executing \union {t} /\ t \notin Executing
          /\ cur'[t] = q
          /\ \A u \in Executing \union Ending : cur'[u] = cur[u]
  BY Zenon, TakeRunStarts
<1>2. /\ Executing' = Executing \union {t} /\ cur'[t] = q
      /\ \A u \in Executing : cur'[u] = cur[u]
      /\ \E n \in Nodes(Graph(q)) : Ready(l, q, n) /\ Start(t, l, q, n)
  BY Zenon, <1>1
<1>3. /\ UNCHANGED <<run, done, failed, cancelled, cancel, requested, result>>
      /\ UNCHANGED <<handles, dependencies, after, sequence, pending, finishing>>
      /\ at' = [at EXCEPT ![t] = "begin"]
  BY Zenon, <1>2 DEF Start
<1>4. ~DependencyFailed(q) /\ ~Waiting(q)
  BY Zenon, <1>2 DEF Ready, Stopped, Unblocked
<1>5. q \in Tickets /\ \A d \in dependencies[q] : d \in Tickets /\ Seen(d)
  BY Zenon, TicketsOfJobs DEF Seen, Typed, JobsTyped
<1>6. \A d \in dependencies[q] : result[d] = "ok"
  <2>1. \A d \in dependencies[q] : Told(d) = "ok"
    BY Zenon, <1>4 DEF DependencyFailed, Waiting, Told
  <2> QED
    BY Zenon, <1>5, <2>1 DEF Signals, Faithful
<1>7. ProducersSucceeded'
  BY ZenonT(30), <1>2, <1>3, <1>6 DEF Signals, ProducersSucceeded
<1>8. at[t] # "submit"
  BY Zenon DEF TakeRun, Looking, Loop
<1>9. Borrowed'
  BY ZenonT(30), <1>3, <1>8, ClientsAreThreads DEF Signals, Borrowed, Typed, ThreadsTyped
<1>10. Faithful' /\ Asked'
  BY Zenon, <1>3 DEF Signals, Faithful, Asked, Seen, Told, Live
<1> QED
  BY Zenon, <1>7, <1>9, <1>10 DEF Signals

\* The outcome goes to the signal of the job that ends, which nobody holds for another.
LEMMA PublishSignals ==
  ASSUME Typed, Typed', Owned, Signals, NEW t \in Threads, Publish(t)
  PROVE  Signals'
<1> DEFINE q == cur[t]
           told == IF carried[t] THEN "failed"
                   ELSE IF cancel[run[q]] THEN "cancelled" ELSE "ok"
<1> USE DEF pendingVars, signalVars, callVars
<1>1. /\ UNCHANGED <<run, cancel, requested, handles, dependencies, after, sequence, pending>>
      /\ UNCHANGED cur
      /\ finishing' = finishing \ {q}
      /\ done' = [done EXCEPT ![run[q]] = TRUE]
      /\ failed' = [failed EXCEPT ![run[q]] = carried[t]]
      /\ cancelled' = [cancelled EXCEPT ![run[q]] = cancel[run[q]]]
      /\ result' = [result EXCEPT ![q] = told]
      /\ at[t] = "publish" /\ at' = [at EXCEPT ![t] = "announce"]
  BY Zenon DEF Publish
<1>2. q \in finishing /\ q \in Tickets /\ run[q] \in Runs /\ q \in Live /\ q < sequence
  <2>1. t \in Ending
    BY Zenon, <1>1 DEF Ending
  <2> QED
    BY Zenon, <2>1, TicketsOfJobs DEF Owned, Live
<1>3. \A p \in Tickets : Seen(p)' <=> Seen(p)
  BY Zenon, <1>1 DEF Seen
<1>4. \A p \in Tickets : p # q => result'[p] = result[p]
  BY Zenon, <1>1 DEF Typed, OwnersTyped
<1>5. result'[q] = told
  BY ZenonT(30), <1>1, <1>2 DEF Typed, OwnersTyped
<1>6. done'[run[q]] /\ failed'[run[q]] = carried[t] /\ cancelled'[run[q]] = cancel[run[q]]
  BY ZenonT(30), <1>1, <1>2 DEF Typed, SignalsTyped
<1>7. \A r \in Runs : r # run[q] => done'[r] = done[r] /\ failed'[r] = failed[r]
                                    /\ cancelled'[r] = cancelled[r]
  BY Zenon, <1>1 DEF Typed, SignalsTyped
<1>8. Told(q)' = told
  BY ZenonT(30), <1>1, <1>6 DEF Told
<1>9. \A p \in Tickets : Seen(p) => run[p] \in Runs
  BY Zenon DEF Seen, Typed, Issued
<1>10. \A p \in Tickets : Seen(p) => result'[p] = Told(p)'
  <2>1. ASSUME NEW p \in Tickets, Seen(p), p # q PROVE result'[p] = Told(p)'
    <3>1. run[p] # run[q] /\ run[p] \in Runs
      BY ZenonT(30), <1>2, <1>9, <2>1 DEF Signals, Faithful
    <3>2. /\ run'[p] = run[p] /\ done'[run[p]] = done[run[p]]
          /\ failed'[run[p]] = failed[run[p]] /\ cancelled'[run[p]] = cancelled[run[p]]
      BY ZenonT(30), <1>1, <1>7, <3>1
    <3>3. Told(p)' = Told(p)
      BY Zenon, <3>2 DEF Told
    <3> QED
      BY ZenonT(30), <1>4, <2>1, <3>3 DEF Signals, Faithful
  <2>2. result'[q] = Told(q)'
    BY <1>5, <1>8
  <2>3. \A p \in Tickets : p # q /\ Seen(p) => result'[p] = Told(p)'
    BY Zenon, <2>1
  <2> QED
    BY ZenonT(30), <1>1, <2>2, <2>3 DEF Told
<1>11. Live' = Live \ {q}
  BY <1>1, <1>2 DEF Live, Owned
<1>12. Faithful'
  <2>1. \A p \in Tickets : p >= sequence' \/ p \in Live' => p # q /\ (p >= sequence \/ p \in Live)
    BY <1>1, <1>2, <1>11 DEF Tickets, Typed, SchedulerTyped
  <2>2. \A p \in Tickets : p >= sequence' \/ p \in Live' => result'[p] = "none"
    BY Zenon, <1>4, <2>1 DEF Signals, Faithful
  <2>3. \A p \in Tickets, m \in Live' : Seen(p)' /\ run'[p] = run'[m] => p = m
    BY ZenonT(30), <1>1, <1>3, <1>11 DEF Signals, Faithful
  <2> QED
    BY Zenon, <1>3, <1>10, <2>2, <2>3 DEF Faithful
<1>13. Asked'
  <2>1. told = "cancelled" => cancel[run[q]]
    BY Zenon
  <2>2. result'[q] = "cancelled" => requested[q]
    BY ZenonT(30), <1>2, <1>5, <2>1 DEF Signals, Asked
  <2> QED
    BY ZenonT(30), <1>1, <1>4, <1>11, <2>2 DEF Signals, Asked
<1>14. ProducersSucceeded'
  <2>1. result[q] = "none"
    BY Zenon, <1>2 DEF Signals, Faithful
  <2>2. Executing' = Executing
    BY ZenonT(30), <1>1 DEF Executing, Typed, ThreadsTyped
  <2>3. \A u \in Executing : \A d \in dependencies[cur[u]] : d \in Tickets
    BY ZenonT(30), TicketsOfJobs DEF Typed, JobsTyped
  <2> QED
    BY ZenonT(30), <1>1, <1>4, <2>1, <2>2, <2>3 DEF Signals, ProducersSucceeded
<1>15. Borrowed'
  BY ZenonT(30), <1>1, ClientsAreThreads DEF Signals, Borrowed, Typed, ThreadsTyped
<1> QED
  BY ZenonT(30), <1>12, <1>13, <1>14, <1>15 DEF Signals

\* The new submission gets a slot whose signal nobody holds any more.
LEMMA SubmitSignals ==
  ASSUME Typed, Typed', Owned, Signals, NEW c \in Clients, Submit(c)
  PROVE  Signals'
<1> USE DEF callVars, historyVars
<1>1. sequence \in Tickets /\ graph[c] \in Graphs
  BY Zenon, SubmitIssues
<1>2. \E r \in Runs : FreeSlot(r) /\ Accept(c, r)
  BY Zenon, <1>1 DEF Submit, Runs
<1>3. PICK r \in Runs : FreeSlot(r) /\ Accept(c, r)
  BY Zenon, <1>2
<1>4. /\ pending' = pending \union {sequence} /\ finishing' = finishing
      /\ sequence' = sequence + 1
      /\ run' = [run EXCEPT ![sequence] = r]
      /\ dependencies' = [dependencies EXCEPT ![sequence] = after[c]]
      /\ done' = [done EXCEPT ![r] = FALSE]
      /\ failed' = [failed EXCEPT ![r] = FALSE]
      /\ cancelled' = [cancelled EXCEPT ![r] = FALSE]
      /\ cancel' = [cancel EXCEPT ![r] = FALSE]
      /\ handles' = [handles EXCEPT ![c] = @ \union {sequence}]
      /\ at' = [at EXCEPT ![c] = "notify"] /\ after' = [after EXCEPT ![c] = {}]
      /\ UNCHANGED <<cur, requested, result>>
  BY Zenon, <1>3 DEF Accept, Enqueue, LeaveSubmit
<1>5. Live' = Live \union {sequence}
  BY Zenon, <1>4 DEF Live
<1>6. \A q \in Tickets : Seen(q) => run[q] \in Runs /\ run[q] # r /\ q # sequence
  <2>1. \A q \in Tickets : Seen(q) => run[q] \in Runs /\ q < sequence
    BY Zenon, SeenIssued
  <2>2. \A q \in Tickets : Seen(q) => run[q] # r
    BY Zenon, <1>3 DEF FreeSlot, Observed, Seen
  <2> QED
    <3>1. \A q \in Tickets : q < sequence => q # sequence
      BY ONLY <1>1 DEF Tickets
    <3> QED
      BY Zenon, <2>1, <2>2, <3>1
<1>7. \A q \in Live : q \in Tickets /\ run[q] \in Runs /\ run[q] # r /\ q # sequence
  <2>1. \A q \in Live : q \in Tickets /\ run[q] \in Runs /\ q < sequence
    BY Zenon, TicketsOfJobs DEF Live
  <2>2. \A q \in Live : run[q] # r
    BY <1>3 DEF FreeSlot, Owned, Live
  <2> QED
    <3>1. \A q \in Tickets : q < sequence => q # sequence
      BY ONLY <1>1 DEF Tickets
    <3> QED
      BY Zenon, <2>1, <2>2, <3>1
<1>8. \A q \in Tickets : q # sequence => run'[q] = run[q] /\ dependencies'[q] = dependencies[q]
  BY Zenon, <1>4 DEF Typed, JobsTyped
<1>9. run'[sequence] = r /\ dependencies'[sequence] = after[c]
  BY Zenon, <1>1, <1>4 DEF Typed, JobsTyped
<1>10. ~done'[r] /\ ~cancel'[r]
  BY ZenonT(30), <1>4 DEF Typed, SignalsTyped
<1>11. \A s \in Runs : s # r => /\ done'[s] = done[s] /\ failed'[s] = failed[s]
                                /\ cancelled'[s] = cancelled[s] /\ cancel'[s] = cancel[s]
  BY Zenon, <1>4 DEF Typed, SignalsTyped
<1>12. \A q \in Tickets : Seen(q)' => Seen(q) \/ q = sequence
  <2>1. \A q \in Tickets, d \in Clients : q \in handles'[d] => q \in handles[d] \/ q = sequence
    BY Zenon, <1>4 DEF Typed, OwnersTyped
  <2>2. \A q \in Tickets, p \in Tickets :
          q \in dependencies'[p] => q \in dependencies[p] \/ q \in handles[c]
    BY Zenon, <1>8, <1>9 DEF Signals, Borrowed
  <2> QED
    BY ZenonT(30), <2>1, <2>2 DEF Seen
<1>13. \A q \in Tickets : Seen(q)' => result'[q] = Told(q)'
  <2>1. ASSUME NEW q \in Tickets, Seen(q) PROVE result'[q] = Told(q)'
    <3>1. /\ run'[q] = run[q] /\ done'[run[q]] = done[run[q]]
          /\ failed'[run[q]] = failed[run[q]] /\ cancelled'[run[q]] = cancelled[run[q]]
      BY ZenonT(30), <1>6, <1>8, <1>11, <2>1
    <3>2. Told(q)' = Told(q)
      BY Zenon, <3>1 DEF Told
    <3> QED
      BY ZenonT(30), <1>4, <2>1, <3>2 DEF Signals, Faithful
  <2>2. ASSUME NEW q \in Tickets, q = sequence PROVE result'[q] = Told(q)'
    <3>1. Told(q)' = "none"
      BY ZenonT(30), <1>9, <1>10, <2>2 DEF Told
    <3>2. result[q] = "none"
      BY <2>2 DEF Signals, Faithful, Tickets
    <3> QED
      BY ZenonT(30), <1>4, <3>1, <3>2
  <2> QED
    BY ZenonT(30), <1>12, <2>1, <2>2
<1>14. Faithful'
  <2>1. \A q \in Tickets, p \in Live' : Seen(q)' /\ run'[q] = run'[p] => q = p
    <3> SUFFICES ASSUME NEW q \in Tickets, NEW p \in Live', Seen(q)', run'[q] = run'[p]
                 PROVE  q = p
      BY Zenon
    <3>1. CASE q = sequence
      BY ZenonT(30), <1>5, <1>7, <1>8, <1>9, <3>1
    <3>2. CASE q # sequence
      <4>1. Seen(q) /\ run'[q] = run[q] /\ run[q] # r
        BY ZenonT(30), <1>6, <1>8, <1>12, <3>2
      <4>2. p \in Live /\ run'[p] = run[p]
        BY ZenonT(30), <1>5, <1>7, <1>8, <1>9, <4>1
      <4> QED
        BY Zenon, <4>1, <4>2 DEF Signals, Faithful
    <3> QED
      BY Zenon, <3>1, <3>2
  <2>2. \A q \in Tickets : q >= sequence' \/ q \in Live' => q >= sequence \/ q \in Live
    BY <1>1, <1>4, <1>5 DEF Tickets
  <2>3. \A q \in Tickets : q >= sequence' \/ q \in Live' => result'[q] = "none"
    BY Zenon, <1>4, <2>2 DEF Signals, Faithful
  <2> QED
    BY ZenonT(30), <1>13, <2>1, <2>3 DEF Faithful
<1>15. Asked'
  <2>1. \A q \in Live' : cancel'[run'[q]] => requested'[q]
    BY <1>4, <1>5, <1>7, <1>8, <1>9, <1>10, <1>11 DEF Signals, Asked
  <2> QED
    BY Zenon, <1>4, <2>1 DEF Signals, Asked
<1>16. ProducersSucceeded'
  <2>1. Executing' = Executing
    BY Zenon, <1>4, ClientsAreThreads DEF Submit, Executing, Typed, ThreadsTyped
  <2>2. \A t \in Executing : cur[t] \in Tickets /\ cur[t] # sequence
    BY <1>1, TicketsOfJobs DEF Tickets
  <2> QED
    BY <1>4, <1>8, <2>1, <2>2 DEF Signals, ProducersSucceeded
<1>17. Borrowed'
  BY ZenonT(30), <1>4, ClientsAreThreads DEF Submit, Signals, Borrowed, Typed, ThreadsTyped, OwnersTyped
<1> QED
  BY ZenonT(30), <1>14, <1>15, <1>16, <1>17 DEF Signals
-----------------------------------------------------------------------------
(* The invariant. *)

LEMMA InitSignals == Init => Signals
<1> SUFFICES ASSUME Init PROVE Signals
  BY Zenon
<1>1. Borrowed
  BY Zenon, ClientsAreThreads DEF Init, Borrowed
<1>2. \A q \in Tickets : ~Seen(q)
  BY Zenon DEF Init, Seen
<1>3. Live = {} /\ Executing = {}
  BY Zenon DEF Init, Live, Executing
<1>4. \A q \in Tickets : result[q] = "none"
  BY Zenon DEF Init
<1> QED
  BY ZenonT(30), <1>1, <1>2, <1>3, <1>4 DEF Signals, Faithful, Asked, ProducersSucceeded

LEMMA StepSignals ==
  ASSUME Inv, Typed', Signals, NEW t \in Threads, Step(t) \/ SpuriousWake(t)
  PROVE  Signals'
<1>0. Typed /\ Owned
  BY Zenon DEF Inv
<1>1. CASE TakeNothing(t) \/ Begin(t) \/ Announce(t) \/ Join(t) \/ SpuriousWake(t)
  <2>1. QuietJobs
    BY ZenonT(30), <1>0, <1>1, TakeNothingQuiet, BeginQuiet, AnnounceQuiet, JoinQuiet,
       SpuriousWakeQuiet
  <2> QED
    BY ZenonT(30), <1>0, <1>1, <2>1, StepKept, KeptCalm, CalmSignals
<1>2. CASE TakeFinish(t) \/ Release(t) \/ \E f \in BOOLEAN : CompleteRun(t, f)
  BY ZenonT(30), <1>0, <1>2, TakeFinishCalm, ReleaseCalm, CompleteRunCalm, CalmSignals
<1>3. CASE TakeRun(t) \/ Publish(t)
  BY ZenonT(30), <1>0, <1>3, TakeRunSignals, PublishSignals
<1> QED
  BY ZenonT(30), <1>1, <1>2, <1>3 DEF Step

LEMMA CallSignals ==
  ASSUME Inv, Typed', Signals, NEW c \in Clients, Call(c) \/ NativeDrop(c)
  PROVE  Signals'
<1>0. Typed /\ Owned /\ Queued /\ LaneOwned
  BY Zenon DEF Inv
<1>1. CASE \/ NotifyOne(c) \/ CancelNotify(c) \/ WaitDone(c) \/ HostTry(c) \/ Unmap(c)
           \/ \E u \in BOOLEAN : HandoffEnd(c, u)
  <2>1. QuietJobs
    BY ZenonT(30), <1>0, <1>1, NotifyOneQuiet, CancelNotifyQuiet, WaitDoneQuiet, HostTryQuiet,
       UnmapQuiet, HandoffEndQuiet
  <2> QED
    BY ZenonT(30), <1>0, <1>1, <2>1, CallKept, KeptCalm, CalmSignals
<1>2. CASE NativeWake(c) \/ YieldNow(c) \/ NativeDrop(c)
  <2>1. QuietJobs
    BY ZenonT(30), <1>0, <1>2, NativeWakeLanes, YieldNowLanes, NativeDropLanes
  <2> QED
    BY ZenonT(30), <1>0, <1>2, <2>1, NativeKept, KeptCalm, CalmSignals
<1>3. CASE Submit(c) \/ SubmitRejected(c)
  BY ZenonT(30), <1>0, <1>3, SubmitSignals, SubmitRejectedCalm, CalmSignals
<1> QED
  BY ZenonT(30), <1>1, <1>2, <1>3 DEF Call

LEMMA ChooseSignals ==
  ASSUME Inv, Typed', Signals, NEW c \in Clients, Choose(c)
  PROVE  Signals'
<1>0. Typed /\ Queued /\ LaneOwned
  BY Zenon DEF Inv
<1>1. CASE \/ \E q \in handles[c] : Wait(c, q)
           \/ WaitTimeout(c) \/ DropRuntime(c) \/ Checkpoint(c)
           \/ \E S \in SUBSET Storages, how \in Asking : HostAsk(c, S, how)
  <2>1. QuietJobs
    BY ZenonT(30), <1>0, <1>1, WaitQuiet, WaitTimeoutQuiet, DropRuntimeQuiet, CheckpointQuiet,
       HostAskQuiet
  <2> QED
    BY ZenonT(30), <1>0, <1>1, <2>1, ChooseKept, KeptCalm, CalmSignals
<1>2. CASE \/ \E g \in Graphs, ds \in SUBSET handles[c] : CheckUsable(c, g, ds)
           \/ \E q \in handles[c] : DropCompletion(c, q)
           \/ \E d \in Clients, q \in handles[c] : Clone(c, d, q)
  BY ZenonT(30), <1>0, <1>2, CheckUsableCalm, DropCompletionCalm, CloneCalm, CalmSignals
<1>3. CASE NativeAcquire(c)
  BY ZenonT(30), <1>0, <1>3, NativeAcquireLanes, NativeKept, KeptCalm, CalmSignals
<1>4. CASE \E q \in handles[c] : Cancel(c, q)
  BY ZenonT(30), <1>0, <1>4, CancelSignals
<1> QED
  BY ZenonT(30), <1>1, <1>2, <1>3, <1>4 DEF Choose

LEMMA NextSignals ==
  ASSUME Inv, Signals, [Next]_vars
  PROVE  Signals'
<1>0. Typed /\ Typed'
  BY Zenon, NextInv DEF Inv
<1>1. CASE Next
  BY ZenonT(30), <1>0, <1>1, StepSignals, CallSignals, ChooseSignals DEF Next
<1>2. CASE UNCHANGED vars
  <2>1. QuietJobs
    BY ZenonT(30), <1>2, StillQuiet DEF vars, schedulerVars, pendingVars, slotVars, signalVars, threadVars
  <2>2. Kept
    BY <1>0, <1>2 DEF vars, schedulerVars, pendingVars, signalVars, threadVars, callVars,
       historyVars, Kept, Typed, SchedulerTyped
  <2> QED
    BY ZenonT(30), <1>0, <2>1, <2>2, KeptCalm, CalmSignals
<1> QED
  BY Zenon, <1>1, <1>2

LEMMA SignalsInvariance == Spec => []Signals
<1>1. Inv /\ Signals /\ [Next]_vars => Signals'
  BY Zenon, NextSignals
<1> QED
  BY InitSignals, Invariance, <1>1, PTL DEF Spec

\* Completion::result and Completion::cancel: however slots are reused, a signal that
\* somebody still holds tells the outcome of the submission it was handed out for, and a
\* submission ends as cancelled only if its own cancellation was asked for.
THEOREM OutcomesStable == Spec => []OutcomeStable
<1>1. Inv /\ Signals => OutcomeStable
  <2> SUFFICES ASSUME Typed, Signals PROVE OutcomeStable
    BY Zenon DEF Inv
  <2>1. \A q \in UNION ({handles[c] : c \in Clients} \union {dependencies[p] : p \in Tickets}) :
          q \in Tickets /\ Seen(q)
    BY ZenonT(30) DEF Seen, Typed, JobsTyped, OwnersTyped
  <2> QED
    BY Zenon, <2>1 DEF OutcomeStable, Signals, Faithful, Asked, Told
<1> QED
  BY <1>1, Invariance, SignalsInvariance, PTL

\* submit_after: "Failed or cancelled producers prevent execution": whenever a thread
\* executes a region, every producer of its job has published success.
THEOREM ProducersSucceed == Spec => []ProducersSucceeded
<1>1. Signals => ProducersSucceeded
  BY Zenon DEF Signals
<1> QED
  BY <1>1, SignalsInvariance, PTL
-----------------------------------------------------------------------------
(* The action properties. *)

\* A failed operation poisons every allocation its graph uses.
Poisoned == \A g \in Graphs : quarantined[g] => \A u \in Uses(g) : poison[u.storage]

\* Nothing is enqueued, marked as failed, or started on a lane.
Uneventful ==
  /\ UNCHANGED <<quarantined, poison>> /\ pending' \subseteq pending
  /\ \A l \in Lanes : running'[l] => running[l] \/ native_active'

LEMMA StepUneventful ==
  ASSUME Typed, NEW t \in Threads,
         \/ TakeFinish(t) \/ TakeNothing(t) \/ Begin(t) \/ Release(t) \/ Publish(t)
         \/ Announce(t) \/ Join(t) \/ SpuriousWake(t)
  PROVE  Uneventful
<1> USE DEF schedulerVars, storageVars, Uneventful
<1>1. CASE TakeFinish(t)
  BY Zenon, <1>1 DEF TakeFinish, Remove
<1>2. CASE TakeNothing(t) \/ Begin(t) \/ Release(t)
  BY Zenon, <1>2 DEF TakeNothing, Begin, Release
<1>3. CASE Publish(t) \/ Announce(t) \/ Join(t) \/ SpuriousWake(t)
  BY Zenon, <1>3 DEF Publish, Announce, Join, SpuriousWake
<1> QED
  BY ZenonT(30), <1>1, <1>2, <1>3

LEMMA CallUneventful ==
  ASSUME Typed, NEW c \in Clients,
         \/ SubmitRejected(c) \/ NotifyOne(c) \/ CancelNotify(c) \/ WaitDone(c)
         \/ HostTry(c) \/ Unmap(c)
  PROVE  Uneventful
<1> USE DEF schedulerVars, storageVars, Uneventful
<1>1. CASE SubmitRejected(c) \/ NotifyOne(c) \/ CancelNotify(c) \/ WaitDone(c)
  BY Zenon, <1>1 DEF SubmitRejected, NotifyOne, CancelNotify, WaitDone
<1>2. CASE HostTry(c) \/ Unmap(c)
  BY Zenon, <1>2 DEF HostTry, Unmap
<1> QED
  BY Zenon, <1>1, <1>2

LEMMA ChooseUneventful ==
  ASSUME Typed, NEW c \in Clients, Choose(c), ~NativeAcquire(c)
  PROVE  Uneventful
<1> USE DEF schedulerVars, storageVars, Uneventful
<1>1. CASE \/ \E g \in Graphs, ds \in SUBSET handles[c] : CheckUsable(c, g, ds)
           \/ \E q \in handles[c] : Cancel(c, q) \/ Wait(c, q) \/ DropCompletion(c, q)
           \/ \E d \in Clients, q \in handles[c] : Clone(c, d, q)
  BY Zenon, <1>1 DEF CheckUsable, Cancel, Wait, DropCompletion, Clone
<1>2. CASE \/ WaitTimeout(c) \/ DropRuntime(c) \/ Checkpoint(c)
           \/ \E S \in SUBSET Storages, how \in Asking : HostAsk(c, S, how)
  BY Zenon, <1>2 DEF WaitTimeout, DropRuntime, Checkpoint, HostAsk
<1> QED
  BY ZenonT(30), <1>1, <1>2 DEF Choose

LEMMA NativeUneventful ==
  ASSUME Typed, NEW c \in Clients,
         NativeAcquire(c) \/ NativeWake(c) \/ YieldNow(c) \/ NativeDrop(c)
  PROVE  Uneventful
<1>1. UNCHANGED <<quarantined, poison, pending>>
  BY Zenon DEF NativeAcquire, NativeWake, YieldNow, NativeDrop, storageVars
<1>2. CASE NativeAcquire(c) \/ NativeWake(c)
  <2>1. \/ running' = [running EXCEPT ![Compute] = TRUE] /\ native_active'
        \/ running' = [running EXCEPT ![Compute] = running[Compute]]
    BY ZenonT(30), <1>2 DEF NativeAcquire, NativeWake, Admit
  <2> QED
    BY ZenonT(30), <1>1, <2>1 DEF Uneventful, Typed, SchedulerTyped
<1>3. CASE YieldNow(c)
  <2>1. \/ running' = [running EXCEPT ![Compute] = TRUE] /\ native_active'
        \/ running' = [running EXCEPT ![Compute] = FALSE]
    BY Zenon, <1>3 DEF YieldNow, Admit
  <2> QED
    BY ZenonT(30), <1>1, <2>1 DEF Uneventful, Typed, SchedulerTyped
<1>4. CASE NativeDrop(c)
  <2>1. running' = [running EXCEPT ![Compute] = FALSE]
    BY Zenon, <1>4 DEF NativeDrop
  <2> QED
    BY ZenonT(30), <1>1, <2>1 DEF Uneventful, Typed, SchedulerTyped
<1> QED
  BY ZenonT(30), <1>2, <1>3, <1>4

\* What the events of a step can be.
LEMMA NextEvents ==
  ASSUME Typed, [Next]_vars
  PROVE  \/ Uneventful
         \/ \E c \in Clients : Submit(c) \/ \E u \in BOOLEAN : HandoffEnd(c, u)
         \/ \E t \in Threads : TakeRun(t) \/ \E f \in BOOLEAN : CompleteRun(t, f)
<1>1. CASE Next
  BY ZenonT(30), <1>1, StepUneventful, CallUneventful, ChooseUneventful, NativeUneventful
     DEF Next, Step, Call, Choose
<1>2. CASE UNCHANGED vars
  BY Zenon, <1>2 DEF vars, schedulerVars, storageVars, Uneventful
<1> QED
  BY Zenon, <1>1, <1>2

LEMMA PoisonedNext ==
  ASSUME Typed, Poisoned, [Next]_vars
  PROVE  Poisoned'
<1>1. CASE UNCHANGED <<quarantined, poison>>
  BY Zenon, <1>1 DEF Poisoned
<1>2. CASE \E t \in Threads, f \in BOOLEAN : CompleteRun(t, f)
  <2>1. PICK t \in Threads, f \in BOOLEAN : CompleteRun(t, f)
    BY Zenon, <1>2
  <2> DEFINE g == Graph(cur[t])
  <2>2. /\ quarantined' = [quarantined EXCEPT ![g] = @ \/ f]
        /\ poison' = [s \in Storages |-> poison[s] \/ (f /\ \E u \in Uses(g) : u.storage = s)]
    BY Zenon, <2>1 DEF CompleteRun
  <2>3. \A h \in Graphs : \A u \in Uses(h) : u.storage \in Storages
    BY ZenonT(30), SchedulerAssumption DEF Uses
  <2>4. \A h \in Graphs : quarantined'[h] => quarantined[h] \/ (h = g /\ f)
    BY Zenon, <2>2 DEF Typed, StorageTyped
  <2> HIDE DEF g
  <2>5. \A h \in Graphs : quarantined'[h] => \A u \in Uses(h) : poison'[u.storage]
    BY ZenonT(30), <2>2, <2>3, <2>4 DEF Poisoned
  <2> QED
    BY Zenon, <2>5 DEF Poisoned
<1>3. CASE \E c \in Clients, u \in BOOLEAN : HandoffEnd(c, u)
  <2>1. \A s \in Storages : poison[s] => poison'[s]
    BY Zenon, <1>3 DEF HandoffEnd
  <2>2. quarantined' = quarantined
    BY Zenon, <1>3 DEF HandoffEnd
  <2>3. \A h \in Graphs : \A u \in Uses(h) : u.storage \in Storages
    BY ZenonT(30), SchedulerAssumption DEF Uses
  <2> QED
    BY ZenonT(30), <2>1, <2>2, <2>3 DEF Poisoned
<1>4. CASE \/ \E c \in Clients : Submit(c)
           \/ \E t \in Threads : TakeRun(t)
  <2>1. UNCHANGED <<quarantined, poison>>
    BY ZenonT(30), <1>4 DEF Submit, Accept, TakeRun, Start, storageVars
  <2> QED
    BY Zenon, <1>1, <2>1
<1>5. CASE Uneventful
  BY Zenon, <1>1, <1>5 DEF Uneventful
<1> QED
  BY ZenonT(30), NextEvents, <1>2, <1>3, <1>4, <1>5

\* A graph that is admitted uses no poisoned allocation, so it is not quarantined.
LEMMA QuarantineStep ==
  ASSUME Typed, Poisoned, [Next]_vars, NEW q \in pending' \ pending, Uses(run'[q][1]) # {}
  PROVE  ~quarantined[run'[q][1]]
<1>1. PICK c \in Clients : Submit(c)
  <2>1. ~Uneventful
    BY Zenon DEF Uneventful
  <2>2. ASSUME NEW c \in Clients, \E u \in BOOLEAN : HandoffEnd(c, u) PROVE pending' = pending
    BY Zenon, <2>2 DEF HandoffEnd, schedulerVars
  <2>3. ASSUME NEW t \in Threads, TakeRun(t) \/ \E f \in BOOLEAN : CompleteRun(t, f)
        PROVE  pending' = pending
    BY Zenon, <2>3 DEF TakeRun, Start, CompleteRun
  <2>4. pending' # pending
    BY ZenonT(30)
  <2> QED
    BY ZenonT(30), NextEvents, <2>1, <2>2, <2>3, <2>4
<1>2. sequence \in Tickets /\ graph[c] \in Graphs
  BY Zenon, <1>1, SubmitIssues
<1>3. /\ Admissible(graph[c]) /\ pending' = pending \union {sequence}
      /\ \E s \in Slots : run' = [run EXCEPT ![sequence] = <<graph[c], s>>]
  BY ZenonT(30), <1>1 DEF Submit, Accept, Enqueue
<1>4. run'[q][1] = graph[c]
  BY <1>2, <1>3 DEF Typed, JobsTyped
<1>5. \A u \in Uses(graph[c]) : ~poison[u.storage]
  BY Zenon, <1>3 DEF Admissible, HostConflict
<1> QED
  BY Zenon, <1>2, <1>4, <1>5 DEF Poisoned

\* The submission a lane served last comes after every other one.
LEMMA OwnTurnLast ==
  ASSUME NEW l \in Lanes, NEW p \in Int, NEW q \in Int, last_started[l] = q,
         Before(l, q, p) \/ p = q
  PROVE  p = last_started[l]
  BY DEF Before

\* A job is taken before those that had their turn, and at its own turn only alone.
LEMMA RoundRobinStep ==
  ASSUME Typed, [Next]_vars, NEW l \in Lanes, ~running[l], running'[l], ~native_active',
         last_started'[l] = last_started[l], NEW p \in pending, NEW n \in AllNodes, Ready(l, p, n)
  PROVE  p = last_started[l]
<1>1. PICK t \in Threads : TakeRun(t)
  <2>1. ~Uneventful
    BY Zenon DEF Uneventful
  <2>2. ASSUME NEW t \in Threads, NEW f \in BOOLEAN, CompleteRun(t, f) PROVE FALSE
    <3>1. running' = [running EXCEPT ![Lane(cur[t], node[t])] = FALSE]
      BY Zenon, <2>2 DEF CompleteRun
    <3> QED
      BY ZenonT(30), <3>1 DEF Typed, SchedulerTyped
  <2>3. ASSUME NEW c \in Clients, Submit(c) \/ \E u \in BOOLEAN : HandoffEnd(c, u) PROVE FALSE
    BY Zenon, <2>3 DEF Submit, Accept, HandoffEnd, schedulerVars
  <2> QED
    BY ZenonT(30), NextEvents, <2>1, <2>2, <2>3
<1>2. PICK k \in Lanes, q \in pending, m \in AllNodes : Candidate(k, q, m) /\ Start(t, k, q, m)
  BY Zenon, <1>1 DEF TakeRun
<1>3. running' = [running EXCEPT ![k] = TRUE] /\ last_started' = [last_started EXCEPT ![k] = q]
  BY Zenon, <1>2 DEF Start
<1>4. k = l /\ last_started[l] = q
  BY ZenonT(30), <1>3 DEF Typed, SchedulerTyped
<1>5. Before(l, q, p) \/ p = q
  BY ZenonT(30), <1>2, <1>4 DEF Candidate
<1>6. p \in Int /\ q \in Int
  BY DEF Typed, SchedulerTyped, Tickets
<1> QED
  BY Zenon, <1>4, <1>5, <1>6, OwnTurnLast

LEMMA PoisonedInvariance == Spec => []Poisoned
<1>1. Init => Poisoned
  BY Zenon DEF Init, Poisoned
<1>2. Inv => Typed
  BY Zenon DEF Inv
<1>3. Typed /\ Poisoned /\ [Next]_vars => Poisoned'
  BY Zenon, PoisonedNext
<1> QED
  BY <1>1, <1>2, <1>3, Invariance, PTL DEF Spec

\* submit_after reads usable() before it takes the lock, and a worker may quarantine the
\* graph in between: the graph is not enqueued all the same, because the failure poisoned
\* every allocation it uses and admission looks at those under the lock.
THEOREM QuarantinesHold == Spec => QuarantineHolds
<1> DEFINE A == \A q \in pending' \ pending :
                  Uses(run'[q][1]) # {} => ~quarantined[run'[q][1]]
<1>1. Inv => Typed
  BY Zenon DEF Inv
<1>2. Typed /\ Poisoned /\ [Next]_vars => [A]_vars
  BY Zenon, QuarantineStep
<1>3. QuarantineHolds <=> [][A]_vars
  BY Zenon DEF QuarantineHolds
<1> HIDE DEF A
<1> QED
  BY <1>1, <1>2, <1>3, Invariance, PoisonedInvariance, PTL DEF Spec

\* next_action: "give each ready submission a turn between regions on each lane": whoever
\* looks for work, a job follows itself on a lane only when no other was ready for it.
THEOREM TurnsTaken == Spec => RoundRobin
<1> DEFINE A == \A l \in Lanes :
                  (~running[l] /\ running'[l] /\ ~native_active'
                     /\ last_started'[l] = last_started[l])
                    => \A p \in pending, n \in AllNodes : Ready(l, p, n) => p = last_started[l]
<1>1. Inv => Typed
  BY Zenon DEF Inv
<1>2. Typed /\ [Next]_vars => [A]_vars
  BY Zenon, RoundRobinStep
<1>3. RoundRobin <=> [][A]_vars
  BY Zenon DEF RoundRobin
<1> HIDE DEF A
<1> QED
  BY <1>1, <1>2, <1>3, Invariance, PTL DEF Spec
=============================================================================
