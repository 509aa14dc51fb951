----------------------------- MODULE MCServices -----------------------------
(***************************************************************************)
(* The services around execution and the compiler for TLC: the plan cache, *)
(* the residency manager, the job pool and resident GPU-NPU sessions;      *)
(* compilation through the artifact cache, the kernel cache above it, the  *)
(* runtime bundle and the shared compiler library below it.  The parts do  *)
(* not share state, so a behaviour runs one of them; the scenario says     *)
(* which, and what it leaves out:                                          *)
(*   shared, timed: callers compete for the residency budget and the       *)
(*     manager may go; the cleanup thread runs against one caller;         *)
(*   workspaces, cache, kill: two threads of one process and one key each; *)
(*     a second process with damage and a sweep of the cache; the same     *)
(*     with a kill;                                                        *)
(*   batch, keyed: a batch of kernel requests and single loads; loads by   *)
(*     caller key.                                                         *)
(* Variables of one name in two modules get a second name here.            *)
(***************************************************************************)
EXTENDS Integers, FiniteSets

CONSTANTS
  u1, u2, u3,    \* callers, jobs
  m1, m2, m3,    \* keys; as models, m1 declares its size and m2 grows
  w1, w2, None, Main,
  t1, t2, t3, c1, p1, p2, k1, k2, mod, a1, a2, d1, d2, Nobody

VARIABLES
  scenario,
  entries, result, used, clock, busy, at, key, flight,
  hits, misses, evictions, calls,
  bytes, manager, name, idle_since, charge, retained, victim, resume, dying, passes, active,
  live, queue, open, stage, task, exited, cancelled, finished, promised, outcome, dropper,
  accepted, decision, poisoned, word, published, device, host,
  starts,  \* compilations, kernel requests and preparations begun so far
  work, disk, built, flock, mutex, indexed, pool, sweep, accessed, damaged,
  kernelDevice, ready, waiting, building, indexOf, buildLock, keysLock, batch, call, loads,
  folder, proc, downloadLock, installLock, disturbed, faults,
  file, mapped, libraries, resolved, cacheLock, libraryLock, opening

Threads == {t1, t2, t3}
Plans == INSTANCE PlanCache WITH
  Keys <- {m1, m2, m3}, Callers <- {u1, u2, u3}, Capacity <- 2, MaxGets <- 4
Models == INSTANCE Residency WITH
  Keys <- {m1, m2}, Callers <- {u1, u2}, Limit <- 2, Growth <- 1, Timeout <- 2, Droppable <- TRUE,
  Peak <- [k \in {m1, m2} |-> IF k = m1 THEN 2 ELSE 0],
  Resident <- [k \in {m1, m2} |-> IF k = m1 THEN 1 ELSE 0],
  MaxClock <- 3, MaxPasses <- 3
Pool == INSTANCE JobPool WITH Jobs <- {u1, u2, u3}, Workers <- {w1, w2}, Capacity <- 2
Sessions == INSTANCE ResidentSession
Compiler == INSTANCE Compilation WITH used <- accessed,
  Keys <- {k1, k2}, Processes <- {p1, p2}, Collectors <- {c1}, Limit <- 1,
  ProcessOf <- [i \in {t1, t2, t3, c1} |-> IF i \in {t1, t2} THEN p1 ELSE p2],
  ModuleOf <- [k \in {k1, k2} |-> mod], CxxModules <- {mod}
Kernels == INSTANCE KernelCache WITH device <- kernelDevice, active <- building,
  Artifacts <- {a1, a2}, CallerKeys <- {k1, k2}, Devices <- {d1, d2}, Workers <- {1, 2},
  ArtifactOf <- [k \in {k1, k2} |-> a1], Nothing <- Nobody
Bundle == INSTANCE RuntimeBundle WITH
  Processes <- {t1, t2}, Threads <- {t1, t2}, Paths <- {1}, Options <- {1}

Planning == scenario = "plans"
Managing == scenario \in {"shared", "timed"}
Working == scenario = "jobs"
Resident == scenario = "resident"
Compiling == scenario \in {"workspaces", "cache", "kill"}
Loading == scenario \in {"batch", "keyed"}
Preparing == scenario = "bundle"
Opening == scenario = "library"
Scenarios == {"plans", "shared", "timed", "jobs", "resident", "workspaces", "cache", "kill",
              "batch", "keyed", "bundle", "library"}

cacheVars == <<entries, result, used, clock, busy, at, key, flight>>
planVars == <<hits, misses, evictions, calls>>
modelVars == <<bytes, manager, name, idle_since, charge, retained, victim, resume, dying,
               passes, active>>
jobVars == <<live, queue, open, stage, task, exited, cancelled, finished, promised, outcome,
             dropper>>
sessionVars == <<accepted, decision, poisoned, word, published, device, host>>
serviceVars == <<cacheVars, planVars, modelVars, jobVars, sessionVars>>
compilerVars == <<work, disk, built, flock, mutex, indexed, pool, sweep, accessed, damaged>>
kernelVars ==
  <<kernelDevice, ready, waiting, building, indexOf, buildLock, keysLock, batch, call, loads>>
bundleVars == <<folder, proc, downloadLock, installLock, disturbed, faults>>
libraryVars == <<file, mapped, libraries, resolved, cacheLock, libraryLock, opening>>
toolVars == <<starts, compilerVars, kernelVars, bundleVars, libraryVars>>
vars == <<scenario, serviceVars, toolVars>>

MCInit ==
  /\ scenario \in Scenarios /\ starts = 0
  /\ IF Planning THEN Plans!Init
     ELSE hits = 0 /\ misses = 0 /\ evictions = 0 /\ calls = 0
  /\ IF Managing THEN Models!Init
     ELSE /\ bytes = 0 /\ manager = 0 /\ name = 0 /\ idle_since = 0 /\ charge = 0
          /\ retained = 0 /\ victim = 0 /\ resume = 0 /\ dying = 0 /\ passes = 0 /\ active = 0
  /\ IF Planning \/ Managing THEN TRUE
     ELSE /\ entries = 0 /\ result = 0 /\ used = 0 /\ clock = 0 /\ busy = 0 /\ at = 0
          /\ key = 0 /\ flight = 0
  /\ IF Working THEN Pool!Init
     ELSE /\ live = 0 /\ queue = 0 /\ open = 0 /\ stage = 0 /\ task = 0 /\ exited = 0
          /\ cancelled = 0 /\ finished = 0 /\ promised = 0 /\ outcome = 0 /\ dropper = 0
  /\ IF Resident THEN Sessions!Init
     ELSE /\ accepted = 0 /\ decision = 0 /\ poisoned = 0 /\ word = 0 /\ published = 0
          /\ device = 0 /\ host = 0
  /\ IF Compiling THEN Compiler!Init
     ELSE /\ work = 0 /\ disk = 0 /\ built = 0 /\ flock = 0 /\ mutex = 0 /\ indexed = 0
          /\ pool = 0 /\ sweep = 0 /\ accessed = 0 /\ damaged = 0
  /\ IF Loading THEN Kernels!Init
     ELSE /\ kernelDevice = 0 /\ ready = 0 /\ waiting = 0 /\ building = 0 /\ indexOf = 0
          /\ buildLock = 0 /\ keysLock = 0 /\ batch = 0 /\ call = 0 /\ loads = 0
  /\ IF Preparing THEN Bundle!Init
     ELSE folder = 0 /\ proc = 0 /\ downloadLock = 0 /\ installLock = 0 /\ disturbed = 0 /\ faults = 0
  /\ IF Opening THEN Bundle!LibraryInit
     ELSE /\ file = 0 /\ mapped = 0 /\ libraries = 0 /\ resolved = 0
          /\ cacheLock = 0 /\ libraryLock = 0 /\ opening = 0

Started ==
  CASE Compiling -> \E t \in Threads :
         work[t].at \in Compiler!Ended /\ work'[t].at \in {"meta", "lock"}
    [] Loading -> \E t \in Threads : call[t].at \in Kernels!Resting /\ call'[t] # call[t]
    [] Preparing -> \E p \in {t1, t2} :
         proc[p].at \in Bundle!Resting /\ proc'[p].at \notin Bundle!Resting
    [] OTHER -> FALSE

StartLimit == IF Loading THEN 3 ELSE 2

Within ==
  \* Callers and keys of plans are alike: the first call is u1's, for m1.
  /\ Planning /\ calls = 0 => key'[u2] = 0 /\ key'[u3] = 0 /\ key'[u1] \in {0, m1}
  /\ starts' <= StartLimit
  /\ Compiling => damaged' <= 1
  /\ scenario \in {"workspaces", "kill"} => damaged' = 0
  /\ scenario \in {"workspaces", "cache"} => \A t \in Threads : work'[t].at # "dead"
  /\ scenario = "workspaces" => sweep' = sweep /\ work'[t3].at = "idle"
  /\ scenario \in {"cache", "kill"} =>
       work'[t2].at = "idle" /\ \A t \in Threads : work'[t].key # k2
  /\ scenario = "batch" =>
       indexOf' = indexOf /\ keysLock' = keysLock /\ \A t \in Threads : call'[t].on # d2
  /\ scenario = "keyed" => call'[t3].at = "idle" /\ \A t \in Threads : call'[t].artifact # a2
  /\ Preparing => faults' <= 2
  /\ Opening => file'[1] <= 3
  /\ scenario = "timed" => at'[u2] = "idle" /\ manager' /\ clock' + passes' <= 5
  /\ scenario = "shared" => passes' = 0
  /\ Managing => \A f \in Models!Flights :
       retained'[f] \subseteq {IF scenario = "timed" THEN "keepalive" ELSE "pin"}

\* A step of one part, which leaves the others alone.
Plan(A) ==
  Planning /\ A /\ UNCHANGED <<scenario, modelVars, jobVars, sessionVars, toolVars>> /\ Within
Manage(A) ==
  Managing /\ A /\ UNCHANGED <<scenario, planVars, jobVars, sessionVars, toolVars>> /\ Within
Work(A) ==
  Working /\ A /\ UNCHANGED <<scenario, cacheVars, planVars, modelVars, sessionVars, toolVars>>
Join(A) ==
  Resident /\ A /\ UNCHANGED <<scenario, cacheVars, planVars, modelVars, jobVars, toolVars>>
Begins == starts' = (IF Started THEN starts + 1 ELSE starts) /\ Within
Compiles(A) ==
  Compiling /\ A /\ UNCHANGED <<scenario, serviceVars, kernelVars, bundleVars, libraryVars>>
LoadKernels(A) ==
  Loading /\ A /\ UNCHANGED <<scenario, serviceVars, compilerVars, bundleVars, libraryVars>>
Prepares(A) ==
  Preparing /\ A /\ UNCHANGED <<scenario, serviceVars, compilerVars, kernelVars, libraryVars>>
Opens(A) ==
  Opening /\ A /\ UNCHANGED <<scenario, serviceVars, compilerVars, kernelVars, bundleVars>>

MCNext ==
  \/ Plan(Plans!Next) \/ Manage(Models!Next) \/ Work(Pool!Next) \/ Join(Sessions!Next)
  \/ Compiles(Compiler!Next) /\ Begins
  \/ LoadKernels(Kernels!Next) /\ Begins
  \/ Prepares(Bundle!Next) /\ Begins
  \/ Opens(Bundle!LibraryNext) /\ Begins

\* Loaders, jobs and callbacks return, threads are scheduled, programs poll
\* and finish.  A word whose publication failed need never reach a device.
Device(p) == IF p \in {u1, w1} THEN "gpu" ELSE "npu"
Goes(p) ==
  \/ Plan((\E ok \in BOOLEAN : Plans!Publish(p, ok)) \/ Plans!Joined(p))
  \/ p # u3 /\ Manage(Models!Advance(p))
  \/ Work(Pool!Send(p))
  \/ p # u3 /\ Join(published /\ Sessions!Observe(Device(p)))
Runs(w) == Work(Pool!Worker(w)) \/ Join(Sessions!Finish(Device(w)))
Closes == Work(Pool!JoinAll) \/ Join(Sessions!Joined)

\* A thread goes on once its lock or its turn comes: the locks are taken in
\* the end.  Calls are never begun by fairness.
Same == UNCHANGED starts /\ Within
Turns(t) ==
  \/ Compiles(Compiler!Step(t)) /\ Same
  \/ LoadKernels(Kernels!Step(t)) /\ Same
  \/ t # t3 /\ Prepares(Bundle!Step(t)) /\ Same
Collects == Compiles(Compiler!Collect(c1)) /\ Same
Builds(w) == LoadKernels(Kernels!Work(w)) /\ Same

MCSpec ==
  /\ MCInit /\ [][MCNext]_vars
  /\ \A p \in {u1, u2, u3} : WF_vars(Goes(p))
  /\ \A w \in {w1, w2} : WF_vars(Runs(w))
  /\ WF_vars(Closes)
  /\ \A t \in Threads : SF_vars(Turns(t))
  /\ SF_vars(Collects)
  /\ \A w \in {1, 2} : WF_vars(Builds(w))
-----------------------------------------------------------------------------
\* The counts the services decide by are exact and keep to their limits: plans
\* and evictions (plan_cache.rs), charged bytes of loads, models and models
\* being destroyed (residency.rs), live jobs and their places (jobs.rs).
LimitsExact ==
  /\ Planning => Plans!Bounded
  /\ Managing => Models!BudgetExact /\ Models!NothingLeaks
  /\ Working => Pool!LiveExact

\* What is held, prepared, leased or pinned stays the cached value of its key.
InUseKept == (Planning => Plans!HeldCached) /\ (Managing => Models!LeasedResident)

\* The cleanup thread removes a model only when its last use ended at least the
\* timeout before the pass (residency.rs).
IdleLongEnough == [][Managing => Models!IdleLongEnough]_vars

\* A cancel() that returned true is honoured: the callback receives Cancelled,
\* also when the work was already running (jobs.rs).
CancelHonoured == Working => Pool!CancelHonoured

\* The participants of a resident session run only together, and its storage is
\* released only when both have retired (resident.rs).
RunTogether == Resident => Sessions!RunTogether /\ Sessions!ReleasedQuiet

\* The plan cache and the residency manager both implement SingleFlight.
Shared == INSTANCE SingleFlight WITH
  Keys <- {m1, m2, m3}, Callers <- {u1, u2, u3}, Loads <- 1 .. 4,
  cache <- [k \in {m1, m2, m3} |->
              IF Planning \/ (Managing /\ k # m3) THEN entries[k] ELSE 0],
  ready <- CASE Planning -> Plans!Ready [] Managing -> Models!Ready [] OTHER -> {},
  using <- [p \in {u1, u2, u3} |->
              IF Planning THEN Plans!Using[p]
              ELSE IF Managing /\ p # u3 THEN Models!Using[p]
              ELSE [key |-> 0, load |-> 0]]
ImplementsSingleFlight == Shared!Spec

\* What a compile returns, a cache keeps or a library runs is whole and is
\* what its key or identity names (loom.rs:875-1027, native.rs:15-51).
ArtifactsWhole == (Compiling => Compiler!ArtifactsWhole) /\ (Opening => Bundle!IdentityRuns)

\* A sweep of the kernel cache takes, under the entry's lock, only files that
\* nobody had accessed since its cutoff when it looked (bundle.rs:313-339).  The
\* bundle directory is returned whole, appears whole, and is taken down under its
\* lock only when it is not whole or superseded (bundle.rs:172-309).
PublishedKept ==
  [][(Compiling => Compiler!CachedKept) /\ (Preparing => Bundle!BundleWhole)]_vars

\* A kernel is loaded once for all who ask for it, and what was asked for is
\* never forgotten by a batch that fails (loom.rs:1463-1633).
KernelsOnce == Loading => Kernels!LoadedOnce /\ Kernels!WantedKept

\* Who waits for what: a caller for another's load, a job for its callback, the
\* owner of a pool for its workers, a participant for the decision; compiles,
\* kernel requests and preparations for the locks and leases on their way.
Waiting ==
  CASE Planning -> \E p \in {u1, u2, u3} : at[p] = "joined"
    [] Managing -> \E p \in {u1, u2} : at[p] = "joined"
    [] Working ->
         Pool!Outstanding # {} \/ (~open /\ (dropper # "done" \/ exited # {w1, w2}))
    [] Resident ->
         /\ host # "open" /\ ~(poisoned /\ ~published)
         /\ \E d \in {"gpu", "npu"} : device[d] = "polling"
    [] Compiling -> \E t \in Threads : work[t].at \notin Compiler!Ended
    [] Loading -> \E t \in Threads : call[t].at \notin Kernels!Resting
    [] Preparing -> \E t \in {t1, t2} : proc[t].at \notin Bundle!Resting
    [] Opening -> FALSE

\* Everyone who waits is answered: also when a load fails, the pool is dropped
\* with jobs queued, from inside a job, or one participant was never accepted;
\* and every compile, kernel request and preparation ends, whoever holds a lock
\* or a compiler lease meanwhile (native.rs:399-430, loom.rs:343-376,
\* bundle.rs:389-423).  The calls of a behaviour are bounded, so it is enough
\* that nobody waits in the end.
WaitersAnswered == Waiting ~> ~Waiting
=============================================================================
